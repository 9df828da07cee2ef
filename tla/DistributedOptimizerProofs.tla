------------------- MODULE DistributedOptimizerProofs -----------------------
(***************************************************************************)
(* Proofs about DistributedOptimizer, for any number of ranks, bucket      *)
(* groups, parameters and steps, any assignment of shards, any order in    *)
(* which gradients become ready and every setting of a run.                *)
(***************************************************************************)
EXTENDS DistributedOptimizer, Functions, FiniteSetTheorems, SequenceTheorems, TLAPS

-----------------------------------------------------------------------------
(* The loop: where a rank is, and what its stream may hold there.          *)

(* The optimizer step round i belongs to, from 0.                          *)
StepAt(i) == (i - 1) \div config.accum

Outstanding(r) == Range(comm[r])

(* Every wait is for all that is outstanding: between two waits a rank     *)
(* issues collectives of one kind only.                                    *)
Kind(ph) ==
    CASE ph \in {"forward", "backward", "clip", "norm", "step", "update"} -> "reduce"
      [] ph = "scale" -> "norm"
      [] ph = "gathered" -> "gather"
      [] OTHER -> "loss"

LoopInv(r) ==
    /\ round[r] <= config.accum * Steps
    /\ phase[r] \notin {"zero", "done"} => round[r] # 0
    /\ phase[r] \notin {"forward", "backward"} => round[r] % config.accum = 0
    /\ phase[r] \notin {"gathered", "zero", "done"} => gathers[r] = {}
    /\ phase[r] \in {"clip", "norm", "scale"} => config.clip
    /\ \A c \in Outstanding(r) : c.op = Kind(phase[r])
    /\ IsInjective(comm[r])
    /\ phase[r] \in {"forward", "backward", "clip", "step"} =>
          \A g \in GroupIds : Reduce(g) \in Outstanding(r) => g \in dispatched[r]
    /\ phase[r] = "step" /\ config.clip => comm[r] = <<>>

-----------------------------------------------------------------------------
(* One history.  What a rank issues depends on the setting and on its host *)
(* state alone, and so does the next host state: all ranks run through the *)
(* same states and issue the same collectives.                             *)

Setting == [config |-> config, order |-> engineOrder]

State(ph, i, rdy, tmp, grads, disp, wrk) ==
    [phase |-> ph, round |-> i, ready |-> rdy, temp |-> tmp, withGrad |-> grads,
     dispatched |-> disp, works |-> wrk]

Host(r) ==
    State(phase[r], round[r], ready[r], temp[r], withGrad[r], dispatched[r], works[r])

(* What a backward round accumulates next, and what that starts.           *)
NextParam(e, h)  == e.order[Cardinality(h.ready) + 1]
NextMarked(e, h) ==
    IF e.config.overlap THEN h.withGrad \cup {NextParam(e, h)} ELSE h.withGrad
NextTemp(e, h) ==
    IF e.config.stage = 2 THEN h.temp \cup {GroupOf(NextParam(e, h))} ELSE h.temp
NextStarts(e, h) ==
    IF e.config.overlap /\ Groups[GroupOf(NextParam(e, h))] \subseteq NextMarked(e, h)
    THEN {GroupOf(NextParam(e, h))} ELSE {}

LaunchingAt(e, h, gs, allocated) ==
    {g \in gs \ h.dispatched : g \notin h.works /\ (e.config.stage = 2 => g \in allocated)}
MarkedAfter(h, gs, marked) == marked \ ParamsOf((gs \ h.dispatched) \ h.works)

Emits(e, h) ==
    CASE h.phase = "backward" /\ h.ready # Params ->
           InGroupOrder(Reduce, LaunchingAt(e, h, NextStarts(e, h), NextTemp(e, h)))
      [] h.phase \in {"clip", "step"} ->
           InGroupOrder(Reduce, LaunchingAt(e, h, GroupIds, h.temp))
      [] h.phase = "norm"     -> <<Norm>>
      [] h.phase = "update"   -> InGroupOrder(Gather, GroupIds)
      [] h.phase = "gathered" -> <<Loss>>
      [] OTHER -> <<>>

(* The host state after h with another phase.                              *)
Goes(h, ph) ==
    State(ph, h.round, h.ready, h.temp, h.withGrad, h.dispatched, h.works)

Succ(e, h) ==
    CASE h.phase = "zero" ->
           IF h.round # e.config.accum * Steps
           THEN State("forward", h.round + 1, h.ready, {}, {}, {}, {}) ELSE Goes(h, "done")
      [] h.phase = "forward" ->
           State("backward", h.round, {}, h.temp, h.withGrad, h.dispatched, h.works)
      [] h.phase = "backward" /\ h.ready # Params ->
           State("backward", h.round, h.ready \cup {NextParam(e, h)}, NextTemp(e, h),
                 MarkedAfter(h, NextStarts(e, h), NextMarked(e, h)),
                 h.dispatched \cup NextStarts(e, h),
                 h.works \cup LaunchingAt(e, h, NextStarts(e, h), NextTemp(e, h)))
      [] h.phase = "backward" /\ h.ready = Params ->
           IF h.round % e.config.accum # 0
           THEN State("forward", h.round + 1, h.ready, h.temp, h.withGrad, h.dispatched, h.works)
           ELSE Goes(h, IF e.config.clip THEN "clip" ELSE "step")
      [] h.phase \in {"clip", "step"} ->
           State(IF h.phase = "clip" THEN "norm" ELSE "update", h.round, h.ready,
                 IF e.config.overlap
                 THEN h.temp \ (h.works \cup LaunchingAt(e, h, GroupIds, h.temp)) ELSE h.temp,
                 MarkedAfter(h, GroupIds, h.withGrad), {}, {})
      [] h.phase = "norm"   -> Goes(h, "scale")
      [] h.phase = "scale"  -> Goes(h, "step")
      [] h.phase = "update" -> Goes(h, "gathered")
      [] h.phase = "gathered" -> Goes(h, "zero")

(* n steps of the host: the states it goes through (at), how many          *)
(* collectives it has issued by then (len), which ones (log), and in which *)
(* optimizer step (step).                                                  *)
Chain(e, n, at, len, log, step) ==
    /\ \A m \in 0..n : len[m] \in Nat /\ len[m] <= len[n]
    /\ \A m \in 0..(n - 1) :
         /\ at[m + 1] = Succ(e, at[m])
         /\ len[m + 1] = len[m] + Len(Emits(e, at[m]))
         /\ \A k \in 1..Len(Emits(e, at[m])) :
              /\ log[len[m] + k] = Emits(e, at[m])[k]
              /\ step[len[m] + k] = (at[m].round - 1) \div e.config.accum

(* Rank r is after m of these steps, and c collectives have completed.     *)
OnChain(r, c, m, at, len, log, step) ==
    /\ Host(r) = at[m]
    /\ c + Len(comm[r]) = len[m]
    /\ \A k \in DOMAIN comm[r] : comm[r][k] = log[c + k] /\ step[c + k] = StepAt(round[r])

History ==
    \E c, n \in Nat : \E e, at, len, log, step :
        /\ e = Setting /\ Chain(e, n, at, len, log, step)
        /\ \A r \in Ranks : \E m \in 0..n : OnChain(r, c, m, at, len, log, step)

-----------------------------------------------------------------------------
(* Parameters.                                                             *)

(* How many optimizer steps the parameters of the rank have seen.          *)
Updates(r) ==
    IF phase[r] \in {"gathered", "zero", "done"} THEN round[r] \div config.accum
    ELSE StepAt(round[r])

(* Only between Update and the gather of its group may a parameter of      *)
(* another rank's shard lag, and by one update.                            *)
Lags(r, p) ==
    /\ phase[r] = "gathered" /\ Owner[p] # r
    /\ Gather(GroupOf(p)) \in Outstanding(r)

ParamInv(r) ==
    \A p \in Params : value[r][p] = Updates(r) - (IF Lags(r, p) THEN 1 ELSE 0)

-----------------------------------------------------------------------------
(* Gradients, in a step that is synchronised once.                         *)

Sum(S)     == [avg |-> {}, loc |-> S, clipped |-> 0]
Mean(S, n) == [avg |-> S, loc |-> {}, clipped |-> n]

(* Rounds of the step before round i.                                      *)
Prior(i) == (i - ((i - 1) % config.accum))..(i - 1)

(* The rounds the gradient of p sums on rank r.                            *)
SummedRounds(r, p) ==
    IF phase[r] = "forward" \/ (phase[r] = "backward" /\ p \notin ready[r])
    THEN Prior(round[r]) ELSE Prior(round[r]) \cup {round[r]}

(* What the next gradient of p is added to.                                *)
Current(r, p) ==
    IF Sharded THEN IF GroupOf(p) \in temp[r] THEN full[r][p] ELSE Zero
    ELSE IF needRebind[r] \/ p \in overwrite[r] THEN Zero ELSE full[r][p]

(* The groups all of whose gradients of this round were accumulated.       *)
ReadyGroups(r) == {g \in GroupIds : Groups[g] \subseteq ready[r]}

(* ClipGradNorm_ has finished the reductions.                              *)
ClipFinished(r) == phase[r] \in {"norm", "scale"} \/ (phase[r] = "step" /\ config.clip)

BeforeFinish(r) == phase[r] \in {"backward", "clip"} \/ (phase[r] = "step" /\ ~config.clip)

(* Groups whose reduction was issued in this step.                         *)
Launched(r) ==
    IF phase[r] = "forward" THEN {}
    ELSE IF BeforeFinish(r) THEN dispatched[r] ELSE GroupIds

(* How param.grad is bound, and which gradient is overwritten next.        *)
BindingInv(r) ==
    /\ Sharded => overwrite[r] = {}
    /\ phase[r] # "backward" => overwrite[r] = {}
    /\ phase[r] = "backward" => overwrite[r] \cap ready[r] = {}
    /\ ~Sharded =>
         /\ phase[r] = "forward" => (needRebind[r] <=> ~bound[r])
         /\ phase[r] # "forward" => bound[r]
         /\ phase[r] \notin {"forward", "zero", "done"} => ~needRebind[r]

(* The book-keeping of the groups: with overlap a group is dispatched      *)
(* exactly when it is ready, without it when the step finishes.            *)
GroupInv(r) ==
    /\ phase[r] = "forward" => dispatched[r] = {} /\ works[r] = {} /\ withGrad[r] = {}
    /\ BeforeFinish(r) =>
         /\ dispatched[r] = IF config.overlap THEN ReadyGroups(r) ELSE {}
         /\ works[r] = dispatched[r]
         /\ withGrad[r] = IF config.overlap THEN ready[r] \ ParamsOf(dispatched[r]) ELSE {}
         /\ Sharded => \A p \in ready[r] : GroupOf(p) \in temp[r]
    /\ phase[r] \in {"clip", "norm", "scale", "step"} => ready[r] = Params
    /\ ClipFinished(r) => temp[r] = {} /\ dispatched[r] = {} /\ works[r] = {}

InStep(r) == phase[r] \notin {"gathered", "zero", "done"}

InFlight(r, p) == Reduce(GroupOf(p)) \in Outstanding(r)

(* A gradient sums the rounds so far until its group's reduction is issued;*)
(* then it sums the rounds of the step until the reduction completes; then *)
(* its owner has the average.                                              *)
GradOf(r, p) ==
    /\ GroupOf(p) \notin Launched(r) =>
         ~InFlight(r, p) /\ Current(r, p) = Sum(SummedRounds(r, p))
    /\ InFlight(r, p) => full[r][p] = Sum(RoundsOfStep(round[r]))
    /\ GroupOf(p) \in Launched(r) /\ ~InFlight(r, p) /\ Owner[p] = r =>
         PieceGrad(r, p) = Mean(RoundsOfStep(round[r]),
                                IF config.clip /\ phase[r] \in {"step", "update"} THEN 1 ELSE 0)

GradInv(r) ==
    /\ InStep(r) => \A p \in Params : GradOf(r, p)
    /\ config.clip /\ phase[r] \in {"step", "update"} => comm[r] = <<>>
-----------------------------------------------------------------------------
(* Arithmetic of rounds and steps.                                         *)

LEMMA Division ==
    ASSUME NEW n \in Nat \ {0}, NEW c \in Nat
    PROVE  c = (c \div n) * n + (c % n) /\ c % n \in 0..n-1 /\ c \div n \in Nat
OBVIOUS

LEMMA Digits ==
    ASSUME NEW n \in Nat \ {0}, NEW q \in Nat, NEW a \in 0..n-1
    PROVE  (q * n + a) \div n = q /\ (q * n + a) % n = a
OBVIOUS

(* From one round to the next.                                             *)
LEMMA NextRound ==
    ASSUME NEW n \in Nat \ {0}, NEW i \in Nat \ {0}
    PROVE  /\ i % n # 0 => i \div n = (i - 1) \div n /\ i % n = ((i - 1) % n) + 1
           /\ i % n = 0 => i \div n = ((i - 1) \div n) + 1 /\ (i - 1) % n = n - 1
<1>1. PICK q \in Nat, a \in 0..n-1 : /\ i - 1 = q * n + a
                                     /\ q = (i - 1) \div n /\ a = (i - 1) % n
  <2>1. i - 1 \in Nat
    OBVIOUS
  <2> QED BY <2>1, Division
<1>2. CASE a = n - 1
  <2>1. i = (q + 1) * n + 0 /\ q + 1 \in Nat /\ 0 \in 0..n-1
    BY <1>1, <1>2
  <2>2. ((q + 1) * n + 0) % n = 0 /\ ((q + 1) * n + 0) \div n = q + 1
    BY <2>1, Digits
  <2>3. i % n = 0 /\ i \div n = q + 1
    BY <2>1, <2>2
  <2> QED BY <1>1, <1>2, <2>3
<1>3. CASE a # n - 1
  <2>1. i = q * n + (a + 1) /\ a + 1 \in 0..n-1
    BY <1>1, <1>3
  <2>2. (q * n + (a + 1)) % n = a + 1 /\ (q * n + (a + 1)) \div n = q
    BY <2>1, Digits
  <2>3. i % n = a + 1 /\ i \div n = q
    BY <2>1, <2>2
  <2> QED BY <1>1, <2>3
<1> QED BY <1>2, <1>3

(* The last rounds of the steps, and the bound on them.                    *)
LEMMA LastRounds ==
    ASSUME NEW n \in Nat \ {0}, NEW m \in Nat, NEW i \in Nat, i <= n * m
    PROVE  /\ i \div n <= m /\ i \div n \in Nat
           /\ (i % n # 0 \/ i # n * m) => i + 1 <= n * m
<1>1. PICK q \in Nat, a \in 0..n-1 : i = q * n + a /\ q = i \div n /\ a = i % n
  BY Division
<1>2. q <= m
  <2> SUFFICES ASSUME q > m PROVE FALSE
    BY <1>1
  <2>1. PICK d \in Nat : q = m + 1 + d
    <3>1. q - m - 1 \in Nat
      OBVIOUS
    <3> QED BY <3>1
  <2>2. q * n = m * n + n + d * n /\ d * n \in Nat /\ m * n = n * m
    BY <2>1
  <2> QED BY <1>1, <2>2
<1>3. ASSUME i % n # 0 PROVE i # n * m
  <2>1. (m * n + 0) % n = 0 /\ m * n + 0 = n * m
    BY Digits
  <2> QED BY <1>3, <2>1
<1>4. n * m \in Nat
  OBVIOUS
<1> QED BY <1>1, <1>2, <1>3, <1>4

LEMMA SameStepSameLastRound ==
    ASSUME NEW n \in Nat \ {0}, NEW i \in Nat \ {0}, NEW j \in Nat \ {0},
           i % n = 0, j % n = 0, (i - 1) \div n = (j - 1) \div n
    PROVE  i = j
<1>1. /\ i \div n = ((i - 1) \div n) + 1
      /\ j \div n = ((j - 1) \div n) + 1
  BY NextRound, Zenon
<1>2. i = (i \div n) * n + (i % n) /\ j = (j \div n) * n + (j % n)
  BY Division
<1> QED BY <1>1, <1>2

-----------------------------------------------------------------------------
(* The groups of a set, in order.                                          *)

IsSorted(gs, s) ==
    s \in [1..Cardinality(gs) -> gs] /\ \A i, j \in DOMAIN s : i < j => s[i] < s[j]

(* Every set of group numbers can be sorted.  The smallest bound on group  *)
(* numbers for which this failed would be no counterexample: sort those    *)
(* below the bound and append the bound.                                   *)
LEMMA SortedExists ==
    ASSUME NEW n \in Nat, NEW gs \in SUBSET (1..n)
    PROVE  \E s : IsSorted(gs, s)
<1> DEFINE Bad == {m \in Nat : \E hs \in SUBSET (1..m) : \A s : ~IsSorted(hs, s)}
<1>1. SUFFICES ASSUME Bad # {} PROVE FALSE
  OBVIOUS
<1>2. PICK m \in Bad : \A k \in Bad : ~(k < m)
  <2>1. Bad \subseteq Nat
    OBVIOUS
  <2>2. PICK m \in Bad : \A k \in Bad : ~(<<k, m>> \in OpToRel(<, Nat))
    <3> HIDE DEF Bad
    <3> QED BY <1>1, <2>1, NatLessThanWellFounded, WFMin
  <2>3. \A k \in Bad : k < m => <<k, m>> \in OpToRel(<, Nat)
    BY <2>1 DEF OpToRel
  <2> QED BY <2>2, <2>3
<1>3. m \in Nat
  OBVIOUS
<1>4. PICK hs \in SUBSET (1..m) : \A s : ~IsSorted(hs, s)
  OBVIOUS
<1>5. m # 0
  <2> SUFFICES ASSUME m = 0 PROVE FALSE
    OBVIOUS
  <2>1. hs = {}
    BY <1>4
  <2>2. 1..Cardinality(hs) = {}
    BY <2>1, FS_EmptySet
  <2>3. IsSorted(hs, [i \in 1..Cardinality(hs) |-> 0])
    BY <2>2 DEF IsSorted
  <2> QED BY <1>4, <2>3
<1> DEFINE ls == hs \ {m}
<1>6. ls \in SUBSET (1..(m - 1)) /\ m - 1 \in Nat
  BY <1>3, <1>4, <1>5
<1>7. PICK s : IsSorted(ls, s)
  <2>1. m - 1 \notin Bad
    BY <1>2, <1>3
  <2> QED BY <1>6, <2>1
<1>8. IsFiniteSet(hs) /\ IsFiniteSet(ls) /\ Cardinality(ls) \in Nat
  <2>1. IsFiniteSet(1..m)
    BY <1>3, FS_Interval
  <2>2. IsFiniteSet(hs) /\ IsFiniteSet(ls)
    BY <2>1, FS_Subset, FS_RemoveElement
  <2> QED BY <2>2, FS_CardinalityType
<1>9. CASE m \notin hs
  BY <1>4, <1>7, <1>9
<1>10. CASE m \in hs
  <2>1. Cardinality(hs) = Cardinality(ls) + 1
    <3>1. hs = ls \cup {m} /\ m \notin ls
      BY <1>10
    <3> HIDE DEF ls
    <3> QED BY <1>8, <3>1, FS_AddElement
  <2> DEFINE t == [i \in 1..Cardinality(hs) |-> IF i = Cardinality(hs) THEN m ELSE s[i]]
  <2>2. ASSUME NEW i \in 1..Cardinality(hs), i # Cardinality(hs)
        PROVE  i \in DOMAIN s /\ s[i] \in ls
    <3>1. s \in [1..Cardinality(ls) -> ls]
      BY <1>7 DEF IsSorted
    <3>2. i \in 1..Cardinality(ls)
      BY <1>8, <2>1, <2>2
    <3> HIDE DEF ls
    <3> QED BY <3>1, <3>2
  <2>3. t \in [1..Cardinality(hs) -> hs]
    BY <1>10, <2>2
  <2>4. ASSUME NEW i \in DOMAIN t, NEW j \in DOMAIN t, i < j PROVE t[i] < t[j]
    <3>1. i # Cardinality(hs)
      BY <1>8, <2>1, <2>4
    <3>2. CASE j = Cardinality(hs)
      <4>1. s[i] \in 1..(m - 1)
        BY <1>6, <2>2, <3>1
      <4>2. s[i] < m
        BY <1>3, <4>1
      <4> QED BY <3>1, <3>2, <4>2
    <3>3. CASE j # Cardinality(hs)
      BY <1>7, <2>2, <2>4, <3>1, <3>3 DEF IsSorted
    <3> QED BY <3>2, <3>3
  <2>5. IsSorted(hs, t)
    BY <2>3, <2>4 DEF IsSorted
  <2> QED BY <1>4, <2>5
<1> QED BY <1>9, <1>10

LEMMA GroupFacts ==
    /\ Len(Groups) \in Nat /\ GroupIds = 1..Len(Groups) /\ IsFiniteSet(GroupIds)
    /\ \A p \in Params : GroupOf(p) \in GroupIds /\ p \in Groups[GroupOf(p)]
    /\ \A g \in GroupIds : Groups[g] \subseteq Params /\ Groups[g] # {}
    /\ \A g \in GroupIds : \A p \in Groups[g] : GroupOf(p) = g
<1>1. Len(Groups) \in Nat /\ GroupIds = 1..Len(Groups)
  BY GroupsAssumption DEF GroupIds
<1>2. IsFiniteSet(GroupIds)
  BY <1>1, FS_Interval
<1>3. ASSUME NEW p \in Params PROVE GroupOf(p) \in GroupIds /\ p \in Groups[GroupOf(p)]
  <2>1. \E g \in GroupIds : p \in Groups[g]
    BY DEF Params
  <2> QED BY <2>1 DEF GroupOf
<1>4. ASSUME NEW g \in GroupIds PROVE Groups[g] \subseteq Params /\ Groups[g] # {}
  BY GroupsAssumption DEF Params
<1>5. ASSUME NEW g \in GroupIds, NEW p \in Groups[g] PROVE GroupOf(p) = g
  <2>1. GroupOf(p) \in GroupIds /\ p \in Groups[GroupOf(p)]
    BY <1>3, <1>4
  <2> QED BY <2>1, GroupsAssumption
<1> QED BY <1>1, <1>2, <1>3, <1>4, <1>5

LEMMA SortedFacts ==
    ASSUME NEW gs \in SUBSET GroupIds
    PROVE  /\ Sorted(gs) \in Seq(GroupIds)
           /\ \A k \in DOMAIN Sorted(gs) : Sorted(gs)[k] \in gs
           /\ \A g \in gs : \E k \in DOMAIN Sorted(gs) : Sorted(gs)[k] = g
           /\ \A k, l \in DOMAIN Sorted(gs) : Sorted(gs)[k] = Sorted(gs)[l] => k = l
<1> DEFINE s == Sorted(gs)
           n == Cardinality(gs)
<1>1. s \in [1..n -> gs] /\ \A i, j \in DOMAIN s : i < j => s[i] < s[j]
  <2>1. \E t : IsSorted(gs, t)
    BY GroupFacts, SortedExists
  <2> QED BY <2>1 DEF IsSorted, Sorted
<1>2. IsFiniteSet(gs) /\ n \in Nat
  BY GroupFacts, FS_Subset, FS_CardinalityType
<1>3. gs \subseteq Nat
  BY GroupFacts
<1> HIDE DEF s
<1>4. \A k, l \in 1..n : s[k] = s[l] => k = l
  <2> SUFFICES ASSUME NEW k \in 1..n, NEW l \in 1..n, s[k] = s[l], k # l PROVE FALSE
    OBVIOUS
  <2>1. k < l \/ l < k
    BY <1>2
  <2>2. s[k] < s[l] \/ s[l] < s[k]
    BY <1>1, <2>1
  <2>3. s[k] \in Nat /\ s[l] \in Nat
    BY <1>1, <1>3
  <2> QED BY <2>2, <2>3
<1>5. s \in Surjection(1..n, gs)
  <2>1. s \in Injection(1..n, gs)
    BY <1>1, <1>4 DEF Injection, IsInjective
  <2>2. Cardinality(1..n) = n
    BY <1>2, FS_Interval
  <2> HIDE DEF n
  <2>3. Cardinality(1..n) = Cardinality(gs)
    BY <2>2 DEF n
  <2> QED BY <1>2, <2>1, <2>3, FS_Injection
<1>6. s \in Seq(GroupIds)
  <2>1. s \in [1..n -> GroupIds]
    BY <1>1
  <2> HIDE DEF n
  <2> QED BY <1>2, <2>1
<1> QED BY <1>1, <1>4, <1>5, <1>6 DEF Surjection, s

(* s holds one collective of each group of gs.                             *)
OnePerGroup(s, op, gs) ==
    /\ s \in Seq(Collective)
    /\ Range(s) = {[op |-> op, group |-> g] : g \in gs}
    /\ IsInjective(s)

LEMMA IssueFacts ==
    ASSUME NEW gs \in SUBSET GroupIds
    PROVE  /\ OnePerGroup(InGroupOrder(Reduce, gs), "reduce", gs)
           /\ OnePerGroup(InGroupOrder(Gather, gs), "gather", gs)
<1> DEFINE s == Sorted(gs)
<1>1. /\ s \in Seq(GroupIds)
      /\ \A k \in DOMAIN s : s[k] \in gs
      /\ \A g \in gs : \E k \in DOMAIN s : s[k] = g
      /\ \A k, l \in DOMAIN s : s[k] = s[l] => k = l
  BY SortedFacts
<1>2. /\ InGroupOrder(Reduce, gs) = [k \in DOMAIN s |-> [op |-> "reduce", group |-> s[k]]]
      /\ InGroupOrder(Gather, gs) = [k \in DOMAIN s |-> [op |-> "gather", group |-> s[k]]]
  BY DEF InGroupOrder, Reduce, Gather
<1> HIDE DEF s
<1>3. ASSUME NEW op \in {"reduce", "gather"}
      PROVE  OnePerGroup([k \in DOMAIN s |-> [op |-> op, group |-> s[k]]], op, gs)
  <2> DEFINE t == [k \in DOMAIN s |-> [op |-> op, group |-> s[k]]]
  <2>1. DOMAIN s = 1..Len(s) /\ Len(s) \in Nat
    BY <1>1
  <2>2. t \in [1..Len(s) -> Collective]
    BY <1>1, <2>1 DEF Collective, Reduce, Gather
  <2>3. t \in Seq(Collective)
    <3> HIDE DEF t
    <3> QED BY <2>1, <2>2
  <2>4. Range(t) = {[op |-> op, group |-> g] : g \in gs}
    BY <1>1 DEF Range
  <2>5. IsInjective(t)
    BY <1>1 DEF IsInjective
  <2> QED BY <2>3, <2>4, <2>5 DEF OnePerGroup
<1> QED BY <1>2, <1>3

(* Sequences of distinct collectives.                                      *)
LEMMA Concatenation ==
    ASSUME NEW s \in Seq(Collective), NEW t \in Seq(Collective)
    PROVE  /\ s \o t \in Seq(Collective)
           /\ Range(s \o t) = Range(s) \cup Range(t)
           /\ IsInjective(s) /\ IsInjective(t) /\ Range(s) \cap Range(t) = {}
              => IsInjective(s \o t)
<1> DEFINE u == s \o t
<1>1. /\ Len(s) \in Nat /\ Len(t) \in Nat /\ u \in Seq(Collective)
      /\ DOMAIN s = 1..Len(s) /\ DOMAIN t = 1..Len(t) /\ DOMAIN u = 1..(Len(s) + Len(t))
      /\ \A k \in 1..(Len(s) + Len(t)) : u[k] = IF k <= Len(s) THEN s[k] ELSE t[k - Len(s)]
  OBVIOUS
<1> HIDE DEF u
<1>2. \A k \in DOMAIN s : k \in DOMAIN u /\ u[k] = s[k]
  BY <1>1
<1>3. \A k \in DOMAIN t : k + Len(s) \in DOMAIN u /\ u[k + Len(s)] = t[k]
  BY <1>1
<1>4. \A k \in DOMAIN u : k \in DOMAIN s \/ (k - Len(s) \in DOMAIN t /\ k > Len(s))
  BY <1>1
<1>5. Range(u) = Range(s) \cup Range(t)
  <2>1. ASSUME NEW x \in Range(u) PROVE x \in Range(s) \cup Range(t)
    <3>1. PICK k \in DOMAIN u : x = u[k]
      BY DEF Range
    <3>2. CASE k \in DOMAIN s
      BY <1>2, <3>1, <3>2 DEF Range
    <3>3. CASE k - Len(s) \in DOMAIN t /\ k > Len(s)
      <4>1. u[k] = t[k - Len(s)]
        BY <1>1, <3>3
      <4> QED BY <3>1, <3>3, <4>1 DEF Range
    <3> QED BY <1>4, <3>2, <3>3
  <2>2. ASSUME NEW x \in Range(s) PROVE x \in Range(u)
    <3>1. PICK k \in DOMAIN s : x = s[k]
      BY DEF Range
    <3> QED BY <1>2, <3>1 DEF Range
  <2>3. ASSUME NEW x \in Range(t) PROVE x \in Range(u)
    <3>1. PICK k \in DOMAIN t : x = t[k]
      BY DEF Range
    <3> QED BY <1>3, <3>1 DEF Range
  <2> QED BY <2>1, <2>2, <2>3
<1>6. ASSUME IsInjective(s), IsInjective(t), Range(s) \cap Range(t) = {},
             NEW k \in DOMAIN u, NEW l \in DOMAIN u, u[k] = u[l]
      PROVE  k = l
  <2>1. CASE k \in DOMAIN s /\ l \in DOMAIN s
    BY <1>2, <1>6, <2>1 DEF IsInjective
  <2>2. CASE k \notin DOMAIN s /\ l \notin DOMAIN s
    <3>1. k - Len(s) \in DOMAIN t /\ l - Len(s) \in DOMAIN t
      BY <1>4, <2>2
    <3>2. t[k - Len(s)] = t[l - Len(s)]
      <4>1. k > Len(s) /\ l > Len(s) /\ k \in Nat /\ l \in Nat
        BY <1>1, <1>4, <2>2
      <4>2. u[k] = t[k - Len(s)] /\ u[l] = t[l - Len(s)]
        BY <1>1, <4>1
      <4> QED BY <1>6, <4>2
    <3>3. k - Len(s) = l - Len(s)
      BY <1>6, <3>1, <3>2 DEF IsInjective
    <3> QED BY <1>1, <3>3
  <2>3. ASSUME NEW m \in DOMAIN u, NEW n \in DOMAIN u, m \in DOMAIN s, n \notin DOMAIN s
        PROVE  u[m] # u[n]
    <3>1. u[m] \in Range(s)
      BY <1>2, <2>3 DEF Range
    <3>2. n - Len(s) \in DOMAIN t /\ n > Len(s)
      BY <1>4, <2>3
    <3>3. u[n] = t[n - Len(s)]
      BY <1>1, <3>2
    <3>4. u[n] \in Range(t)
      BY <3>2, <3>3 DEF Range
    <3> QED BY <1>6, <3>1, <3>4
  <2> QED BY <1>6, <2>1, <2>2, <2>3
<1> QED BY <1>1, <1>5, <1>6 DEF IsInjective, u

LEMMA Emptiness ==
    /\ Range(<<>>) = {} /\ IsInjective(<<>>)
    /\ \A c : Append(<<>>, c) = <<c>> /\ Range(<<c>>) = {c} /\ IsInjective(<<c>>)
    /\ \A s \in Seq(Collective) : (Range(s) = {} <=> s = <<>>) /\ <<>> \o s = s /\ s \o <<>> = s
<1>1. Range(<<>>) = {} /\ IsInjective(<<>>)
  BY DEF Range, IsInjective
<1>2. ASSUME NEW c PROVE Append(<<>>, c) = <<c>> /\ Range(<<c>>) = {c} /\ IsInjective(<<c>>)
  <2>1. DOMAIN <<c>> = {1} /\ <<c>>[1] = c
    OBVIOUS
  <2>2. Append(<<>>, c) = <<c>>
    OBVIOUS
  <2> QED BY <2>1, <2>2 DEF Range, IsInjective
<1>3. ASSUME NEW s \in Seq(Collective)
      PROVE  (Range(s) = {} <=> s = <<>>) /\ <<>> \o s = s /\ s \o <<>> = s
  <2>1. s # <<>> => 1 \in DOMAIN s
    BY <1>3
  <2>2. Range(s) = {} <=> s = <<>>
    BY <1>1, <2>1 DEF Range
  <2>3. <<>> \o s = s /\ s \o <<>> = s
    BY <1>3
  <2> QED BY <2>2, <2>3
<1> QED BY <1>1, <1>2, <1>3

LEMMA ConfigFacts ==
    ASSUME TypeOK
    PROVE  /\ config \in Config /\ config.stage \in {1, 2} /\ config.overlap \in BOOLEAN
           /\ config.gather \in BOOLEAN /\ config.clip \in BOOLEAN
           /\ config.accum \in Nat \ {0} /\ config.accum <= MaxAccum
           /\ MaxAccum \in Nat \ {0} /\ Steps \in Nat \ {0}
           /\ config.accum * Steps \in Nat \ {0}
           /\ config.accum * Steps <= MaxAccum * Steps
<1>1. config \in Config
  BY CountsAssumption DEF TypeOK
<1>2. /\ config.stage \in {1, 2} /\ config.overlap \in BOOLEAN
      /\ config.gather \in BOOLEAN /\ config.clip \in BOOLEAN
      /\ config.accum \in 1..MaxAccum
  BY <1>1 DEF Config
<1>3. MaxAccum \in Nat \ {0} /\ Steps \in Nat \ {0}
  BY CountsAssumption
<1>4. PICK a \in Nat \ {0} : a = config.accum /\ a <= MaxAccum
  BY <1>2, <1>3
<1>5. a * Steps \in Nat \ {0} /\ a * Steps <= MaxAccum * Steps
  <2>1. PICK d \in Nat : MaxAccum = a + d
    <3>1. MaxAccum - a \in Nat
      BY <1>3, <1>4
    <3> QED BY <1>3, <3>1
  <2>2. MaxAccum * Steps = a * Steps + d * Steps /\ d * Steps \in Nat
    BY <1>3, <2>1
  <2>3. PICK b \in Nat : a = b + 1
    <3>1. a - 1 \in Nat
      OBVIOUS
    <3> QED BY <3>1
  <2>4. a * Steps = b * Steps + Steps /\ b * Steps \in Nat
    BY <1>3, <2>3
  <2> QED BY <1>3, <2>2, <2>4
<1> QED BY <1>1, <1>2, <1>3, <1>4, <1>5

-----------------------------------------------------------------------------
(* One rank at a time.                                                     *)

(* Nothing of rank s changes.                                              *)
Same(s) ==
    /\ phase'[s] = phase[s] /\ round'[s] = round[s] /\ ready'[s] = ready[s]
    /\ bound'[s] = bound[s] /\ needRebind'[s] = needRebind[s]
    /\ overwrite'[s] = overwrite[s] /\ full'[s] = full[s] /\ shard'[s] = shard[s]
    /\ temp'[s] = temp[s] /\ withGrad'[s] = withGrad[s]
    /\ dispatched'[s] = dispatched[s] /\ works'[s] = works[s]
    /\ gathers'[s] = gathers[s] /\ value'[s] = value[s] /\ comm'[s] = comm[s]

LEMMA RankTypes ==
    ASSUME TypeOK, NEW r \in Ranks
    PROVE  /\ phase[r] \in Phases /\ round[r] \in Rounds \cup {0} /\ round[r] \in Nat
           /\ ready[r] \in SUBSET Params /\ bound[r] \in BOOLEAN /\ needRebind[r] \in BOOLEAN
           /\ overwrite[r] \in SUBSET Params
           /\ full[r] \in [Params -> Value] /\ shard[r] \in [Params -> Value]
           /\ temp[r] \in SUBSET GroupIds /\ withGrad[r] \in SUBSET Params
           /\ dispatched[r] \in SUBSET GroupIds /\ works[r] \in SUBSET GroupIds
           /\ works[r] \subseteq dispatched[r] /\ gathers[r] \in SUBSET GroupIds
           /\ value[r] \in [Params -> 0..Steps]
           /\ comm[r] \in Seq(Collective) /\ Len(comm[r]) \in Nat
           /\ DOMAIN comm[r] = 1..Len(comm[r])
<1>1. comm[r] \in Seq(Collective)
  BY DEF TypeOK
<1>2. Len(comm[r]) \in Nat /\ DOMAIN comm[r] = 1..Len(comm[r])
  BY <1>1
<1>3. round[r] \in Rounds \cup {0} /\ round[r] \in Nat
  BY ConfigFacts DEF TypeOK, Rounds
<1> QED BY <1>1, <1>2, <1>3 DEF TypeOK

LEMMA Frame ==
    ASSUME TypeOK, NEW r \in Ranks, RankStep(r)
    PROVE  /\ config' = config /\ engineOrder' = engineOrder
           /\ \A s \in Ranks \ {r} : Same(s)
<1> USE DEF loopVars, bufVars, syncVars, Same, TypeOK
<1>1. ASSUME NEW setToNone \in BOOLEAN, ZeroGrad(r, setToNone)
      PROVE  config' = config /\ engineOrder' = engineOrder /\ \A s \in Ranks \ {r} : Same(s)
  BY <1>1 DEF ZeroGrad
<1>2. CASE Forward(r)
  BY <1>2 DEF Forward
<1>3. ASSUME NEW p \in Params, AccumulateGrad(r, p)
      PROVE  config' = config /\ engineOrder' = engineOrder /\ \A s \in Ranks \ {r} : Same(s)
  BY <1>3 DEF AccumulateGrad
<1>4. CASE BackwardReturns(r)
  BY <1>4 DEF BackwardReturns
<1>5. CASE ClipFinishesGradSync(r)
  BY <1>5 DEF ClipFinishesGradSync, FinishGradSync
<1>6. CASE ClipReducesNorm(r)
  BY <1>6 DEF ClipReducesNorm
<1>7. CASE ScaleGradients(r)
  BY <1>7 DEF ScaleGradients
<1>8. CASE StepFinishesGradSync(r)
  BY <1>8 DEF StepFinishesGradSync, FinishGradSync
<1>9. CASE Update(r)
  BY <1>9 DEF Update
<1>10. CASE ReduceLoss(r)
  BY <1>10 DEF ReduceLoss
<1>11. CASE TrainingEnds(r)
  BY <1>11 DEF TrainingEnds
<1> QED BY <1>1, <1>2, <1>3, <1>4, <1>5, <1>6, <1>7, <1>8, <1>9, <1>10, <1>11 DEF RankStep

-----------------------------------------------------------------------------
(* What each step does to the rank that takes it.                          *)

LEMMA ZeroGradEffect ==
    ASSUME TypeOK, NEW r \in Ranks, NEW setToNone \in BOOLEAN, ZeroGrad(r, setToNone)
    PROVE  /\ phase[r] = "zero" /\ phase'[r] = "forward" /\ Waited(r, "loss")
           /\ round[r] # config.accum * Steps /\ round'[r] = round[r] + 1
           /\ full'[r] = IF Sharded \/ setToNone THEN full[r] ELSE [p \in Params |-> Zero]
           /\ needRebind'[r] = (IF Sharded THEN needRebind[r] ELSE setToNone)
           /\ bound'[r] = (bound[r] /\ ~setToNone)
           /\ withGrad'[r] = {} /\ works'[r] = {} /\ dispatched'[r] = {}
           /\ gathers'[r] = {} /\ temp'[r] = {}
           /\ ready'[r] = ready[r] /\ overwrite'[r] = overwrite[r] /\ shard'[r] = shard[r]
           /\ value'[r] = value[r] /\ comm'[r] = comm[r]
BY DEF ZeroGrad, TypeOK, IsLastRound, ResetGathers

LEMMA ForwardEffect ==
    ASSUME TypeOK, NEW r \in Ranks, Forward(r)
    PROVE  /\ phase[r] = "forward" /\ phase'[r] = "backward"
           /\ bound'[r] = (bound[r] \/ (needRebind[r] /\ ~Sharded))
           /\ overwrite'[r] = IF needRebind[r] /\ ~Sharded THEN overwrite[r] \cup Params
                              ELSE overwrite[r]
           /\ needRebind'[r] = (needRebind[r] /\ Sharded)
           /\ ready'[r] = {} /\ round'[r] = round[r]
           /\ full'[r] = full[r] /\ shard'[r] = shard[r] /\ temp'[r] = temp[r]
           /\ withGrad'[r] = withGrad[r] /\ dispatched'[r] = dispatched[r]
           /\ works'[r] = works[r] /\ gathers'[r] = gathers[r]
           /\ value'[r] = value[r] /\ comm'[r] = comm[r]
BY DEF Forward, TypeOK, RebindMarks, syncVars

(* The names of AccumulateGrad's definitions, for rank r and parameter p.  *)
Allocated(r, p) == IF Sharded THEN temp[r] \cup {GroupOf(p)} ELSE temp[r]
Cleared(r, p) ==
    [q \in Params |-> IF GroupOf(p) \in Allocated(r, p) \ temp[r] /\ q \in Groups[GroupOf(p)]
                      THEN Zero ELSE full[r][q]]
Total(r, p) == Plus(IF p \in overwrite[r] THEN Zero ELSE Cleared(r, p)[p], round[r])
Marked(r, p) == IF config.overlap THEN withGrad[r] \cup {p} ELSE withGrad[r]
Starts(r, p) ==
    IF config.overlap /\ Groups[GroupOf(p)] \subseteq Marked(r, p) THEN {GroupOf(p)} ELSE {}
Launches(r, p) == Launching(r, Starts(r, p), Allocated(r, p))

LEMMA AccumulateGradEffect ==
    ASSUME TypeOK, NEW r \in Ranks, NEW p \in Params, AccumulateGrad(r, p)
    PROVE  /\ phase[r] = "backward" /\ phase'[r] = "backward" /\ p \notin ready[r]
           /\ p = engineOrder[Cardinality(ready[r]) + 1]
           /\ ready'[r] = ready[r] \cup {p} /\ overwrite'[r] = overwrite[r] \ {p}
           /\ temp'[r] = Allocated(r, p)
           /\ full'[r] = IF Sharded \/ bound[r]
                         THEN [Cleared(r, p) EXCEPT ![p] = Total(r, p)] ELSE full[r]
           /\ withGrad'[r] = WithGradAfter(r, Starts(r, p), Marked(r, p))
           /\ dispatched'[r] = dispatched[r] \cup Starts(r, p)
           /\ works'[r] = works[r] \cup Launches(r, p)
           /\ comm'[r] = comm[r] \o InGroupOrder(Reduce, Launches(r, p))
           /\ round'[r] = round[r] /\ bound'[r] = bound[r] /\ needRebind'[r] = needRebind[r]
           /\ shard'[r] = shard[r] /\ gathers'[r] = gathers[r] /\ value'[r] = value[r]
BY DEF AccumulateGrad, TypeOK, GroupReady, Allocated, Cleared, Total, Marked, Starts, Launches

LEMMA BackwardReturnsEffect ==
    ASSUME TypeOK, NEW r \in Ranks, BackwardReturns(r)
    PROVE  /\ phase[r] = "backward" /\ ready[r] = Params
           /\ phase'[r] = IF round[r] % config.accum # 0 THEN "forward"
                          ELSE IF config.clip THEN "clip" ELSE "step"
           /\ round'[r] = IF round[r] % config.accum # 0 THEN round[r] + 1 ELSE round[r]
           /\ ready'[r] = ready[r] /\ bound'[r] = bound[r] /\ needRebind'[r] = needRebind[r]
           /\ overwrite'[r] = overwrite[r] /\ full'[r] = full[r] /\ shard'[r] = shard[r]
           /\ temp'[r] = temp[r] /\ withGrad'[r] = withGrad[r]
           /\ dispatched'[r] = dispatched[r] /\ works'[r] = works[r]
           /\ gathers'[r] = gathers[r] /\ value'[r] = value[r] /\ comm'[r] = comm[r]
BY DEF BackwardReturns, TypeOK, bufVars, syncVars

(* FinishGradSync, from phase "clip" or "step".                            *)
LastLaunches(r) == Launching(r, GroupIds, temp[r])

LEMMA FinishEffect ==
    ASSUME TypeOK, NEW r \in Ranks, ClipFinishesGradSync(r) \/ StepFinishesGradSync(r)
    PROVE  /\ \/ phase[r] = "clip" /\ phase'[r] = "norm"
              \/ phase[r] = "step" /\ phase'[r] = "update"
           /\ comm'[r] = comm[r] \o InGroupOrder(Reduce, LastLaunches(r))
           /\ withGrad'[r] = WithGradAfter(r, GroupIds, withGrad[r])
           /\ temp'[r] = TempAfter(temp[r], works[r] \cup LastLaunches(r))
           /\ dispatched'[r] = {} /\ works'[r] = {}
           /\ round'[r] = round[r] /\ ready'[r] = ready[r] /\ bound'[r] = bound[r]
           /\ needRebind'[r] = needRebind[r] /\ overwrite'[r] = overwrite[r]
           /\ full'[r] = full[r] /\ shard'[r] = shard[r]
           /\ gathers'[r] = gathers[r] /\ value'[r] = value[r]
BY DEF ClipFinishesGradSync, StepFinishesGradSync, FinishGradSync, TypeOK, bufVars, LastLaunches

LEMMA ClipReducesNormEffect ==
    ASSUME TypeOK, NEW r \in Ranks, ClipReducesNorm(r)
    PROVE  /\ phase[r] = "norm" /\ phase'[r] = "scale" /\ Waited(r, "reduce")
           /\ comm'[r] = Append(comm[r], Norm)
           /\ round'[r] = round[r] /\ ready'[r] = ready[r] /\ bound'[r] = bound[r]
           /\ needRebind'[r] = needRebind[r] /\ overwrite'[r] = overwrite[r]
           /\ full'[r] = full[r] /\ shard'[r] = shard[r]
           /\ temp'[r] = temp[r] /\ withGrad'[r] = withGrad[r]
           /\ dispatched'[r] = dispatched[r] /\ works'[r] = works[r]
           /\ gathers'[r] = gathers[r] /\ value'[r] = value[r]
BY DEF ClipReducesNorm, TypeOK, bufVars, syncVars

Scaled(r, old) == [p \in Params |-> IF p \in OwnedBy(r) THEN Clipped(old[p]) ELSE old[p]]

LEMMA ScaleGradientsEffect ==
    ASSUME TypeOK, NEW r \in Ranks, ScaleGradients(r)
    PROVE  /\ phase[r] = "scale" /\ phase'[r] = "step" /\ Waited(r, "norm")
           /\ shard'[r] = IF Sharded THEN Scaled(r, shard[r]) ELSE shard[r]
           /\ full'[r] = IF Sharded THEN full[r] ELSE Scaled(r, full[r])
           /\ comm'[r] = comm[r] /\ round'[r] = round[r] /\ ready'[r] = ready[r]
           /\ bound'[r] = bound[r] /\ needRebind'[r] = needRebind[r]
           /\ overwrite'[r] = overwrite[r]
           /\ temp'[r] = temp[r] /\ withGrad'[r] = withGrad[r]
           /\ dispatched'[r] = dispatched[r] /\ works'[r] = works[r]
           /\ gathers'[r] = gathers[r] /\ value'[r] = value[r]
BY ZenonT(30) DEF ScaleGradients, TypeOK, syncVars, Scaled

LEMMA UpdateEffect ==
    ASSUME TypeOK, NEW r \in Ranks, Update(r)
    PROVE  /\ phase[r] = "update" /\ phase'[r] = "gathered" /\ Waited(r, "reduce")
           /\ value'[r] = [p \in Params |-> IF p \in OwnedBy(r) THEN value[r][p] + 1
                                            ELSE value[r][p]]
           /\ comm'[r] = comm[r] \o InGroupOrder(Gather, GroupIds)
           /\ gathers'[r] = IF config.gather THEN {} ELSE GroupIds
           /\ round'[r] = round[r] /\ ready'[r] = ready[r] /\ bound'[r] = bound[r]
           /\ needRebind'[r] = needRebind[r] /\ overwrite'[r] = overwrite[r]
           /\ full'[r] = full[r] /\ shard'[r] = shard[r]
           /\ temp'[r] = temp[r] /\ withGrad'[r] = withGrad[r]
           /\ dispatched'[r] = dispatched[r] /\ works'[r] = works[r]
BY DEF Update, TypeOK, bufVars, syncVars, GatherGroups

LEMMA LastEffect ==
    ASSUME TypeOK, NEW r \in Ranks, ReduceLoss(r) \/ TrainingEnds(r)
    PROVE  /\ \/ /\ phase[r] = "gathered" /\ phase'[r] = "zero" /\ Waited(r, "gather")
                 /\ comm'[r] = Append(comm[r], Loss)
              \/ /\ phase[r] = "zero" /\ phase'[r] = "done" /\ Waited(r, "loss")
                 /\ round[r] = config.accum * Steps /\ comm'[r] = comm[r]
           /\ round'[r] = round[r] /\ ready'[r] = ready[r] /\ bound'[r] = bound[r]
           /\ needRebind'[r] = needRebind[r] /\ overwrite'[r] = overwrite[r]
           /\ full'[r] = full[r] /\ shard'[r] = shard[r]
           /\ temp'[r] = temp[r] /\ withGrad'[r] = withGrad[r]
           /\ dispatched'[r] = dispatched[r] /\ works'[r] = works[r]
           /\ gathers'[r] = gathers[r] /\ value'[r] = value[r]
BY DEF ReduceLoss, TrainingEnds, IsLastRound, TypeOK, bufVars, syncVars

-----------------------------------------------------------------------------
(* The loop.                                                               *)

LEMMA LaunchFacts ==
    ASSUME TypeOK, NEW r \in Ranks, NEW gs \in SUBSET GroupIds, NEW allocated
    PROVE  /\ Launching(r, gs, allocated) \subseteq gs \ dispatched[r]
           /\ Launching(r, gs, allocated) \in SUBSET GroupIds
BY DEF Launching, Starting

(* What a rank issues in a step; it comes after what is outstanding.       *)
LEMMA IssueKeepsDistinct ==
    ASSUME NEW s \in Seq(Collective), IsInjective(s), NEW gs \in SUBSET GroupIds,
           \A g \in gs : Reduce(g) \notin Range(s)
    PROVE  LET t == s \o InGroupOrder(Reduce, gs)
           IN  /\ t \in Seq(Collective) /\ IsInjective(t)
               /\ Range(t) = Range(s) \cup {Reduce(g) : g \in gs}
<1> DEFINE u == InGroupOrder(Reduce, gs)
<1>1. u \in Seq(Collective) /\ Range(u) = {Reduce(g) : g \in gs} /\ IsInjective(u)
  BY IssueFacts DEF OnePerGroup, Reduce
<1> HIDE DEF u
<1>2. Range(s) \cap Range(u) = {}
  BY <1>1
<1>3. s \o u \in Seq(Collective) /\ Range(s \o u) = Range(s) \cup Range(u) /\ IsInjective(s \o u)
  BY <1>1, <1>2, Concatenation
<1> QED BY <1>1, <1>3 DEF u

LEMMA WaitedForAll ==
    ASSUME TypeOK, NEW r \in Ranks, LoopInv(r), Waited(r, Kind(phase[r]))
    PROVE  comm[r] = <<>>
<1>1. Outstanding(r) = {}
  BY DEF LoopInv, Waited, Outstanding, Range
<1> QED BY <1>1, RankTypes, Emptiness DEF Outstanding

LEMMA Kinds ==
    /\ Kind("forward") = "reduce" /\ Kind("backward") = "reduce" /\ Kind("clip") = "reduce"
    /\ Kind("norm") = "reduce" /\ Kind("step") = "reduce" /\ Kind("update") = "reduce"
    /\ Kind("scale") = "norm" /\ Kind("gathered") = "gather"
    /\ Kind("zero") = "loss" /\ Kind("done") = "loss"
BY DEF Kind

LEMMA LoopIndependent ==
    ASSUME config' = config, NEW s \in Ranks, Same(s), LoopInv(s) PROVE LoopInv(s)'
BY DEF Same, LoopInv, Outstanding

(* Every step of a rank keeps its place in the loop.                      *)
LEMMA RankLoop ==
    ASSUME TypeOK, NEW r \in Ranks, LoopInv(r), RankStep(r)
    PROVE  LoopInv(r)' /\ comm'[r] \in Seq(Collective)
<1>0. config' = config
  BY Frame
<1>1. /\ config.accum \in Nat \ {0} /\ config.accum * Steps \in Nat \ {0} /\ Steps \in Nat \ {0}
      /\ round[r] \in Nat /\ comm[r] \in Seq(Collective)
      /\ dispatched[r] \in SUBSET GroupIds /\ phase[r] \in Phases
  BY ConfigFacts, RankTypes
<1>2. IsInjective(<<>>) /\ Range(<<>>) = {}
  BY Emptiness
<1>3. ASSUME NEW setToNone \in BOOLEAN, ZeroGrad(r, setToNone)
      PROVE  LoopInv(r)' /\ comm'[r] \in Seq(Collective)
  <2>1. /\ phase[r] = "zero" /\ phase'[r] = "forward" /\ Waited(r, "loss")
        /\ round[r] # config.accum * Steps /\ round'[r] = round[r] + 1
        /\ gathers'[r] = {} /\ comm'[r] = comm[r]
    BY <1>3, ZeroGradEffect
  <2>2. comm[r] = <<>>
    BY <2>1, WaitedForAll, Kinds
  <2>3. round'[r] <= config.accum * Steps /\ round'[r] # 0
    BY <1>1, <2>1 DEF LoopInv
  <2> QED BY <1>0, <1>1, <1>2, <2>1, <2>2, <2>3 DEF LoopInv, Outstanding
<1>4. CASE Forward(r)
  <2>1. /\ phase[r] = "forward" /\ phase'[r] = "backward" /\ round'[r] = round[r]
        /\ dispatched'[r] = dispatched[r] /\ gathers'[r] = gathers[r] /\ comm'[r] = comm[r]
    BY <1>4, ForwardEffect
  <2> QED BY <1>0, <1>1, <2>1, Kinds DEF LoopInv, Outstanding
<1>5. ASSUME NEW p \in Params, AccumulateGrad(r, p)
      PROVE  LoopInv(r)' /\ comm'[r] \in Seq(Collective)
  <2>1. /\ phase[r] = "backward" /\ phase'[r] = "backward"
        /\ dispatched'[r] = dispatched[r] \cup Starts(r, p)
        /\ comm'[r] = comm[r] \o InGroupOrder(Reduce, Launches(r, p))
        /\ round'[r] = round[r] /\ gathers'[r] = gathers[r]
    BY <1>5, AccumulateGradEffect
  <2>2. Starts(r, p) \in SUBSET GroupIds
    BY GroupFacts DEF Starts
  <2>3. Launches(r, p) \subseteq Starts(r, p) \ dispatched[r] /\ Launches(r, p) \in SUBSET GroupIds
    BY <2>2, LaunchFacts DEF Launches
  <2>4. \A g \in Launches(r, p) : Reduce(g) \notin Range(comm[r])
    BY <2>1, <2>3 DEF LoopInv, Outstanding
  <2>5. /\ comm'[r] \in Seq(Collective) /\ IsInjective(comm'[r])
        /\ Range(comm'[r]) = Range(comm[r]) \cup {Reduce(g) : g \in Launches(r, p)}
    BY <1>1, <2>1, <2>3, <2>4, IssueKeepsDistinct DEF LoopInv
  <2>6. \A c \in Range(comm'[r]) : c.op = "reduce"
    <3>1. \A g : Reduce(g).op = "reduce"
      BY DEF Reduce
    <3>2. \A c \in Range(comm[r]) : c.op = "reduce"
      BY <2>1, Kinds DEF LoopInv, Outstanding
    <3> QED BY <2>5, <3>1, <3>2
  <2>7. \A g \in GroupIds : Reduce(g) \in Range(comm'[r]) => g \in dispatched'[r]
    BY <2>1, <2>3, <2>5 DEF LoopInv, Outstanding, Reduce
  <2> QED BY <1>0, <1>1, <2>1, <2>5, <2>6, <2>7, Kinds DEF LoopInv, Outstanding
<1>6. CASE BackwardReturns(r)
  <2>1. /\ phase[r] = "backward"
        /\ phase'[r] = IF round[r] % config.accum # 0 THEN "forward"
                       ELSE IF config.clip THEN "clip" ELSE "step"
        /\ round'[r] = IF round[r] % config.accum # 0 THEN round[r] + 1 ELSE round[r]
        /\ dispatched'[r] = dispatched[r] /\ gathers'[r] = gathers[r] /\ comm'[r] = comm[r]
    BY <1>6, BackwardReturnsEffect
  <2>2. round'[r] <= config.accum * Steps /\ round'[r] # 0
    <3>1. round[r] <= config.accum * Steps /\ round[r] # 0
      BY <2>1 DEF LoopInv
    <3>2. round[r] % config.accum # 0 => round[r] + 1 <= config.accum * Steps
      BY <1>1, <3>1, LastRounds
    <3> QED BY <1>1, <2>1, <3>1, <3>2
  <2>3. CASE round[r] % config.accum # 0
    BY <1>0, <1>1, <2>1, <2>2, <2>3, Kinds DEF LoopInv, Outstanding
  <2>4. CASE round[r] % config.accum = 0
    BY <1>0, <1>1, <2>1, <2>2, <2>4, Kinds DEF LoopInv, Outstanding
  <2> QED BY <2>3, <2>4
<1>7. CASE ClipFinishesGradSync(r) \/ StepFinishesGradSync(r)
  <2>1. /\ \/ phase[r] = "clip" /\ phase'[r] = "norm"
           \/ phase[r] = "step" /\ phase'[r] = "update"
        /\ comm'[r] = comm[r] \o InGroupOrder(Reduce, LastLaunches(r))
        /\ round'[r] = round[r] /\ gathers'[r] = gathers[r]
    BY <1>7, FinishEffect
  <2>3. LastLaunches(r) \subseteq GroupIds \ dispatched[r] /\ LastLaunches(r) \in SUBSET GroupIds
    BY LaunchFacts DEF LastLaunches
  <2>4. \A g \in LastLaunches(r) : Reduce(g) \notin Range(comm[r])
    BY <2>1, <2>3 DEF LoopInv, Outstanding
  <2>5. /\ comm'[r] \in Seq(Collective) /\ IsInjective(comm'[r])
        /\ Range(comm'[r]) = Range(comm[r]) \cup {Reduce(g) : g \in LastLaunches(r)}
    BY <1>1, <2>1, <2>3, <2>4, IssueKeepsDistinct DEF LoopInv
  <2>6. \A c \in Range(comm'[r]) : c.op = "reduce"
    <3>1. \A g : Reduce(g).op = "reduce"
      BY DEF Reduce
    <3>2. \A c \in Range(comm[r]) : c.op = "reduce"
      BY <2>1, Kinds DEF LoopInv, Outstanding
    <3> QED BY <2>5, <3>1, <3>2
  <2> QED BY <1>0, <1>1, <2>1, <2>5, <2>6, Kinds DEF LoopInv, Outstanding
<1>8. CASE ClipReducesNorm(r)
  <2>1. /\ phase[r] = "norm" /\ phase'[r] = "scale" /\ Waited(r, "reduce")
        /\ comm'[r] = Append(comm[r], Norm)
        /\ round'[r] = round[r] /\ gathers'[r] = gathers[r]
    BY <1>8, ClipReducesNormEffect
  <2>2. comm[r] = <<>>
    BY <2>1, WaitedForAll, Kinds
  <2>3. comm'[r] = <<Norm>> /\ Range(comm'[r]) = {Norm} /\ IsInjective(comm'[r])
    BY <2>1, <2>2, Emptiness
  <2>4. Norm \in Collective /\ Norm.op = "norm"
    BY DEF Norm, Collective
  <2>5. comm'[r] \in Seq(Collective)
    BY <2>3, <2>4
  <2> QED BY <1>0, <1>1, <2>1, <2>3, <2>4, <2>5, Kinds DEF LoopInv, Outstanding
<1>9. CASE ScaleGradients(r)
  <2>1. /\ phase[r] = "scale" /\ phase'[r] = "step" /\ Waited(r, "norm")
        /\ comm'[r] = comm[r] /\ round'[r] = round[r] /\ gathers'[r] = gathers[r]
    BY <1>9, ScaleGradientsEffect
  <2>2. comm[r] = <<>>
    BY <2>1, WaitedForAll, Kinds
  <2> QED BY <1>0, <1>1, <1>2, <2>1, <2>2, Kinds DEF LoopInv, Outstanding
<1>10. CASE Update(r)
  <2>1. /\ phase[r] = "update" /\ phase'[r] = "gathered" /\ Waited(r, "reduce")
        /\ comm'[r] = comm[r] \o InGroupOrder(Gather, GroupIds) /\ round'[r] = round[r]
    BY <1>10, UpdateEffect
  <2>2. comm[r] = <<>>
    BY <2>1, WaitedForAll, Kinds
  <2>3. OnePerGroup(InGroupOrder(Gather, GroupIds), "gather", GroupIds)
    BY IssueFacts
  <2>4. comm'[r] = InGroupOrder(Gather, GroupIds)
    BY <2>1, <2>2, <2>3, Emptiness DEF OnePerGroup
  <2>5. \A c \in Range(comm'[r]) : c.op = "gather"
    BY <2>3, <2>4 DEF OnePerGroup
  <2> QED BY <1>0, <1>1, <2>1, <2>3, <2>4, <2>5, Kinds DEF LoopInv, Outstanding, OnePerGroup
<1>11. CASE ReduceLoss(r) \/ TrainingEnds(r)
  <2>1. /\ \/ /\ phase[r] = "gathered" /\ phase'[r] = "zero" /\ Waited(r, "gather")
              /\ comm'[r] = Append(comm[r], Loss)
           \/ /\ phase[r] = "zero" /\ phase'[r] = "done" /\ Waited(r, "loss")
              /\ comm'[r] = comm[r]
        /\ round'[r] = round[r]
    BY <1>11, LastEffect
  <2>2. comm[r] = <<>>
    BY <2>1, WaitedForAll, Kinds
  <2>3. comm'[r] \in {<<>>, <<Loss>>}
    BY <2>1, <2>2, Emptiness
  <2>4. Loss \in Collective /\ Loss.op = "loss"
    BY DEF Loss, Collective
  <2>5. /\ comm'[r] \in Seq(Collective) /\ IsInjective(comm'[r])
        /\ \A c \in Range(comm'[r]) : c.op = "loss"
    <3>1. CASE comm'[r] = <<>>
      BY <1>2, <3>1
    <3>2. CASE comm'[r] = <<Loss>>
      <4>1. Range(<<Loss>>) = {Loss} /\ IsInjective(<<Loss>>) /\ <<Loss>> \in Seq(Collective)
        BY <2>4, Emptiness
      <4> QED BY <2>4, <3>2, <4>1
    <3> QED BY <2>3, <3>1, <3>2
  <2> QED BY <1>0, <1>1, <2>1, <2>5, Kinds DEF LoopInv, Outstanding
<1> QED BY <1>3, <1>4, <1>5, <1>6, <1>7, <1>8, <1>9, <1>10, <1>11 DEF RankStep

LEMMA TailFacts ==
    ASSUME NEW s \in Seq(Collective), s # <<>>
    PROVE  /\ Tail(s) \in Seq(Collective) /\ Head(s) \in Range(s) /\ Head(s) = s[1]
           /\ Len(s) \in Nat \ {0} /\ DOMAIN s = 1..Len(s)
           /\ Len(Tail(s)) = Len(s) - 1 /\ DOMAIN Tail(s) = 1..(Len(s) - 1)
           /\ \A k \in 1..(Len(s) - 1) : Tail(s)[k] = s[k + 1]
           /\ IsInjective(s) => /\ IsInjective(Tail(s))
                                /\ Range(Tail(s)) = Range(s) \ {Head(s)}
<1> DEFINE t == Tail(s)
           n == Len(s)
<1>1. /\ n \in Nat \ {0} /\ DOMAIN s = 1..n /\ Head(s) = s[1]
      /\ t \in Seq(Collective) /\ Len(t) = n - 1 /\ DOMAIN t = 1..(n - 1)
      /\ \A k \in 1..(n - 1) : t[k] = s[k + 1]
  OBVIOUS
<1> HIDE DEF t, n
<1>2. Head(s) \in Range(s)
  BY <1>1 DEF Range
<1>3. ASSUME IsInjective(s) PROVE IsInjective(t) /\ Range(t) = Range(s) \ {Head(s)}
  <2>1. \A k \in 1..(n - 1) : k + 1 \in 1..n /\ t[k] = s[k + 1]
    BY <1>1
  <2>2. \A k, l \in 1..n : s[k] = s[l] => k = l
    BY <1>1, <1>3 DEF IsInjective
  <2>3. IsInjective(t)
    <3>1. \A k, l \in 1..(n - 1) : t[k] = t[l] => k + 1 = l + 1
      BY <2>1, <2>2
    <3>2. \A k, l \in 1..(n - 1) : k + 1 = l + 1 => k = l
      BY <1>1
    <3> QED BY <1>1, <3>1, <3>2 DEF IsInjective
  <2>4. ASSUME NEW x \in Range(t) PROVE x \in Range(s) \ {Head(s)}
    <3>1. PICK k \in 1..(n - 1) : x = t[k]
      BY <1>1 DEF Range
    <3>2. k + 1 \in 1..n /\ x = s[k + 1] /\ k + 1 # 1 /\ 1 \in 1..n
      BY <1>1, <2>1, <3>1
    <3> QED BY <1>1, <2>2, <3>2 DEF Range
  <2>5. ASSUME NEW x \in Range(s) \ {Head(s)} PROVE x \in Range(t)
    <3>1. PICK k \in 1..n : x = s[k]
      BY <1>1 DEF Range
    <3>2. k # 1
      BY <1>1, <2>5, <3>1
    <3>3. k - 1 \in 1..(n - 1) /\ (k - 1) + 1 = k
      BY <1>1, <3>2
    <3>4. x = t[k - 1]
      BY <2>1, <3>1, <3>3
    <3> QED BY <1>1, <3>3, <3>4 DEF Range
  <2> QED BY <2>3, <2>4, <2>5
<1> QED BY <1>1, <1>2, <1>3 DEF t, n

(* The collective c, at the head everywhere, completes.                    *)
Completes(c) ==
    /\ \A r \in Ranks : comm[r] # <<>> /\ Head(comm[r]) = c /\ comm'[r] = Tail(comm[r])
    /\ value' = IF c.op = "gather" THEN Gathered(c.group) ELSE value
    /\ full'  = IF c.op = "reduce" /\ ~Sharded THEN Scattered(full, c.group) ELSE full
    /\ shard' = IF c.op = "reduce" /\ Sharded THEN Scattered(shard, c.group) ELSE shard
    /\ config' = config /\ engineOrder' = engineOrder
    /\ phase' = phase /\ round' = round /\ ready' = ready /\ bound' = bound
    /\ needRebind' = needRebind /\ overwrite' = overwrite /\ temp' = temp
    /\ withGrad' = withGrad /\ dispatched' = dispatched /\ works' = works
    /\ gathers' = gathers

LEMMA CompletesEffect ==
    ASSUME TypeOK, CollectiveCompletes
    PROVE  \E c \in Collective : Completes(c)
<1> DEFINE q == CHOOSE r \in Ranks : TRUE
           c == Head(comm[q])
<1>1. q \in Ranks
  BY CountsAssumption
<1>2. \A r \in Ranks : comm[r] # <<>> /\ Head(comm[r]) = c
  BY <1>1 DEF CollectiveCompletes
<1>3. c \in Collective
  <2>1. comm[q] \in Seq(Collective) /\ comm[q] # <<>>
    BY <1>1, <1>2, RankTypes
  <2> HIDE DEF q
  <2>2. \A s \in Seq(Collective) : s # <<>> => Head(s) \in Collective
    OBVIOUS
  <2> QED BY <2>1, <2>2
<1>4. Completes(c)
  BY <1>2 DEF CollectiveCompletes, Completes, loopVars, syncVars
<1> QED BY <1>3, <1>4

Loops == \A r \in Ranks : LoopInv(r)

LEMMA InitLoop == Init => Loops
<1> SUFFICES ASSUME Init, NEW r \in Ranks PROVE LoopInv(r)
  BY DEF Loops
<1>1. config.accum \in Nat \ {0}
  BY CountsAssumption DEF Init, Config
<1>2. config.accum * Steps \in Nat /\ 0 % config.accum = 0
  BY <1>1, CountsAssumption
<1> QED BY <1>2, Emptiness DEF Init, LoopInv, Outstanding

LEMMA NextLoop == TypeOK /\ Loops /\ [Next]_vars => Loops'
<1> SUFFICES ASSUME TypeOK, Loops, [Next]_vars PROVE Loops'
  OBVIOUS
<1>1. ASSUME NEW r \in Ranks, RankStep(r) PROVE Loops'
  <2>1. config' = config /\ \A s \in Ranks \ {r} : Same(s)
    BY <1>1, Frame
  <2> QED BY <1>1, <2>1, RankLoop, LoopIndependent DEF Loops
<1>2. CASE CollectiveCompletes
  <2>1. PICK c : Completes(c)
    BY <1>2, CompletesEffect
  <2>2. ASSUME NEW r \in Ranks PROVE LoopInv(r)'
    <3>1. comm[r] \in Seq(Collective) /\ comm[r] # <<>> /\ comm'[r] = Tail(comm[r])
      BY <2>1, RankTypes DEF Completes
    <3>2. LoopInv(r)
      BY DEF Loops
    <3>3. IsInjective(comm'[r]) /\ Range(comm'[r]) = Range(comm[r]) \ {Head(comm[r])}
      BY <3>1, <3>2, TailFacts DEF LoopInv
    <3>4. /\ \A x \in Range(comm'[r]) : x.op = Kind(phase[r])
          /\ phase[r] \in {"forward", "backward", "clip", "step"} =>
                \A g \in GroupIds : Reduce(g) \in Range(comm'[r]) => g \in dispatched[r]
          /\ ~(phase[r] = "step" /\ config.clip)
      BY <3>1, <3>2, <3>3 DEF LoopInv, Outstanding
    <3> QED BY <2>1, <3>2, <3>3, <3>4 DEF LoopInv, Outstanding, Completes
  <2> QED BY <2>2 DEF Loops
<1>3. CASE UNCHANGED vars
  BY <1>3, LoopIndependent DEF Loops, vars, loopVars, bufVars, syncVars, Same
<1> QED BY <1>1, <1>2, <1>3 DEF Next, Terminated

-----------------------------------------------------------------------------
(* One history.                                                            *)

LEMMA HostFields ==
    ASSUME NEW r \in Ranks
    PROVE  /\ Host(r).phase = phase[r] /\ Host(r).round = round[r] /\ Host(r).ready = ready[r]
           /\ Host(r).temp = temp[r] /\ Host(r).withGrad = withGrad[r]
           /\ Host(r).dispatched = dispatched[r] /\ Host(r).works = works[r]
           /\ Setting.config = config /\ Setting.order = engineOrder
BY DEF Host, State, Setting

(* The operators of a host state are those of the rank.                    *)
LEMMA HostOperators ==
    ASSUME NEW r \in Ranks
    PROVE  /\ \A gs, allocated :
                LaunchingAt(Setting, Host(r), gs, allocated) = Launching(r, gs, allocated)
           /\ \A gs, marked : MarkedAfter(Host(r), gs, marked) = WithGradAfter(r, gs, marked)
           /\ \A p : p = NextParam(Setting, Host(r)) =>
                /\ NextTemp(Setting, Host(r)) = Allocated(r, p)
                /\ NextMarked(Setting, Host(r)) = Marked(r, p)
                /\ NextStarts(Setting, Host(r)) = Starts(r, p)
<1>1. \A gs, allocated :
         LaunchingAt(Setting, Host(r), gs, allocated) = Launching(r, gs, allocated)
  BY HostFields DEF LaunchingAt, Launching, Starting, Sharded
<1>2. \A gs, marked : MarkedAfter(Host(r), gs, marked) = WithGradAfter(r, gs, marked)
  BY HostFields DEF MarkedAfter, WithGradAfter, Starting
<1>3. ASSUME NEW p, p = NextParam(Setting, Host(r))
      PROVE  /\ NextTemp(Setting, Host(r)) = Allocated(r, p)
             /\ NextMarked(Setting, Host(r)) = Marked(r, p)
             /\ NextStarts(Setting, Host(r)) = Starts(r, p)
  <2>1. NextTemp(Setting, Host(r)) = Allocated(r, p)
    BY <1>3, HostFields DEF NextTemp, Allocated, Sharded
  <2>2. NextMarked(Setting, Host(r)) = Marked(r, p)
    BY <1>3, HostFields DEF NextMarked, Marked
  <2>3. NextStarts(Setting, Host(r)) = Starts(r, p)
    BY <1>3, <2>2, HostFields DEF NextStarts, Starts
  <2> QED BY <2>1, <2>2, <2>3
<1> QED BY <1>1, <1>2, <1>3

(* A step of rank r, whose host state is h: the next host state, what is   *)
(* issued, and that nothing is outstanding when an optimizer step begins.  *)
HostMoves(r, h) ==
    /\ Host(r)' = Succ(Setting, h)
    /\ Emits(Setting, h) \in Seq(Collective)
    /\ comm'[r] = comm[r] \o Emits(Setting, h)
    /\ \/ StepAt(round[r])' = StepAt(round[r])
       \/ comm[r] = <<>> /\ Emits(Setting, h) = <<>>

LEMMA HostNext ==
    ASSUME TypeOK, NEW r \in Ranks, LoopInv(r), RankStep(r)
    PROVE  HostMoves(r, Host(r))
<1>0. config' = config
  BY Frame
<1>1. /\ Setting.config = config /\ Setting.order = engineOrder
      /\ Host(r).phase = phase[r] /\ Host(r).round = round[r] /\ Host(r).ready = ready[r]
      /\ Host(r).temp = temp[r] /\ Host(r).withGrad = withGrad[r]
      /\ Host(r).dispatched = dispatched[r] /\ Host(r).works = works[r]
  BY HostFields
<1>2. comm[r] \in Seq(Collective) /\ <<>> \in Seq(Collective) /\ comm[r] \o <<>> = comm[r]
  BY RankTypes, Emptiness
<1>3. Host(r)' = State(phase'[r], round'[r], ready'[r], temp'[r], withGrad'[r],
                       dispatched'[r], works'[r])
  BY DEF Host
<1>4. round'[r] = round[r] => StepAt(round[r])' = StepAt(round[r])
  BY <1>0 DEF StepAt
<1>5. ASSUME NEW setToNone \in BOOLEAN, ZeroGrad(r, setToNone)
      PROVE  HostMoves(r, Host(r))
  <2>1. /\ phase[r] = "zero" /\ phase'[r] = "forward" /\ Waited(r, "loss")
        /\ round[r] # config.accum * Steps /\ round'[r] = round[r] + 1
        /\ withGrad'[r] = {} /\ works'[r] = {} /\ dispatched'[r] = {} /\ temp'[r] = {}
        /\ ready'[r] = ready[r] /\ comm'[r] = comm[r]
    BY <1>5, ZeroGradEffect
  <2>2. comm[r] = <<>>
    BY <2>1, WaitedForAll, Kinds
  <2>3. Emits(Setting, Host(r)) = <<>>
    BY <1>1, <2>1 DEF Emits
  <2>4. Succ(Setting, Host(r)) = State("forward", round[r] + 1, ready[r], {}, {}, {}, {})
    BY <1>1, <2>1 DEF Succ
  <2> QED BY <1>2, <1>3, <2>1, <2>2, <2>3, <2>4 DEF HostMoves
<1>6. CASE Forward(r)
  <2>1. /\ phase[r] = "forward" /\ phase'[r] = "backward" /\ ready'[r] = {}
        /\ round'[r] = round[r] /\ temp'[r] = temp[r] /\ withGrad'[r] = withGrad[r]
        /\ dispatched'[r] = dispatched[r] /\ works'[r] = works[r] /\ comm'[r] = comm[r]
    BY <1>6, ForwardEffect
  <2>2. Emits(Setting, Host(r)) = <<>>
    BY <1>1, <2>1 DEF Emits
  <2>3. Succ(Setting, Host(r)) =
          State("backward", round[r], {}, temp[r], withGrad[r], dispatched[r], works[r])
    BY <1>1, <2>1 DEF Succ
  <2> QED BY <1>2, <1>3, <1>4, <2>1, <2>2, <2>3 DEF HostMoves
<1>7. ASSUME NEW p \in Params, AccumulateGrad(r, p)
      PROVE  HostMoves(r, Host(r))
  <2>1. /\ phase[r] = "backward" /\ phase'[r] = "backward" /\ p \notin ready[r]
        /\ p = engineOrder[Cardinality(ready[r]) + 1] /\ ready'[r] = ready[r] \cup {p}
        /\ temp'[r] = Allocated(r, p)
        /\ withGrad'[r] = WithGradAfter(r, Starts(r, p), Marked(r, p))
        /\ dispatched'[r] = dispatched[r] \cup Starts(r, p)
        /\ works'[r] = works[r] \cup Launches(r, p)
        /\ comm'[r] = comm[r] \o InGroupOrder(Reduce, Launches(r, p)) /\ round'[r] = round[r]
    BY <1>7, AccumulateGradEffect
  <2>2. p = NextParam(Setting, Host(r)) /\ ready[r] # Params
    BY <1>1, <2>1 DEF NextParam
  <2>3. /\ NextTemp(Setting, Host(r)) = Allocated(r, p)
        /\ NextMarked(Setting, Host(r)) = Marked(r, p)
        /\ NextStarts(Setting, Host(r)) = Starts(r, p)
    BY <2>2, HostOperators
  <2>4. LaunchingAt(Setting, Host(r), Starts(r, p), Allocated(r, p)) = Launches(r, p)
    BY HostOperators DEF Launches
  <2>5. MarkedAfter(Host(r), Starts(r, p), Marked(r, p))
          = WithGradAfter(r, Starts(r, p), Marked(r, p))
    BY HostOperators
  <2>6. Emits(Setting, Host(r)) = InGroupOrder(Reduce, Launches(r, p))
    BY <1>1, <2>1, <2>2, <2>3, <2>4 DEF Emits
  <2>7. Succ(Setting, Host(r)) =
          State("backward", round[r], ready[r] \cup {p}, Allocated(r, p),
                WithGradAfter(r, Starts(r, p), Marked(r, p)),
                dispatched[r] \cup Starts(r, p), works[r] \cup Launches(r, p))
    BY <1>1, <2>1, <2>2, <2>3, <2>4, <2>5 DEF Succ
  <2>8. InGroupOrder(Reduce, Launches(r, p)) \in Seq(Collective)
    <3>1. Starts(r, p) \in SUBSET GroupIds
      BY GroupFacts DEF Starts
    <3>2. Launches(r, p) \in SUBSET GroupIds
      BY <3>1, LaunchFacts DEF Launches
    <3> QED BY <3>2, IssueFacts DEF OnePerGroup
  <2> QED BY <1>3, <1>4, <2>1, <2>6, <2>7, <2>8 DEF HostMoves
<1>8. CASE BackwardReturns(r)
  <2>1. /\ phase[r] = "backward" /\ ready[r] = Params
        /\ phase'[r] = IF round[r] % config.accum # 0 THEN "forward"
                       ELSE IF config.clip THEN "clip" ELSE "step"
        /\ round'[r] = IF round[r] % config.accum # 0 THEN round[r] + 1 ELSE round[r]
        /\ ready'[r] = ready[r] /\ temp'[r] = temp[r] /\ withGrad'[r] = withGrad[r]
        /\ dispatched'[r] = dispatched[r] /\ works'[r] = works[r] /\ comm'[r] = comm[r]
    BY <1>8, BackwardReturnsEffect
  <2>2. Emits(Setting, Host(r)) = <<>>
    BY <1>1, <2>1 DEF Emits
  <2>3. Succ(Setting, Host(r)) = State(phase'[r], round'[r], ready[r], temp[r], withGrad[r],
                                       dispatched[r], works[r])
    <3>1. CASE round[r] % config.accum # 0
      BY <1>1, <2>1, <3>1 DEF Succ
    <3>2. CASE round[r] % config.accum = 0
      BY <1>1, <2>1, <3>2 DEF Succ, Goes
    <3> QED BY <3>1, <3>2
  <2>4. StepAt(round[r])' = StepAt(round[r])
    <3>1. CASE round[r] % config.accum # 0
      <4>1. round[r] \in Nat \ {0} /\ config.accum \in Nat \ {0}
        BY <2>1, RankTypes, ConfigFacts DEF LoopInv
      <4>2. round[r] \div config.accum = (round[r] - 1) \div config.accum
        BY <3>1, <4>1, NextRound, Zenon
      <4>3. (round[r] + 1) - 1 = round[r]
        BY <4>1
      <4>4. round'[r] = round[r] + 1
        BY <2>1, <3>1
      <4> QED BY <1>0, <4>2, <4>3, <4>4 DEF StepAt
    <3>2. CASE round[r] % config.accum = 0
      BY <1>4, <2>1, <3>2
    <3> QED BY <3>1, <3>2
  <2> QED BY <1>2, <1>3, <2>1, <2>2, <2>3, <2>4 DEF HostMoves
<1>9. CASE ClipFinishesGradSync(r) \/ StepFinishesGradSync(r)
  <2>1. /\ \/ phase[r] = "clip" /\ phase'[r] = "norm"
           \/ phase[r] = "step" /\ phase'[r] = "update"
        /\ comm'[r] = comm[r] \o InGroupOrder(Reduce, LastLaunches(r))
        /\ withGrad'[r] = WithGradAfter(r, GroupIds, withGrad[r])
        /\ temp'[r] = TempAfter(temp[r], works[r] \cup LastLaunches(r))
        /\ dispatched'[r] = {} /\ works'[r] = {}
        /\ round'[r] = round[r] /\ ready'[r] = ready[r]
    BY <1>9, FinishEffect
  <2>2. LaunchingAt(Setting, Host(r), GroupIds, temp[r]) = LastLaunches(r)
    BY HostOperators DEF LastLaunches
  <2>3. MarkedAfter(Host(r), GroupIds, withGrad[r]) = WithGradAfter(r, GroupIds, withGrad[r])
    BY HostOperators
  <2>4. Emits(Setting, Host(r)) = InGroupOrder(Reduce, LastLaunches(r))
    BY <1>1, <2>1, <2>2 DEF Emits
  <2>5. Succ(Setting, Host(r)) =
          State(phase'[r], round[r], ready[r], TempAfter(temp[r], works[r] \cup LastLaunches(r)),
                WithGradAfter(r, GroupIds, withGrad[r]), {}, {})
    BY <1>1, <2>1, <2>2, <2>3 DEF Succ, TempAfter
  <2>6. InGroupOrder(Reduce, LastLaunches(r)) \in Seq(Collective)
    <3>1. LastLaunches(r) \in SUBSET GroupIds
      BY LaunchFacts DEF LastLaunches
    <3> QED BY <3>1, IssueFacts DEF OnePerGroup
  <2> QED BY <1>3, <1>4, <2>1, <2>4, <2>5, <2>6 DEF HostMoves
<1>10. CASE ClipReducesNorm(r)
  <2>1. /\ phase[r] = "norm" /\ phase'[r] = "scale" /\ Waited(r, "reduce")
        /\ comm'[r] = Append(comm[r], Norm)
        /\ round'[r] = round[r] /\ ready'[r] = ready[r] /\ temp'[r] = temp[r]
        /\ withGrad'[r] = withGrad[r] /\ dispatched'[r] = dispatched[r] /\ works'[r] = works[r]
    BY <1>10, ClipReducesNormEffect
  <2>2. comm[r] = <<>>
    BY <2>1, WaitedForAll, Kinds
  <2>3. Emits(Setting, Host(r)) = <<Norm>>
    BY <1>1, <2>1 DEF Emits
  <2>4. Succ(Setting, Host(r)) = State("scale", round[r], ready[r], temp[r], withGrad[r],
                                       dispatched[r], works[r])
    BY <1>1, <2>1 DEF Succ, Goes
  <2>5. <<Norm>> \in Seq(Collective)
    BY DEF Norm, Collective
  <2>6. comm'[r] = comm[r] \o <<Norm>>
    BY <2>1, <2>2, <2>5, Emptiness
  <2> QED BY <1>3, <1>4, <2>1, <2>3, <2>4, <2>5, <2>6 DEF HostMoves
<1>11. CASE ScaleGradients(r)
  <2>1. /\ phase[r] = "scale" /\ phase'[r] = "step" /\ comm'[r] = comm[r]
        /\ round'[r] = round[r] /\ ready'[r] = ready[r] /\ temp'[r] = temp[r]
        /\ withGrad'[r] = withGrad[r] /\ dispatched'[r] = dispatched[r] /\ works'[r] = works[r]
    BY <1>11, ScaleGradientsEffect
  <2>2. Emits(Setting, Host(r)) = <<>>
    BY <1>1, <2>1 DEF Emits
  <2>3. Succ(Setting, Host(r)) = State("step", round[r], ready[r], temp[r], withGrad[r],
                                       dispatched[r], works[r])
    BY <1>1, <2>1 DEF Succ, Goes
  <2> QED BY <1>2, <1>3, <1>4, <2>1, <2>2, <2>3 DEF HostMoves
<1>12. CASE Update(r)
  <2>1. /\ phase[r] = "update" /\ phase'[r] = "gathered"
        /\ comm'[r] = comm[r] \o InGroupOrder(Gather, GroupIds)
        /\ round'[r] = round[r] /\ ready'[r] = ready[r] /\ temp'[r] = temp[r]
        /\ withGrad'[r] = withGrad[r] /\ dispatched'[r] = dispatched[r] /\ works'[r] = works[r]
    BY <1>12, UpdateEffect
  <2>2. Emits(Setting, Host(r)) = InGroupOrder(Gather, GroupIds)
    BY <1>1, <2>1 DEF Emits
  <2>3. Succ(Setting, Host(r)) = State("gathered", round[r], ready[r], temp[r], withGrad[r],
                                       dispatched[r], works[r])
    BY <1>1, <2>1 DEF Succ, Goes
  <2>4. InGroupOrder(Gather, GroupIds) \in Seq(Collective)
    BY IssueFacts DEF OnePerGroup
  <2> QED BY <1>3, <1>4, <2>1, <2>2, <2>3, <2>4 DEF HostMoves
<1>13. CASE ReduceLoss(r) \/ TrainingEnds(r)
  <2>1. /\ \/ /\ phase[r] = "gathered" /\ phase'[r] = "zero" /\ Waited(r, "gather")
              /\ comm'[r] = Append(comm[r], Loss)
           \/ /\ phase[r] = "zero" /\ phase'[r] = "done" /\ Waited(r, "loss")
              /\ round[r] = config.accum * Steps /\ comm'[r] = comm[r]
        /\ round'[r] = round[r] /\ ready'[r] = ready[r] /\ temp'[r] = temp[r]
        /\ withGrad'[r] = withGrad[r] /\ dispatched'[r] = dispatched[r] /\ works'[r] = works[r]
    BY <1>13, LastEffect
  <2>2. comm[r] = <<>>
    BY <2>1, WaitedForAll, Kinds
  <2>3. Succ(Setting, Host(r)) = State(phase'[r], round[r], ready[r], temp[r], withGrad[r],
                                       dispatched[r], works[r])
    BY <1>1, <2>1 DEF Succ, Goes
  <2>4. CASE phase[r] = "gathered"
    <3>1. Emits(Setting, Host(r)) = <<Loss>>
      BY <1>1, <2>4 DEF Emits
    <3>2. <<Loss>> \in Seq(Collective)
      BY DEF Loss, Collective
    <3>3. comm'[r] = comm[r] \o <<Loss>>
      BY <2>1, <2>2, <2>4, <3>2, Emptiness
    <3> QED BY <1>3, <1>4, <2>1, <2>3, <3>1, <3>2, <3>3 DEF HostMoves
  <2>5. CASE phase[r] = "zero"
    <3>1. Emits(Setting, Host(r)) = <<>>
      BY <1>1, <2>5 DEF Emits
    <3> QED BY <1>2, <1>3, <1>4, <2>1, <2>3, <2>5, <3>1 DEF HostMoves
  <2> QED BY <2>1, <2>4, <2>5
<1> QED BY <1>5, <1>6, <1>7, <1>8, <1>9, <1>10, <1>11, <1>12, <1>13 DEF RankStep

(* A chain can be continued from its last state.                           *)
Continues(e, n, at, len, log, step) ==
    \E at2, len2, log2, step2 :
        /\ Chain(e, n + 1, at2, len2, log2, step2)
        /\ \A m \in 0..n : at2[m] = at[m] /\ len2[m] = len[m]
        /\ \A k \in 1..len[n] : log2[k] = log[k] /\ step2[k] = step[k]

LEMMA Extension ==
    ASSUME NEW e, NEW n \in Nat, NEW at, NEW len, NEW log, NEW step,
           Chain(e, n, at, len, log, step), Emits(e, at[n]) \in Seq(Collective)
    PROVE  Continues(e, n, at, len, log, step)
<1> DEFINE E(m) == Emits(e, at[m])
           tag(m) == (at[m].round - 1) \div e.config.accum
           new == len[n] + Len(E(n))
           at2 == [m \in 0..(n + 1) |-> IF m = n + 1 THEN Succ(e, at[n]) ELSE at[m]]
           len2 == [m \in 0..(n + 1) |-> IF m = n + 1 THEN new ELSE len[m]]
           log2 == [k \in 1..new |-> IF k > len[n] THEN E(n)[k - len[n]] ELSE log[k]]
           step2 == [k \in 1..new |-> IF k > len[n] THEN tag(n) ELSE step[k]]
<1>1. Len(E(n)) \in Nat
  OBVIOUS
<1>2. \A m \in 0..n : len[m] \in Nat /\ len[m] <= len[n]
  BY DEF Chain
<1>3. len[n] \in Nat /\ new \in Nat /\ len[n] <= new
  BY <1>1, <1>2
<1>4. \A m \in 0..n : at2[m] = at[m] /\ len2[m] = len[m] /\ m \in 0..(n + 1) /\ m # n + 1
  OBVIOUS
<1>5. at2[n + 1] = Succ(e, at[n]) /\ len2[n + 1] = new
  OBVIOUS
<1>6. \A k \in 1..len[n] : log2[k] = log[k] /\ step2[k] = step[k]
  BY <1>3
<1>7. \A k \in 1..Len(E(n)) : log2[len[n] + k] = E(n)[k] /\ step2[len[n] + k] = tag(n)
  <2> TAKE k \in 1..Len(E(n))
  <2>1. len[n] + k \in 1..new /\ len[n] + k > len[n] /\ (len[n] + k) - len[n] = k
    BY <1>1, <1>3
  <2> QED BY <2>1
<1>9. ASSUME NEW m \in 0..(n - 1) PROVE Len(E(m)) \in Nat
  <2>1. len[m] \in Nat /\ len[m + 1] \in Nat /\ len[m + 1] = len[m] + Len(E(m))
    BY <1>2 DEF Chain
  <2> QED BY <2>1
<1>8. Chain(e, n + 1, at2, len2, log2, step2)
  <2>1. ASSUME NEW m \in 0..(n + 1) PROVE len2[m] \in Nat /\ len2[m] <= len2[n + 1]
    <3>1. CASE m = n + 1
      BY <1>3, <1>5, <3>1
    <3>2. CASE m # n + 1
      <4>1. m \in 0..n
        BY <3>2
      <4>2. len2[m] = len[m] /\ len[m] \in Nat /\ len[m] <= len[n]
        BY <1>2, <1>4, <4>1
      <4> HIDE DEF len2, new
      <4> QED BY <1>3, <1>5, <4>2
    <3> QED BY <3>1, <3>2
  <2>2. ASSUME NEW m \in 0..((n + 1) - 1)
        PROVE  /\ at2[m + 1] = Succ(e, at2[m])
               /\ len2[m + 1] = len2[m] + Len(Emits(e, at2[m]))
               /\ \A k \in 1..Len(Emits(e, at2[m])) :
                    /\ log2[len2[m] + k] = Emits(e, at2[m])[k]
                    /\ step2[len2[m] + k] = (at2[m].round - 1) \div e.config.accum
    <3>1. m \in 0..n /\ at2[m] = at[m] /\ len2[m] = len[m]
      BY <1>4
    <3>2. CASE m = n
      <4> HIDE DEF at2, len2, log2, step2
      <4> QED BY <1>5, <1>7, <3>1, <3>2
    <3>3. CASE m # n
      <4>1. m \in 0..(n - 1) /\ m + 1 \in 0..n
        BY <3>1, <3>3
      <4>2. /\ at[m + 1] = Succ(e, at[m]) /\ len[m + 1] = len[m] + Len(E(m))
            /\ \A k \in 1..Len(E(m)) : log[len[m] + k] = E(m)[k] /\ step[len[m] + k] = tag(m)
        BY <4>1 DEF Chain
      <4>3. len[m] \in Nat /\ len[m + 1] \in Nat /\ len[m + 1] <= len[n]
        BY <1>2, <3>1, <4>1
      <4>4. at2[m + 1] = at[m + 1] /\ len2[m + 1] = len[m + 1]
        BY <1>4, <4>1
      <4>5. ASSUME NEW k \in 1..Len(E(m))
            PROVE  log2[len[m] + k] = E(m)[k] /\ step2[len[m] + k] = tag(m)
        <5>1. len[m] + k \in 1..len[n]
          <6>1. PICK j \in Nat : j = Len(E(m))
            BY <1>9
          <6>2. k \in 1..j /\ len[m + 1] = len[m] + j
            BY <4>2, <6>1
          <6> QED BY <1>3, <4>3, <6>2, SMTT(20)
        <5> HIDE DEF log2, step2
        <5> QED BY <1>6, <4>2, <5>1
      <4> HIDE DEF at2, len2, log2, step2
      <4> QED BY <3>1, <4>2, <4>4, <4>5
    <3> QED BY <3>2, <3>3
  <2> HIDE DEF at2, len2, log2, step2
  <2> QED BY <2>1, <2>2 DEF Chain
<1> HIDE DEF at2, len2, log2, step2
<1> QED BY <1>4, <1>6, <1>8 DEF Continues

LEMMA OnLongerChain ==
    ASSUME TypeOK, NEW s \in Ranks, NEW c \in Nat, NEW n \in Nat, NEW m \in 0..n,
           NEW at, NEW len, NEW log, NEW step, NEW at2, NEW len2, NEW log2, NEW step2,
           len[m] \in Nat, len[n] \in Nat, len[m] <= len[n],
           OnChain(s, c, m, at, len, log, step),
           at2[m] = at[m], len2[m] = len[m],
           \A k \in 1..len[n] : log2[k] = log[k] /\ step2[k] = step[k]
    PROVE  OnChain(s, c, m, at2, len2, log2, step2)
<1>1. Len(comm[s]) \in Nat /\ DOMAIN comm[s] = 1..Len(comm[s])
  BY RankTypes
<1>2. c + Len(comm[s]) = len[m]
  BY DEF OnChain
<1>3. \A k \in DOMAIN comm[s] : c + k \in 1..len[n]
  BY <1>1, <1>2
<1> QED BY <1>2, <1>3 DEF OnChain

LEMMA SettingConstant ==
    config' = config /\ engineOrder' = engineOrder => Setting' = Setting
BY DEF Setting

LEMMA OnChainIndependent ==
    ASSUME NEW s \in Ranks, NEW c, NEW m, NEW at, NEW len, NEW log, NEW step,
           config' = config, Same(s), OnChain(s, c, m, at, len, log, step)
    PROVE  OnChain(s, c, m, at, len, log, step)'
<1>1. Host(s)' = Host(s)
  BY DEF Same, Host
<1> QED BY <1>1 DEF Same, OnChain, StepAt

LEMMA RankOnChain ==
    ASSUME TypeOK, NEW r \in Ranks, HostMoves(r, Host(r)), config' = config,
           NEW c \in Nat, NEW n \in Nat, NEW m \in 0..(n - 1),
           NEW at, NEW len, NEW log, NEW step, 
           Chain(Setting, n, at, len, log, step), OnChain(r, c, m, at, len, log, step)
    PROVE  OnChain(r, c, m + 1, at, len, log, step)'
<1> DEFINE e == Emits(Setting, Host(r))
<1>1. /\ Host(r)' = Succ(Setting, at[m]) /\ e \in Seq(Collective)
      /\ comm'[r] = comm[r] \o e
      /\ StepAt(round[r])' = StepAt(round[r]) \/ (comm[r] = <<>> /\ e = <<>>)
      /\ Host(r) = at[m] /\ c + Len(comm[r]) = len[m]
      /\ \A k \in DOMAIN comm[r] : comm[r][k] = log[c + k] /\ step[c + k] = StepAt(round[r])
  BY DEF HostMoves, OnChain
<1>2. /\ at[m + 1] = Succ(Setting, at[m]) /\ len[m + 1] = len[m] + Len(e)
      /\ \A k \in 1..Len(e) : /\ log[len[m] + k] = e[k]
                              /\ step[len[m] + k] = StepAt(round[r])
  <2>1. /\ at[m + 1] = Succ(Setting, at[m])
        /\ len[m + 1] = len[m] + Len(Emits(Setting, at[m]))
        /\ \A k \in 1..Len(Emits(Setting, at[m])) :
             /\ log[len[m] + k] = Emits(Setting, at[m])[k]
             /\ step[len[m] + k] = (at[m].round - 1) \div Setting.config.accum
    BY DEF Chain
  <2>2. Emits(Setting, at[m]) = e /\ at[m].round = round[r] /\ Setting.config = config
    BY <1>1, HostFields
  <2> HIDE DEF e
  <2> QED BY <2>1, <2>2 DEF StepAt
<1>3. comm[r] \in Seq(Collective) /\ Len(comm[r]) \in Nat /\ DOMAIN comm[r] = 1..Len(comm[r])
  BY RankTypes
<1> HIDE DEF e
<1>4. /\ Len(e) \in Nat /\ Len(comm'[r]) = Len(comm[r]) + Len(e)
      /\ DOMAIN comm'[r] = 1..(Len(comm[r]) + Len(e))
      /\ \A k \in 1..(Len(comm[r]) + Len(e)) :
           comm'[r][k] = IF k <= Len(comm[r]) THEN comm[r][k] ELSE e[k - Len(comm[r])]
  BY <1>1, <1>3
<1>5. c + Len(comm'[r]) = len[m + 1]
  BY <1>1, <1>2, <1>3, <1>4
<1>6. ASSUME NEW k \in DOMAIN comm'[r]
      PROVE  comm'[r][k] = log[c + k] /\ step[c + k] = StepAt(round[r])'
  <2>0. StepAt(round[r])' = StepAt(round[r])
    <3> SUFFICES ASSUME comm[r] = <<>>, e = <<>> PROVE FALSE
      BY <1>1
    <3>1. comm'[r] = <<>>
      BY <1>1
    <3> QED BY <1>6, <3>1
  <2>1. CASE k <= Len(comm[r])
    BY <1>1, <1>3, <1>4, <2>0, <2>1
  <2>2. CASE k > Len(comm[r])
    <3>1. k - Len(comm[r]) \in 1..Len(e) /\ len[m] + (k - Len(comm[r])) = c + k
      BY <1>1, <1>3, <1>4, <2>2
    <3>2. comm'[r][k] = e[k - Len(comm[r])]
      BY <1>3, <1>4, <2>2
    <3> QED BY <1>2, <2>0, <3>1, <3>2
  <2> QED BY <1>3, <1>4, <2>1, <2>2
<1> QED BY <1>1, <1>2, <1>5, <1>6 DEF OnChain

LEMMA HistoryRank ==
    ASSUME TypeOK, Loops, History, NEW r \in Ranks, RankStep(r)
    PROVE  History'
<1>1. PICK c \in Nat, n \in Nat : \E e, at, len, log, step :
        /\ e = Setting /\ Chain(e, n, at, len, log, step)
        /\ \A s \in Ranks : \E m \in 0..n : OnChain(s, c, m, at, len, log, step)
  BY DEF History
<1>2. PICK e, at, len, log, step :
        /\ e = Setting /\ Chain(e, n, at, len, log, step)
        /\ \A s \in Ranks : \E m \in 0..n : OnChain(s, c, m, at, len, log, step)
  BY <1>1
<1>3. /\ config' = config /\ Setting' = Setting /\ HostMoves(r, Host(r))
      /\ \A s \in Ranks \ {r} : Same(s)
  BY Frame, SettingConstant, HostNext DEF Loops
<1>4. PICK m \in 0..n : OnChain(r, c, m, at, len, log, step)
  BY <1>2
<1>5. ASSUME NEW n2 \in Nat, NEW at2, NEW len2, NEW log2, NEW step2,
             n2 > m, Chain(e, n2, at2, len2, log2, step2),
             OnChain(r, c, m, at2, len2, log2, step2),
             \A s \in Ranks : \E j \in 0..n2 : OnChain(s, c, j, at2, len2, log2, step2)
      PROVE  History'
  <2>1. m \in 0..(n2 - 1) /\ m + 1 \in 0..n2
    BY <1>5
  <2>2. OnChain(r, c, m + 1, at2, len2, log2, step2)'
    BY <1>2, <1>3, <1>5, <2>1, RankOnChain
  <2>3. ASSUME NEW s \in Ranks
        PROVE  \E j \in 0..n2 : OnChain(s, c, j, at2, len2, log2, step2)'
    <3>1. CASE s = r
      BY <2>1, <2>2, <3>1
    <3>2. CASE s # r
      <4>1. PICK j \in 0..n2 : OnChain(s, c, j, at2, len2, log2, step2)
        BY <1>5
      <4>2. OnChain(s, c, j, at2, len2, log2, step2)'
        BY <1>3, <3>2, <4>1, OnChainIndependent
      <4> QED BY <4>2
    <3> QED BY <3>1, <3>2
  <2>4. Chain(e, n2, at2, len2, log2, step2)'
    BY <1>5
  <2>5. e = Setting'
    BY <1>2, <1>3
  <2> QED BY <2>3, <2>4, <2>5 DEF History
<1>6. CASE m < n
  BY <1>2, <1>4, <1>5, <1>6
<1>7. CASE m = n
  <2>1. Emits(e, at[n]) \in Seq(Collective)
    BY <1>2, <1>3, <1>4, <1>7 DEF HostMoves, OnChain
  <2>2. PICK at2, len2, log2, step2 :
          /\ Chain(e, n + 1, at2, len2, log2, step2)
          /\ \A j \in 0..n : at2[j] = at[j] /\ len2[j] = len[j]
          /\ \A k \in 1..len[n] : log2[k] = log[k] /\ step2[k] = step[k]
    <3>1. Continues(e, n, at, len, log, step)
      BY <1>2, <2>1, Extension
    <3> QED BY <3>1 DEF Continues
  <2>3. \A j \in 0..n : len[j] \in Nat /\ len[j] <= len[n]
    BY <1>2 DEF Chain
  <2>4. ASSUME NEW s \in Ranks, NEW j \in 0..n, OnChain(s, c, j, at, len, log, step)
        PROVE  j \in 0..(n + 1) /\ OnChain(s, c, j, at2, len2, log2, step2)
    <3>1. len[n] \in Nat /\ len[j] \in Nat /\ len[j] <= len[n]
      BY <2>3
    <3> QED BY <2>2, <2>4, <3>1, OnLongerChain
  <2>5. \A s \in Ranks : \E j \in 0..(n + 1) : OnChain(s, c, j, at2, len2, log2, step2)
    BY <1>2, <2>4
  <2>6. OnChain(r, c, m, at2, len2, log2, step2) /\ n + 1 \in Nat /\ n + 1 > m
    BY <1>4, <1>7, <2>4
  <2> QED BY <1>5, <2>2, <2>5, <2>6
<1> QED BY <1>6, <1>7

LEMMA HistoryCompletes ==
    ASSUME TypeOK, History, NEW x, Completes(x)
    PROVE  History'
<1>1. PICK c \in Nat, n \in Nat : \E e, at, len, log, step :
        /\ e = Setting /\ Chain(e, n, at, len, log, step)
        /\ \A s \in Ranks : \E m \in 0..n : OnChain(s, c, m, at, len, log, step)
  BY DEF History
<1>2. PICK e, at, len, log, step :
        /\ e = Setting /\ Chain(e, n, at, len, log, step)
        /\ \A s \in Ranks : \E m \in 0..n : OnChain(s, c, m, at, len, log, step)
  BY <1>1
<1>3. config' = config /\ Setting' = Setting
  BY SettingConstant DEF Completes
<1>4. ASSUME NEW s \in Ranks, NEW m \in 0..n, OnChain(s, c, m, at, len, log, step)
      PROVE  OnChain(s, c + 1, m, at, len, log, step)'
  <2>1. Host(s)' = Host(s) /\ round'[s] = round[s] /\ StepAt(round[s])' = StepAt(round[s])
    BY DEF Completes, Host, StepAt
  <2>2. comm[s] \in Seq(Collective) /\ comm[s] # <<>> /\ comm'[s] = Tail(comm[s])
    BY RankTypes DEF Completes
  <2>3. /\ Len(comm[s]) \in Nat \ {0} /\ DOMAIN comm[s] = 1..Len(comm[s])
        /\ Len(comm'[s]) = Len(comm[s]) - 1 /\ DOMAIN comm'[s] = 1..(Len(comm[s]) - 1)
        /\ \A k \in 1..(Len(comm[s]) - 1) : comm'[s][k] = comm[s][k + 1]
    BY <2>2, TailFacts
  <2>4. Host(s) = at[m] /\ c + Len(comm[s]) = len[m]
    BY <1>4 DEF OnChain
  <2>5. (c + 1) + Len(comm'[s]) = len[m]
    <3>1. PICK a \in Nat \ {0} : a = Len(comm[s])
      BY <2>3
    <3>2. Len(comm'[s]) = a - 1
      BY <2>3, <3>1
    <3>3. (c + 1) + (a - 1) = c + a
      OBVIOUS
    <3> QED BY <2>4, <3>1, <3>2, <3>3
  <2>6. ASSUME NEW k \in DOMAIN comm'[s]
        PROVE  comm'[s][k] = log[(c + 1) + k] /\ step[(c + 1) + k] = StepAt(round[s])
    <3>1. PICK a \in Nat \ {0} : a = Len(comm[s]) /\ k \in 1..(a - 1)
      BY <2>3
    <3>2. k + 1 \in 1..a /\ c + (k + 1) = (c + 1) + k
      BY <3>1
    <3>3. k + 1 \in DOMAIN comm[s]
      BY <2>3, <3>1, <3>2
    <3>4. comm'[s][k] = comm[s][k + 1]
      BY <2>3, <3>1
    <3> QED BY <1>4, <3>2, <3>3, <3>4 DEF OnChain
  <2> QED BY <2>1, <2>4, <2>5, <2>6 DEF OnChain
<1>5. Chain(e, n, at, len, log, step)'
  BY <1>2
<1>6. \A s \in Ranks : \E m \in 0..n : OnChain(s, c + 1, m, at, len, log, step)'
  BY <1>2, <1>4
<1>7. c + 1 \in Nat /\ e = Setting'
  BY <1>2, <1>3
<1> QED BY <1>5, <1>6, <1>7 DEF History

LEMMA InitHistory == Init => History
<1> SUFFICES ASSUME Init PROVE History
  OBVIOUS
<1> DEFINE h == State("zero", 0, {}, {}, {}, {}, {})
           at == [m \in 0..0 |-> h]
           len == [m \in 0..0 |-> 0]
<1>1. Chain(Setting, 0, at, len, <<>>, <<>>)
  BY DEF Chain
<1>2. ASSUME NEW r \in Ranks PROVE OnChain(r, 0, 0, at, len, <<>>, <<>>)
  <2>1. Host(r) = h
    BY DEF Init, Host
  <2>2. comm[r] = <<>>
    BY DEF Init
  <2> QED BY <2>1, <2>2 DEF OnChain
<1> HIDE DEF at, len
<1> QED BY <1>1, <1>2 DEF History

LEMMA NextHistory == TypeOK /\ Loops /\ History /\ [Next]_vars => History'
<1> SUFFICES ASSUME TypeOK, Loops, History, [Next]_vars PROVE History'
  OBVIOUS
<1>1. ASSUME NEW r \in Ranks, RankStep(r) PROVE History'
  BY <1>1, HistoryRank
<1>2. CASE CollectiveCompletes
  BY <1>2, CompletesEffect, HistoryCompletes
<1>3. CASE UNCHANGED vars
  <2>1. config' = config /\ Setting' = Setting /\ \A s \in Ranks : Same(s)
    BY <1>3 DEF vars, loopVars, bufVars, syncVars, Same, Setting
  <2>2. PICK c \in Nat, n \in Nat : \E e, at, len, log, step :
          /\ e = Setting /\ Chain(e, n, at, len, log, step)
          /\ \A s \in Ranks : \E m \in 0..n : OnChain(s, c, m, at, len, log, step)
    BY DEF History
  <2>3. PICK e, at, len, log, step :
          /\ e = Setting /\ Chain(e, n, at, len, log, step)
          /\ \A s \in Ranks : \E m \in 0..n : OnChain(s, c, m, at, len, log, step)
    BY <2>2
  <2>4. Chain(e, n, at, len, log, step)'
    BY <2>3
  <2>5. \A s \in Ranks : \E m \in 0..n : OnChain(s, c, m, at, len, log, step)'
    BY <2>1, <2>3, OnChainIndependent
  <2>6. e = Setting'
    BY <2>1, <2>3
  <2> QED BY <2>4, <2>5, <2>6 DEF History
<1> QED BY <1>1, <1>2, <1>3 DEF Next, Terminated

(* Two outstanding collectives of two streams belong to the same step.     *)
LEMMA SameStep ==
    ASSUME TypeOK, History, NEW r \in Ranks, NEW s \in Ranks, comm[r] # <<>>, comm[s] # <<>>
    PROVE  StepAt(round[r]) = StepAt(round[s])
<1>1. PICK c \in Nat, n \in Nat : \E e, at, len, log, step :
        /\ e = Setting /\ Chain(e, n, at, len, log, step)
        /\ \A q \in Ranks : \E m \in 0..n : OnChain(q, c, m, at, len, log, step)
  BY DEF History
<1>2. PICK at, len, log, step :
        \A q \in Ranks : \E m \in 0..n : OnChain(q, c, m, at, len, log, step)
  BY <1>1
<1>3. \A q \in Ranks : comm[q] # <<>> => 1 \in DOMAIN comm[q]
  BY RankTypes
<1>4. step[c + 1] = StepAt(round[r]) /\ step[c + 1] = StepAt(round[s])
  BY <1>2, <1>3 DEF OnChain
<1> QED BY <1>4

LEMMA HistoryMatches == History => CollectivesMatch
<1> SUFFICES ASSUME History, NEW r \in Ranks, NEW s \in Ranks,
                    NEW k \in DOMAIN comm[r] \cap DOMAIN comm[s]
             PROVE  comm[r][k] = comm[s][k]
  BY DEF CollectivesMatch
<1>1. PICK c \in Nat, n \in Nat : \E e, at, len, log, step :
        /\ e = Setting /\ Chain(e, n, at, len, log, step)
        /\ \A q \in Ranks : \E m \in 0..n : OnChain(q, c, m, at, len, log, step)
  BY DEF History
<1>2. PICK at, len, log, step :
        \A q \in Ranks : \E m \in 0..n : OnChain(q, c, m, at, len, log, step)
  BY <1>1
<1> QED BY <1>2 DEF OnChain

-----------------------------------------------------------------------------
(* Parameters.                                                             *)

ParamsInv == \A r \in Ranks : ParamInv(r)

LEMMA InitParams == Init => ParamsInv
<1> SUFFICES ASSUME Init, NEW r \in Ranks PROVE ParamInv(r)
  BY DEF ParamsInv
<1>1. config.accum \in Nat \ {0}
  BY CountsAssumption DEF Init, Config
<1>2. 0 \div config.accum = 0
  <2>1. \A a \in Nat \ {0} : 0 \div a = 0
    OBVIOUS
  <2> QED BY <1>1, <2>1
<1> QED BY <1>2 DEF Init, ParamInv, Updates, Lags

(* Only Update changes values; ReduceLoss follows the last gather.         *)
LEMMA RankParams ==
    ASSUME TypeOK, NEW r \in Ranks, LoopInv(r), ParamInv(r), RankStep(r)
    PROVE  ParamInv(r)'
<1>0. config' = config
  BY Frame
<1>1. /\ config.accum \in Nat \ {0} /\ round[r] \in Nat /\ comm[r] \in Seq(Collective)
  BY ConfigFacts, RankTypes
<1>2. /\ \A i \in Nat \ {0} : i % config.accum # 0 => i \div config.accum = (i - 1) \div config.accum
      /\ \A i \in Nat \ {0} : i % config.accum = 0 =>
           i \div config.accum = ((i - 1) \div config.accum) + 1
      /\ \A i \in Nat : (i + 1) - 1 = i /\ i \div config.accum \in Nat
  <2>1. ASSUME NEW i \in Nat \ {0}
        PROVE  /\ i % config.accum # 0 => i \div config.accum = (i - 1) \div config.accum
               /\ i % config.accum = 0 =>
                    i \div config.accum = ((i - 1) \div config.accum) + 1
    BY <1>1, NextRound, Zenon
  <2>2. ASSUME NEW i \in Nat PROVE (i + 1) - 1 = i /\ i \div config.accum \in Nat
    <3>1. i \div config.accum \in Nat
      BY <1>1, Division
    <3> QED BY <3>1
  <2> QED BY <2>1, <2>2
<1>3. CASE \E setToNone \in BOOLEAN : ZeroGrad(r, setToNone)
  <2>1. /\ phase[r] = "zero" /\ phase'[r] = "forward" /\ round'[r] = round[r] + 1
        /\ value'[r] = value[r]
    BY <1>3, ZeroGradEffect
  <2> QED BY <1>0, <1>1, <1>2, <2>1 DEF ParamInv, Updates, Lags, StepAt
<1>4. CASE Forward(r)
  <2>1. /\ phase[r] = "forward" /\ phase'[r] = "backward" /\ round'[r] = round[r]
        /\ value'[r] = value[r]
    BY <1>4, ForwardEffect
  <2> QED BY <1>0, <2>1 DEF ParamInv, Updates, Lags, StepAt
<1>5. CASE \E p \in Params : AccumulateGrad(r, p)
  <2>1. /\ phase[r] = "backward" /\ phase'[r] = "backward" /\ round'[r] = round[r]
        /\ value'[r] = value[r]
    BY <1>5, AccumulateGradEffect
  <2> QED BY <1>0, <2>1 DEF ParamInv, Updates, Lags, StepAt
<1>6. CASE BackwardReturns(r)
  <2>1. /\ phase[r] = "backward"
        /\ phase'[r] = IF round[r] % config.accum # 0 THEN "forward"
                       ELSE IF config.clip THEN "clip" ELSE "step"
        /\ round'[r] = IF round[r] % config.accum # 0 THEN round[r] + 1 ELSE round[r]
        /\ value'[r] = value[r]
    BY <1>6, BackwardReturnsEffect
  <2>2. round[r] \in Nat \ {0}
    BY <1>1, <2>1 DEF LoopInv
  <2>3. CASE round[r] % config.accum # 0
    BY <1>0, <1>2, <2>1, <2>2, <2>3 DEF ParamInv, Updates, Lags, StepAt
  <2>4. CASE round[r] % config.accum = 0
    BY <1>0, <2>1, <2>4 DEF ParamInv, Updates, Lags, StepAt
  <2> QED BY <2>3, <2>4
<1>7. CASE ClipFinishesGradSync(r) \/ StepFinishesGradSync(r)
  <2>1. /\ phase[r] \in {"clip", "step"} /\ phase'[r] \in {"norm", "update"}
        /\ round'[r] = round[r] /\ value'[r] = value[r]
    BY <1>7, FinishEffect
  <2> QED BY <1>0, <2>1 DEF ParamInv, Updates, Lags, StepAt
<1>8. CASE ClipReducesNorm(r)
  <2>1. /\ phase[r] = "norm" /\ phase'[r] = "scale" /\ round'[r] = round[r]
        /\ value'[r] = value[r]
    BY <1>8, ClipReducesNormEffect
  <2> QED BY <1>0, <2>1 DEF ParamInv, Updates, Lags, StepAt
<1>9. CASE ScaleGradients(r)
  <2>1. /\ phase[r] = "scale" /\ phase'[r] = "step" /\ round'[r] = round[r]
        /\ value'[r] = value[r]
    BY <1>9, ScaleGradientsEffect
  <2> QED BY <1>0, <2>1 DEF ParamInv, Updates, Lags, StepAt
<1>10. CASE Update(r)
  <2>1. /\ phase[r] = "update" /\ phase'[r] = "gathered" /\ Waited(r, "reduce")
        /\ value'[r] = [p \in Params |-> IF p \in OwnedBy(r) THEN value[r][p] + 1
                                         ELSE value[r][p]]
        /\ comm'[r] = comm[r] \o InGroupOrder(Gather, GroupIds) /\ round'[r] = round[r]
    BY <1>10, UpdateEffect
  <2>2. round[r] \in Nat \ {0} /\ round[r] % config.accum = 0
    BY <1>1, <2>1 DEF LoopInv
  <2>3. /\ Updates(r)' = StepAt(round[r]) + 1 /\ StepAt(round[r]) \in Nat
        /\ \A p \in Params : value[r][p] = StepAt(round[r])
    <3>1. round[r] - 1 \in Nat
      BY <2>2
    <3> QED BY <1>0, <1>2, <2>1, <2>2, <3>1 DEF ParamInv, Updates, Lags, StepAt
  <2>4. \A g \in GroupIds : Gather(g) \in Range(comm'[r])
    <3>1. comm[r] = <<>>
      BY <2>1, WaitedForAll, Kinds
    <3>2. comm'[r] = InGroupOrder(Gather, GroupIds)
      BY <2>1, <3>1, IssueFacts, Emptiness DEF OnePerGroup
    <3> QED BY <3>2, IssueFacts DEF OnePerGroup, Gather
  <2>5. ASSUME NEW p \in Params
        PROVE  value'[r][p] = Updates(r)' - (IF Lags(r, p)' THEN 1 ELSE 0)
    <3>1. Lags(r, p)' <=> Owner[p] # r
      BY <2>1, <2>4, GroupFacts DEF Lags, Outstanding
    <3>2. p \in OwnedBy(r) <=> Owner[p] = r
      BY DEF OwnedBy
    <3>3. value'[r][p] = IF Owner[p] = r THEN StepAt(round[r]) + 1 ELSE StepAt(round[r])
      BY <2>1, <2>3, <3>2
    <3> QED BY <2>3, <3>1, <3>3
  <2> QED BY <2>5 DEF ParamInv
<1>11. CASE ReduceLoss(r) \/ TrainingEnds(r)
  <2>1. /\ \/ /\ phase[r] = "gathered" /\ phase'[r] = "zero" /\ Waited(r, "gather")
           \/ /\ phase[r] = "zero" /\ phase'[r] = "done" /\ Waited(r, "loss")
        /\ round'[r] = round[r] /\ value'[r] = value[r]
    BY <1>11, LastEffect
  <2>2. comm[r] = <<>>
    BY <2>1, WaitedForAll, Kinds
  <2>3. \A p \in Params : ~Lags(r, p)
    BY <2>2, Emptiness DEF Lags, Outstanding
  <2>4. \A p \in Params : ~Lags(r, p)'
    BY <2>1 DEF Lags
  <2> QED BY <1>0, <2>1, <2>3, <2>4 DEF ParamInv, Updates
<1> QED BY <1>3, <1>4, <1>5, <1>6, <1>7, <1>8, <1>9, <1>10, <1>11 DEF RankStep

LEMMA ParamIndependent ==
    ASSUME config' = config, NEW s \in Ranks, Same(s), ParamInv(s) PROVE ParamInv(s)'
BY DEF Same, ParamInv, Updates, Lags, Outstanding, StepAt

(* A gather completes on ranks that are all in the same step.              *)
LEMMA CompletesParams ==
    ASSUME TypeOK, Loops, History, ParamsInv, NEW c, Completes(c), NEW r \in Ranks
    PROVE  ParamInv(r)'
<1>1. /\ comm[r] \in Seq(Collective) /\ comm[r] # <<>> /\ comm'[r] = Tail(comm[r])
      /\ Head(comm[r]) = c /\ LoopInv(r)
  BY RankTypes DEF Completes, Loops
<1>2. c \in Range(comm[r]) /\ Range(comm'[r]) = Range(comm[r]) \ {c}
  BY <1>1, TailFacts DEF LoopInv
<1>3. config' = config /\ phase'[r] = phase[r] /\ round'[r] = round[r] /\ Updates(r)' = Updates(r)
  BY DEF Completes, Updates, StepAt
<1>4. CASE c.op # "gather"
  <2>1. value' = value
    BY <1>4 DEF Completes
  <2>2. phase[r] # "gathered"
    BY <1>1, <1>2, <1>4, Kinds DEF LoopInv, Outstanding
  <2> QED BY <1>3, <2>1, <2>2 DEF ParamsInv, ParamInv, Lags
<1>5. CASE c.op = "gather"
  <2>1. ASSUME NEW s \in Ranks PROVE phase[s] = "gathered" /\ comm[s] # <<>>
    <3>1. comm[s] \in Seq(Collective) /\ comm[s] # <<>> /\ Head(comm[s]) = c
      BY RankTypes DEF Completes
    <3>2. c \in Range(comm[s])
      BY <3>1, TailFacts
    <3>3. Kind(phase[s]) = "gather"
      BY <1>5, <3>2 DEF LoopInv, Outstanding, Loops
    <3> QED BY <3>1, <3>3 DEF Kind
  <2>2. ASSUME NEW s \in Ranks PROVE Updates(s) = Updates(r)
    <3>1. StepAt(round[s]) = StepAt(round[r])
      BY <2>1, SameStep
    <3>2. \A q \in Ranks : Updates(q) = StepAt(round[q]) + 1
      <4>1. TAKE q \in Ranks
      <4>2. round[q] \in Nat \ {0} /\ round[q] % config.accum = 0 /\ config.accum \in Nat \ {0}
        BY <2>1, RankTypes, ConfigFacts DEF Loops, LoopInv
      <4>3. round[q] \div config.accum = ((round[q] - 1) \div config.accum) + 1
        BY <4>2, NextRound, Zenon
      <4> QED BY <2>1, <4>3 DEF Updates, StepAt
    <3> QED BY <3>1, <3>2
  <2>3. value' = Gathered(c.group)
    BY <1>5 DEF Completes
  <2>4. c = Gather(c.group) /\ c.group \in GroupIds
    <3>1. c \in Collective
      BY <1>1, <1>2 DEF Range
    <3> QED BY <1>5, <3>1 DEF Collective, Gather, Reduce, Norm, Loss
  <2>5. ASSUME NEW p \in Params
        PROVE  value'[r][p] = Updates(r)' - (IF Lags(r, p)' THEN 1 ELSE 0)
    <3>1. GroupOf(p) \in GroupIds /\ p \in Groups[GroupOf(p)]
      BY GroupFacts
    <3>2. CASE p \in Groups[c.group]
      <4>1. value'[r][p] = value[Owner[p]][p] /\ Owner[p] \in Ranks
        BY <2>3, <3>2, GroupsAssumption DEF Gathered
      <4>2. value[Owner[p]][p] = Updates(Owner[p])
        <5>1. Updates(Owner[p]) \in Nat
          <6>1. round[Owner[p]] \in Nat /\ config.accum \in Nat \ {0}
            BY <4>1, RankTypes, ConfigFacts
          <6>2. round[Owner[p]] \div config.accum \in Nat
            BY <6>1, Division
          <6> QED BY <2>1, <4>1, <6>2 DEF Updates
        <5> QED BY <4>1, <5>1 DEF ParamsInv, ParamInv, Lags
      <4>3. ~Lags(r, p)'
        <5>1. GroupOf(p) = c.group
          BY <2>4, <3>2, GroupFacts
        <5> QED BY <1>2, <2>4, <5>1 DEF Lags, Outstanding
      <4>4. Updates(Owner[p]) = Updates(r) /\ Updates(r) \in Nat
        <5>1. round[r] \in Nat /\ config.accum \in Nat \ {0}
          BY RankTypes, ConfigFacts
        <5>2. round[r] \div config.accum \in Nat
          BY <5>1, Division
        <5> QED BY <2>1, <2>2, <4>1, <5>2 DEF Updates
      <4> QED BY <1>3, <4>1, <4>2, <4>3, <4>4
    <3>3. CASE p \notin Groups[c.group]
      <4>1. value'[r][p] = value[r][p]
        BY <2>3, <3>3 DEF Gathered
      <4>2. Gather(GroupOf(p)) # c
        <5>1. Gather(GroupOf(p)).group = GroupOf(p)
          BY DEF Gather
        <5> QED BY <3>1, <3>3, <5>1
      <4>3. Lags(r, p)' = Lags(r, p)
        BY <1>2, <1>3, <4>2 DEF Lags, Outstanding
      <4> QED BY <1>3, <4>1, <4>3 DEF ParamsInv, ParamInv
    <3> QED BY <3>2, <3>3
  <2> QED BY <2>5 DEF ParamInv
<1> QED BY <1>4, <1>5

LEMMA NextParams == TypeOK /\ Loops /\ History /\ ParamsInv /\ [Next]_vars => ParamsInv'
<1> SUFFICES ASSUME TypeOK, Loops, History, ParamsInv, [Next]_vars PROVE ParamsInv'
  OBVIOUS
<1>1. ASSUME NEW r \in Ranks, RankStep(r) PROVE ParamsInv'
  <2>1. config' = config /\ \A s \in Ranks \ {r} : Same(s)
    BY <1>1, Frame
  <2> QED BY <1>1, <2>1, RankParams, ParamIndependent DEF ParamsInv, Loops
<1>2. CASE CollectiveCompletes
  BY <1>2, CompletesEffect, CompletesParams DEF ParamsInv
<1>3. CASE UNCHANGED vars
  BY <1>3, ParamIndependent DEF ParamsInv, vars, loopVars, bufVars, syncVars, Same
<1> QED BY <1>1, <1>2, <1>3 DEF Next, Terminated

-----------------------------------------------------------------------------
(* Types.                                                                  *)

RankType(r) ==
    /\ phase[r] \in Phases /\ round[r] \in Rounds \cup {0} /\ ready[r] \in SUBSET Params
    /\ bound[r] \in BOOLEAN /\ needRebind[r] \in BOOLEAN /\ overwrite[r] \in SUBSET Params
    /\ full[r] \in [Params -> Value] /\ shard[r] \in [Params -> Value]
    /\ temp[r] \in SUBSET GroupIds /\ withGrad[r] \in SUBSET Params
    /\ dispatched[r] \in SUBSET GroupIds /\ works[r] \in SUBSET GroupIds
    /\ works[r] \subseteq dispatched[r] /\ gathers[r] \in SUBSET GroupIds
    /\ value[r] \in [Params -> 0..Steps] /\ comm[r] \in Seq(Collective)

(* Every variable but the settings is a function of the ranks.             *)
PerRank ==
    /\ phase = [s \in Ranks |-> phase[s]] /\ round = [s \in Ranks |-> round[s]]
    /\ ready = [s \in Ranks |-> ready[s]] /\ bound = [s \in Ranks |-> bound[s]]
    /\ needRebind = [s \in Ranks |-> needRebind[s]]
    /\ overwrite = [s \in Ranks |-> overwrite[s]]
    /\ full = [s \in Ranks |-> full[s]] /\ shard = [s \in Ranks |-> shard[s]]
    /\ temp = [s \in Ranks |-> temp[s]] /\ withGrad = [s \in Ranks |-> withGrad[s]]
    /\ dispatched = [s \in Ranks |-> dispatched[s]] /\ works = [s \in Ranks |-> works[s]]
    /\ gathers = [s \in Ranks |-> gathers[s]] /\ value = [s \in Ranks |-> value[s]]
    /\ comm = [s \in Ranks |-> comm[s]]

Typed ==
    /\ config \in Configs /\ engineOrder \in EngineOrders /\ PerRank
    /\ \A r \in Ranks : RankType(r)

LEMMA TypesByRank == Typed => TypeOK
<1> SUFFICES ASSUME Typed PROVE TypeOK
  OBVIOUS
<1> USE DEF Typed
<1>1. /\ phase \in [Ranks -> Phases] /\ round \in [Ranks -> Rounds \cup {0}]
      /\ ready \in [Ranks -> SUBSET Params] /\ bound \in [Ranks -> BOOLEAN]
      /\ needRebind \in [Ranks -> BOOLEAN] /\ overwrite \in [Ranks -> SUBSET Params]
  BY DEF PerRank, RankType
<1>2. /\ full \in [Ranks -> [Params -> Value]] /\ shard \in [Ranks -> [Params -> Value]]
      /\ temp \in [Ranks -> SUBSET GroupIds] /\ withGrad \in [Ranks -> SUBSET Params]
  BY DEF PerRank, RankType
<1>3. /\ dispatched \in [Ranks -> SUBSET GroupIds] /\ works \in [Ranks -> SUBSET GroupIds]
      /\ \A r \in Ranks : works[r] \subseteq dispatched[r]
      /\ gathers \in [Ranks -> SUBSET GroupIds]
  BY DEF PerRank, RankType
<1>4. value \in [Ranks -> [Params -> 0..Steps]] /\ comm \in [Ranks -> Seq(Collective)]
  BY DEF PerRank, RankType
<1> QED BY <1>1, <1>2, <1>3, <1>4 DEF TypeOK

LEMMA TypesByRankNext == Typed' => TypeOK'
BY TypesByRank, PTL

LEMMA PerRankNext ==
    ASSUME TypeOK, NEW r \in Ranks, RankStep(r) PROVE PerRank'
<1> USE DEF loopVars, bufVars, syncVars, PerRank, TypeOK
<1>1. ASSUME NEW setToNone \in BOOLEAN, ZeroGrad(r, setToNone) PROVE PerRank'
  BY <1>1 DEF ZeroGrad
<1>2. CASE Forward(r)
  BY <1>2 DEF Forward
<1>3. ASSUME NEW p \in Params, AccumulateGrad(r, p) PROVE PerRank'
  BY <1>3 DEF AccumulateGrad
<1>4. CASE BackwardReturns(r)
  BY <1>4 DEF BackwardReturns
<1>5. CASE ClipFinishesGradSync(r)
  BY <1>5 DEF ClipFinishesGradSync, FinishGradSync
<1>6. CASE ClipReducesNorm(r)
  BY <1>6 DEF ClipReducesNorm
<1>7. CASE ScaleGradients(r)
  BY <1>7 DEF ScaleGradients
<1>8. CASE StepFinishesGradSync(r)
  BY <1>8 DEF StepFinishesGradSync, FinishGradSync
<1>9. CASE Update(r)
  BY <1>9 DEF Update
<1>10. CASE ReduceLoss(r)
  BY <1>10 DEF ReduceLoss
<1>11. CASE TrainingEnds(r)
  BY <1>11 DEF TrainingEnds
<1> QED BY <1>1, <1>2, <1>3, <1>4, <1>5, <1>6, <1>7, <1>8, <1>9, <1>10, <1>11 DEF RankStep

LEMMA ValueTypes ==
    /\ Zero \in Value /\ Junk \in Value
    /\ \A v \in Value : \A i \in Rounds : Plus(v, i) \in Value
    /\ \A v \in Value : Clipped(v) \in Value
    /\ \A vs \in SUBSET Value : vs # {} => Average(vs) \in Value
<1>1. Zero \in Value /\ Junk \in Value
  BY DEF Zero, Junk, Value
<1>2. ASSUME NEW v \in Value, NEW i \in Rounds PROVE Plus(v, i) \in Value
  BY DEF Plus, Value
<1>3. ASSUME NEW v \in Value PROVE Clipped(v) \in Value
  BY DEF Clipped, Value
<1>4. ASSUME NEW vs \in SUBSET Value, vs # {} PROVE Average(vs) \in Value
  <2> DEFINE v == CHOOSE x \in vs : TRUE
  <2>1. v \in Value
    BY <1>4
  <2>2. JunkRound \notin v.loc => v.avg \cup v.loc \in SUBSET Rounds
    BY <2>1 DEF Value, JunkRound
  <2>3. JunkRound \notin v.loc => [v EXCEPT !.avg = @ \cup v.loc, !.loc = {}] \in Value
    <3> HIDE DEF v
    <3> QED BY <2>1, <2>2 DEF Value
  <2> QED BY <1>1, <2>3 DEF Average
<1> QED BY <1>1, <1>2, <1>3, <1>4

(* The rounds and updates of a run are bounded.                            *)
LEMMA Bounds ==
    ASSUME NEW c \in Config, NEW i \in Nat, i <= c.accum * Steps
    PROVE  /\ i \in Rounds \cup {0}
           /\ i \div c.accum \in 0..Steps
           /\ i # 0 => (i - 1) \div c.accum \in 0..Steps
<1>1. PICK a \in Nat \ {0} : a = c.accum /\ a <= MaxAccum
  BY CountsAssumption DEF Config
<1>2. Steps \in Nat /\ MaxAccum \in Nat
  BY CountsAssumption
<1>3. i \in Rounds \cup {0}
  <2>1. PICK d \in Nat : MaxAccum = a + d
    <3>1. MaxAccum - a \in Nat
      BY <1>1, <1>2
    <3> QED BY <1>2, <3>1
  <2>2. (a + d) * Steps = a * Steps + d * Steps /\ d * Steps \in Nat /\ a * Steps \in Nat
    BY <1>2
  <2> QED BY <1>1, <1>2, <2>1, <2>2 DEF Rounds
<1>4. \A j \in Nat : j <= a * Steps => j \div a \in 0..Steps
  <2> TAKE j \in Nat
  <2> HAVE j <= a * Steps
  <2>1. j \div a <= Steps /\ j \div a \in Nat
    BY <1>2, LastRounds
  <2> QED BY <1>2, <2>1
<1>5. i # 0 => i - 1 \in Nat /\ i - 1 <= a * Steps
  BY <1>1, <1>2
<1> QED BY <1>1, <1>3, <1>4, <1>5

LEMMA RankTypeNext ==
    ASSUME TypeOK, NEW r \in Ranks, LoopInv(r), LoopInv(r)', ParamInv(r)', RankStep(r)
    PROVE  RankType(r)'
<1>0. config' = config /\ config \in Config
  BY Frame, ConfigFacts
<1>1. RankType(r) /\ round[r] \in Nat
  BY RankTypes DEF RankType
<1>2. comm'[r] \in Seq(Collective)
  BY RankLoop
<1>3. round'[r] \in Nat =>
        /\ round'[r] \in Rounds \cup {0}
        /\ \A p \in Params : value'[r][p] \in Nat => value'[r][p] \in 0..Steps
  <2> SUFFICES ASSUME round'[r] \in Nat
               PROVE  /\ round'[r] \in Rounds \cup {0}
                      /\ \A p \in Params : value'[r][p] \in Nat => value'[r][p] \in 0..Steps
    OBVIOUS
  <2>1. round'[r] <= config.accum * Steps
    BY <1>0 DEF LoopInv
  <2>2. /\ round'[r] \in Rounds \cup {0}
        /\ round'[r] \div config.accum \in 0..Steps
        /\ round'[r] # 0 => (round'[r] - 1) \div config.accum \in 0..Steps
    BY <1>0, <2>1, Bounds
  <2>3. Updates(r)' \in 0..Steps
    BY <1>0, <2>2 DEF LoopInv, Updates, StepAt
  <2>4. \A u \in 0..Steps : \A v \in Nat : v = u - 0 \/ v = u - 1 => v \in 0..Steps
    BY CountsAssumption
  <2> QED BY <2>2, <2>3, <2>4 DEF ParamInv
<1>4. round'[r] \in Nat => round'[r] \in Rounds \cup {0}
  BY <1>3
<1>5. {"zero", "forward", "backward", "clip", "norm", "scale", "step", "update",
       "gathered", "done"} = Phases
  BY DEF Phases
<1>6. CASE \E setToNone \in BOOLEAN : ZeroGrad(r, setToNone)
  <2>1. PICK setToNone \in BOOLEAN : ZeroGrad(r, setToNone)
    BY <1>6
  <2>2. /\ phase'[r] = "forward" /\ round'[r] = round[r] + 1
        /\ full'[r] = IF Sharded \/ setToNone THEN full[r] ELSE [p \in Params |-> Zero]
        /\ needRebind'[r] = (IF Sharded THEN needRebind[r] ELSE setToNone)
        /\ bound'[r] = (bound[r] /\ ~setToNone)
        /\ withGrad'[r] = {} /\ works'[r] = {} /\ dispatched'[r] = {}
        /\ gathers'[r] = {} /\ temp'[r] = {}
        /\ ready'[r] = ready[r] /\ overwrite'[r] = overwrite[r] /\ shard'[r] = shard[r]
        /\ value'[r] = value[r]
    BY <2>1, ZeroGradEffect
  <2>3. full'[r] \in [Params -> Value]
    BY <1>1, <2>2, ValueTypes DEF RankType
  <2>4. round'[r] \in Nat
    BY <1>1, <2>2
  <2>5. needRebind'[r] \in BOOLEAN /\ bound'[r] \in BOOLEAN
    BY <1>1, <2>2 DEF RankType
  <2> QED BY <1>1, <1>2, <1>4, <1>5, <2>2, <2>3, <2>4, <2>5 DEF RankType
<1>7. CASE Forward(r)
  <2>1. /\ phase'[r] = "backward" 
        /\ bound'[r] = (bound[r] \/ (needRebind[r] /\ ~Sharded))
        /\ overwrite'[r] = IF needRebind[r] /\ ~Sharded THEN overwrite[r] \cup Params
                           ELSE overwrite[r]
        /\ needRebind'[r] = (needRebind[r] /\ Sharded)
        /\ ready'[r] = {} /\ round'[r] = round[r]
        /\ full'[r] = full[r] /\ shard'[r] = shard[r] /\ temp'[r] = temp[r]
        /\ withGrad'[r] = withGrad[r] /\ dispatched'[r] = dispatched[r]
        /\ works'[r] = works[r] /\ gathers'[r] = gathers[r] /\ value'[r] = value[r]
    BY <1>7, ForwardEffect
  <2>2. needRebind'[r] \in BOOLEAN /\ bound'[r] \in BOOLEAN
    BY <1>1, <2>1 DEF RankType
  <2> QED BY <1>1, <1>2, <1>5, <2>1, <2>2 DEF RankType
<1>8. CASE \E p \in Params : AccumulateGrad(r, p)
  <2>1. PICK p \in Params : AccumulateGrad(r, p)
    BY <1>8
  <2>2. /\ phase'[r] = "backward"
        /\ ready'[r] = ready[r] \cup {p} /\ overwrite'[r] = overwrite[r] \ {p}
        /\ temp'[r] = Allocated(r, p)
        /\ full'[r] = IF Sharded \/ bound[r]
                      THEN [Cleared(r, p) EXCEPT ![p] = Total(r, p)] ELSE full[r]
        /\ withGrad'[r] = WithGradAfter(r, Starts(r, p), Marked(r, p))
        /\ dispatched'[r] = dispatched[r] \cup Starts(r, p)
        /\ works'[r] = works[r] \cup Launches(r, p)
        /\ round'[r] = round[r] /\ bound'[r] = bound[r] /\ needRebind'[r] = needRebind[r]
        /\ shard'[r] = shard[r] /\ gathers'[r] = gathers[r] /\ value'[r] = value[r]
        /\ phase[r] = "backward"
    BY <2>1, AccumulateGradEffect
  <2>3. Starts(r, p) \in SUBSET GroupIds /\ GroupOf(p) \in GroupIds
    BY GroupFacts DEF Starts
  <2>4. Launches(r, p) \subseteq Starts(r, p) /\ Launches(r, p) \in SUBSET GroupIds
    BY <2>3, LaunchFacts DEF Launches
  <2>5. temp'[r] \in SUBSET GroupIds
    BY <1>1, <2>2, <2>3 DEF Allocated, RankType
  <2>6. withGrad'[r] \in SUBSET Params
    BY <1>1, <2>2 DEF Marked, WithGradAfter, RankType
  <2>7. Cleared(r, p) \in [Params -> Value]
    BY <1>1, ValueTypes DEF Cleared, RankType
  <2>8. Total(r, p) \in Value
    <3>1. round[r] \in Rounds
      BY <1>1, <2>2 DEF LoopInv, RankType
    <3>2. Cleared(r, p)[p] \in Value
      BY <2>7
    <3> QED BY <3>1, <3>2, ValueTypes DEF Total
  <2>9. full'[r] \in [Params -> Value]
    BY <1>1, <2>2, <2>7, <2>8 DEF RankType
  <2>10. /\ dispatched'[r] \in SUBSET GroupIds /\ works'[r] \in SUBSET GroupIds
         /\ works'[r] \subseteq dispatched'[r] /\ ready'[r] \in SUBSET Params
         /\ overwrite'[r] \in SUBSET Params
    BY <1>1, <2>2, <2>3, <2>4 DEF RankType
  <2> QED BY <1>1, <1>2, <1>5, <2>2, <2>5, <2>6, <2>9, <2>10 DEF RankType
<1>9. CASE BackwardReturns(r)
  <2>1. /\ phase'[r] = IF round[r] % config.accum # 0 THEN "forward"
                       ELSE IF config.clip THEN "clip" ELSE "step"
        /\ round'[r] = IF round[r] % config.accum # 0 THEN round[r] + 1 ELSE round[r]
        /\ ready'[r] = ready[r] /\ bound'[r] = bound[r] /\ needRebind'[r] = needRebind[r]
        /\ overwrite'[r] = overwrite[r] /\ full'[r] = full[r] /\ shard'[r] = shard[r]
        /\ temp'[r] = temp[r] /\ withGrad'[r] = withGrad[r]
        /\ dispatched'[r] = dispatched[r] /\ works'[r] = works[r]
        /\ gathers'[r] = gathers[r] /\ value'[r] = value[r]
    BY <1>9, BackwardReturnsEffect
  <2>2. round'[r] \in Nat /\ phase'[r] \in {"forward", "clip", "step"}
    BY <1>1, <2>1
  <2> QED BY <1>1, <1>2, <1>4, <1>5, <2>1, <2>2 DEF RankType
<1>10. CASE ClipFinishesGradSync(r) \/ StepFinishesGradSync(r)
  <2>1. /\ phase'[r] \in {"norm", "update"}
        /\ withGrad'[r] = WithGradAfter(r, GroupIds, withGrad[r])
        /\ temp'[r] = TempAfter(temp[r], works[r] \cup LastLaunches(r))
        /\ dispatched'[r] = {} /\ works'[r] = {}
        /\ round'[r] = round[r] /\ ready'[r] = ready[r] /\ bound'[r] = bound[r]
        /\ needRebind'[r] = needRebind[r] /\ overwrite'[r] = overwrite[r]
        /\ full'[r] = full[r] /\ shard'[r] = shard[r]
        /\ gathers'[r] = gathers[r] /\ value'[r] = value[r]
    BY <1>10, FinishEffect
  <2>2. withGrad'[r] \in SUBSET Params /\ temp'[r] \in SUBSET GroupIds
    BY <1>1, <2>1 DEF RankType, WithGradAfter, TempAfter
  <2> QED BY <1>1, <1>2, <1>5, <2>1, <2>2 DEF RankType
<1>11. CASE ClipReducesNorm(r)
  BY <1>1, <1>2, <1>5, <1>11, ClipReducesNormEffect DEF RankType
<1>12. CASE ScaleGradients(r)
  <2>1. /\ phase'[r] = "step"
        /\ shard'[r] = IF Sharded THEN Scaled(r, shard[r]) ELSE shard[r]
        /\ full'[r] = IF Sharded THEN full[r] ELSE Scaled(r, full[r])
        /\ round'[r] = round[r] /\ ready'[r] = ready[r]
        /\ bound'[r] = bound[r] /\ needRebind'[r] = needRebind[r]
        /\ overwrite'[r] = overwrite[r] /\ temp'[r] = temp[r] /\ withGrad'[r] = withGrad[r]
        /\ dispatched'[r] = dispatched[r] /\ works'[r] = works[r]
        /\ gathers'[r] = gathers[r] /\ value'[r] = value[r]
    BY <1>12, ScaleGradientsEffect
  <2>2. shard'[r] \in [Params -> Value] /\ full'[r] \in [Params -> Value]
    BY <1>1, <2>1, ValueTypes DEF RankType, Scaled
  <2> QED BY <1>1, <1>2, <1>5, <2>1, <2>2 DEF RankType
<1>13. CASE Update(r)
  <2>1. /\ phase'[r] = "gathered"
        /\ value'[r] = [p \in Params |-> IF p \in OwnedBy(r) THEN value[r][p] + 1
                                         ELSE value[r][p]]
        /\ gathers'[r] = IF config.gather THEN {} ELSE GroupIds
        /\ round'[r] = round[r] /\ ready'[r] = ready[r] /\ bound'[r] = bound[r]
        /\ needRebind'[r] = needRebind[r] /\ overwrite'[r] = overwrite[r]
        /\ full'[r] = full[r] /\ shard'[r] = shard[r]
        /\ temp'[r] = temp[r] /\ withGrad'[r] = withGrad[r]
        /\ dispatched'[r] = dispatched[r] /\ works'[r] = works[r]
    BY <1>13, UpdateEffect
  <2>2. \A p \in Params : value'[r][p] \in Nat
    BY <1>1, <2>1 DEF RankType
  <2>3. value'[r] \in [Params -> 0..Steps]
    <3>1. \A p \in Params : value'[r][p] \in 0..Steps
      BY <1>1, <1>3, <2>1, <2>2
    <3>2. value'[r] = [p \in Params |-> value'[r][p]]
      BY <2>1
    <3> QED BY <3>1, <3>2
  <2> QED BY <1>1, <1>2, <1>5, <2>1, <2>3 DEF RankType
<1>14. CASE ReduceLoss(r) \/ TrainingEnds(r)
  BY <1>1, <1>2, <1>5, <1>14, LastEffect DEF RankType
<1> QED BY <1>6, <1>7, <1>8, <1>9, <1>10, <1>11, <1>12, <1>13, <1>14 DEF RankStep

LEMMA InitType == Init => TypeOK
<1> SUFFICES ASSUME Init PROVE TypeOK
  OBVIOUS
<1>1. config \in Configs /\ engineOrder \in EngineOrders /\ PerRank
  BY DEF Init, PerRank
<1>2. ASSUME NEW r \in Ranks PROVE RankType(r)
  <2>1. Sharded \in BOOLEAN /\ <<>> \in Seq(Collective) /\ Junk \in Value
    BY ValueTypes DEF Sharded
  <2>2. 0 \in 0..Steps
    BY CountsAssumption
  <2> QED BY <2>1, <2>2 DEF Init, RankType, Phases
<1> QED BY <1>1, <1>2, TypesByRank DEF Typed

LEMMA NextType ==
    TypeOK /\ Loops /\ Loops' /\ ParamsInv' /\ [Next]_vars => TypeOK'
<1> SUFFICES ASSUME TypeOK, Loops, Loops', ParamsInv', [Next]_vars PROVE TypeOK'
  OBVIOUS
<1>1. ASSUME NEW r \in Ranks, RankStep(r) PROVE TypeOK'
  <2>1. /\ config' = config /\ engineOrder' = engineOrder
        /\ \A s \in Ranks \ {r} : Same(s)
    BY <1>1, Frame
  <2>2. PerRank'
    BY <1>1, PerRankNext
  <2>3. ASSUME NEW s \in Ranks PROVE RankType(s)'
    <3>1. CASE s = r
      BY <1>1, <3>1, RankTypeNext DEF Loops, ParamsInv
    <3>2. CASE s # r
      <4>1. Same(s) /\ RankType(s)
        BY <2>1, <3>2, RankTypes DEF RankType
      <4> QED BY <4>1 DEF Same, RankType
    <3> QED BY <3>1, <3>2
  <2>4. config' \in Configs /\ engineOrder' \in EngineOrders
    BY <2>1 DEF TypeOK
  <2> QED BY <2>2, <2>3, <2>4, TypesByRankNext DEF Typed
<1>2. CASE CollectiveCompletes
  <2>1. PICK c \in Collective : Completes(c)
    BY <1>2, CompletesEffect
  <2>2. config' \in Configs /\ engineOrder' \in EngineOrders
    BY <2>1 DEF TypeOK, Completes
  <2>3. comm' = [r \in Ranks |-> Tail(comm[r])]
    BY <1>2 DEF CollectiveCompletes
  <2>4. PerRank'
    <3>1. full' = [s \in Ranks |-> full'[s]] /\ shard' = [s \in Ranks |-> shard'[s]]
          /\ value' = [s \in Ranks |-> value'[s]]
      BY <2>1 DEF Completes, Gathered, Scattered, TypeOK
    <3> QED BY <2>1, <2>3, <3>1 DEF Completes, TypeOK, PerRank
  <2>5. ASSUME NEW r \in Ranks PROVE RankType(r)'
    <3>1. RankType(r)
      BY RankTypes DEF RankType
    <3>2. comm'[r] \in Seq(Collective)
      <4>1. comm[r] \in Seq(Collective) /\ comm[r] # <<>> /\ comm'[r] = Tail(comm[r])
        BY <2>1, RankTypes DEF Completes
      <4> QED BY <4>1, TailFacts
    <3>3. ASSUME NEW old \in [Ranks -> [Params -> Value]], NEW g
          PROVE  Scattered(old, g)[r] \in [Params -> Value]
      <4>1. ASSUME NEW p \in Params PROVE Average({full[s][p] : s \in Ranks}) \in Value
        <5>1. {full[s][p] : s \in Ranks} \in SUBSET Value /\ {full[s][p] : s \in Ranks} # {}
          BY DEF TypeOK
        <5> QED BY <5>1, ValueTypes
      <4> QED BY <4>1 DEF Scattered
    <3>4. full'[r] \in [Params -> Value] /\ shard'[r] \in [Params -> Value]
      BY <2>1, <3>1, <3>3 DEF Completes, TypeOK
    <3>5. ASSUME NEW g PROVE Gathered(g)[r] \in [Params -> 0..Steps]
      <4>1. \A p \in Params : Owner[p] \in Ranks
        BY GroupsAssumption
      <4> QED BY <4>1 DEF Gathered, TypeOK
    <3>6. value'[r] \in [Params -> 0..Steps]
      BY <2>1, <3>1, <3>5 DEF Completes, RankType
    <3> QED BY <2>1, <3>1, <3>2, <3>4, <3>6 DEF Completes, RankType
  <2> QED BY <2>2, <2>4, <2>5, TypesByRankNext DEF Typed
<1>3. CASE UNCHANGED vars
  BY <1>3 DEF vars, loopVars, bufVars, syncVars, TypeOK
<1> QED BY <1>1, <1>2, <1>3 DEF Next, Terminated

-----------------------------------------------------------------------------
(* What follows for every setting of a run.                                *)

IInv == TypeOK /\ Loops /\ History /\ ParamsInv

(***************************************************************************)
(* The inductive invariant: where a rank is in the loop bounds its rounds, *)
(* determines the kind of what is outstanding and, with the one history of *)
(* all ranks, the value of every parameter.                                *)
(***************************************************************************)
THEOREM Invariance == Spec => []IInv
<1>1. Init => IInv
  BY InitType, InitLoop, InitHistory, InitParams DEF IInv
<1>2. IInv /\ [Next]_vars => IInv'
  BY NextType, NextLoop, NextHistory, NextParams DEF IInv
<1> QED BY <1>1, <1>2, PTL DEF Spec

(***************************************************************************)
(* Variables keep their types; rounds and updates stay within the run.     *)
(***************************************************************************)
THEOREM TypeCorrect == Spec => []TypeOK
<1>1. IInv => TypeOK
  BY DEF IInv
<1> QED BY <1>1, Invariance, PTL

(***************************************************************************)
(* The k-th collectives outstanding on two ranks are always the same one,  *)
(* although groups launch as they become ready, and under any setting.     *)
(***************************************************************************)
THEOREM StreamsMatch == Spec => []CollectivesMatch
<1>1. IInv => CollectivesMatch
  BY HistoryMatches DEF IInv
<1> QED BY <1>1, Invariance, PTL

(***************************************************************************)
(* StartParamSync never finds works of an earlier gather in its list.      *)
(***************************************************************************)
THEOREM ChecksHold == Spec => []NoCheckFailure
<1>1. IInv => NoCheckFailure
  BY DEF IInv, Loops, LoopInv, NoCheckFailure
<1> QED BY <1>1, Invariance, PTL

(***************************************************************************)
(* A forward or backward pass finds every parameter, of whatever rank's    *)
(* shard, updated by all earlier optimizer steps and by no more.           *)
(***************************************************************************)
THEOREM ParamsGathered == Spec => []ParamsCurrent
<1>1. IInv => ParamsCurrent
  <2> SUFFICES ASSUME IInv, NEW r \in Ranks, phase[r] \in {"forward", "backward"},
                      NEW p \in Params
               PROVE  value[r][p] = (round[r] - 1) \div config.accum
    BY DEF ParamsCurrent
  <2>1. ~Lags(r, p) /\ Updates(r) = (round[r] - 1) \div config.accum
    BY DEF Lags, Updates, StepAt
  <2>2. /\ round[r] - 1 \in Nat /\ config.accum \in Nat \ {0}
    BY RankTypes, ConfigFacts DEF IInv, Loops, LoopInv
  <2>3. (round[r] - 1) \div config.accum \in Nat
    BY <2>2, Division
  <2>4. value[r][p] = Updates(r) - 0
    BY <2>1 DEF IInv, ParamsInv, ParamInv
  <2> QED BY <2>1, <2>3, <2>4
<1> QED BY <1>1, Invariance, PTL

-----------------------------------------------------------------------------
(* Gradients.  From here on the step is synchronised once.                 *)

LEMMA PriorFacts ==
    ASSUME NEW i \in Nat, config.accum \in Nat \ {0}
    PROVE  /\ i % config.accum = 0 => Prior(i + 1) = {}
           /\ i # 0 /\ i % config.accum # 0 => Prior(i + 1) = Prior(i) \cup {i}
           /\ i # 0 /\ i % config.accum = 0 => Prior(i) \cup {i} = RoundsOfStep(i)
<1>1. PICK a \in Nat \ {0}, m \in Nat, k \in Nat :
        a = config.accum /\ m = i % config.accum /\ (i # 0 => k = (i - 1) % config.accum)
  <2>1. \A x \in Nat, y \in Nat \ {0} : x % y \in Nat
    OBVIOUS
  <2>2. i % config.accum \in Nat /\ (i # 0 => (i - 1) % config.accum \in Nat)
    BY <2>1
  <2> QED BY <2>2
<1>2. Prior(i + 1) = (i + 1 - m)..i
  <2>1. (i + 1) - 1 = i
    OBVIOUS
  <2> QED BY <1>1, <2>1 DEF Prior
<1>3. m = 0 => (i + 1 - m)..i = {}
  OBVIOUS
<1>4. ASSUME i # 0
      PROVE  /\ m # 0 => (i + 1 - m)..i = Prior(i) \cup {i}
             /\ m = 0 => Prior(i) \cup {i} = RoundsOfStep(i)
  <2>1. /\ m \in 0..(a - 1) /\ k \in 0..(a - 1)
        /\ m = 0 => k = a - 1
        /\ m # 0 => m = k + 1
    <3>1. i \in Nat \ {0} /\ i - 1 \in Nat
      BY <1>4
    <3>2. i % a \in 0..(a - 1) /\ (i - 1) % a \in 0..(a - 1)
      BY <3>1, Division
    <3>3. (i % a = 0 => (i - 1) % a = a - 1) /\ (i % a # 0 => i % a = ((i - 1) % a) + 1)
      BY <3>1, NextRound, Zenon
    <3> QED BY <1>1, <1>4, <3>2, <3>3
  <2>2. k <= i - 1
    <3>1. \A x \in Nat, y \in Nat \ {0} : x % y <= x
      OBVIOUS
    <3>2. i - 1 \in Nat
      BY <1>4
    <3>3. (i - 1) % a <= i - 1
      BY <3>1, <3>2
    <3> QED BY <1>1, <1>4, <3>3
  <2>3. Prior(i) = (i - k)..(i - 1)
    BY <1>1, <1>4 DEF Prior
  <2>4. RoundsOfStep(i) = (i - a + 1)..i
    BY <1>1 DEF RoundsOfStep
  <2>5. m # 0 => (i + 1 - m)..i = (i - k)..(i - 1) \cup {i}
    BY <1>4, <2>1, <2>2
  <2>6. m = 0 => (i - k)..(i - 1) \cup {i} = (i - a + 1)..i
    BY <1>4, <2>1, <2>2
  <2> QED BY <2>3, <2>4, <2>5, <2>6
<1> QED BY <1>1, <1>2, <1>3, <1>4

LEMMA SumFacts ==
    /\ Sum({}) = Zero
    /\ \A S, i : Plus(Sum(S), i) = Sum(S \cup {i})
    /\ \A S \in SUBSET Nat : JunkRound \notin S => Average({Sum(S)}) = Mean(S, 0)
    /\ \A S : Clipped(Mean(S, 0)) = Mean(S, 1)
<1>1. Sum({}) = Zero
  BY DEF Sum, Zero
<1>2. ASSUME NEW S, NEW i PROVE Plus(Sum(S), i) = Sum(S \cup {i})
  BY DEF Plus, Sum
<1>3. ASSUME NEW S \in SUBSET Nat, JunkRound \notin S PROVE Average({Sum(S)}) = Mean(S, 0)
  <2>1. (CHOOSE x \in {Sum(S)} : TRUE) = Sum(S)
    OBVIOUS
  <2>2. JunkRound \notin Sum(S).loc
    BY <1>3 DEF Sum
  <2>3. Average({Sum(S)}) = [Sum(S) EXCEPT !.avg = @ \cup Sum(S).loc, !.loc = {}]
    BY <2>1, <2>2 DEF Average
  <2> QED BY <2>3, ZenonT(30) DEF Sum, Mean
<1>4. ASSUME NEW S PROVE Clipped(Mean(S, 0)) = Mean(S, 1)
  <2>1. Mean(S, 0).clipped = 0
    BY DEF Mean
  <2> QED BY <2>1 DEF Clipped, Mean
<1> QED BY <1>1, <1>2, <1>3, <1>4

(* With overlap a step has one round.                                      *)
LEMMA OneRound ==
    ASSUME NEW i \in Nat, config.accum = 1 PROVE i % config.accum = 0
<1>1. \A j \in Nat : j % 1 = 0
  OBVIOUS
<1> QED BY <1>1

Once ==
    /\ config.stage \in {1, 2} /\ config.overlap \in BOOLEAN /\ config.clip \in BOOLEAN
    /\ config.accum \in Nat \ {0}
    /\ config.overlap => config.accum = 1
    /\ config.clip => Sharded /\ config.overlap

LEMMA OnceFacts == TypeOK /\ SyncedOnce(config) => Once
BY ConfigFacts DEF SyncedOnce, Once, Sharded

LEMMA RankBinding ==
    ASSUME TypeOK, NEW r \in Ranks, BindingInv(r), RankStep(r)
    PROVE  BindingInv(r)'
<1>0. config' = config /\ (Sharded' <=> Sharded)
  BY Frame DEF Sharded
<1>1. overwrite[r] \in SUBSET Params /\ bound[r] \in BOOLEAN /\ needRebind[r] \in BOOLEAN
  BY RankTypes
<1>2. CASE \E setToNone \in BOOLEAN : ZeroGrad(r, setToNone)
  <2>1. PICK setToNone \in BOOLEAN : ZeroGrad(r, setToNone)
    BY <1>2
  <2>2. /\ phase[r] = "zero" /\ phase'[r] = "forward"
        /\ needRebind'[r] = (IF Sharded THEN needRebind[r] ELSE setToNone)
        /\ bound'[r] = (bound[r] /\ ~setToNone) /\ overwrite'[r] = overwrite[r]
    BY <2>1, ZeroGradEffect
  <2> QED BY <1>0, <1>1, <2>2 DEF BindingInv
<1>3. CASE Forward(r)
  <2>1. /\ phase[r] = "forward" /\ phase'[r] = "backward"
        /\ bound'[r] = (bound[r] \/ (needRebind[r] /\ ~Sharded))
        /\ overwrite'[r] = IF needRebind[r] /\ ~Sharded THEN overwrite[r] \cup Params
                           ELSE overwrite[r]
        /\ needRebind'[r] = (needRebind[r] /\ Sharded) /\ ready'[r] = {}
    BY <1>3, ForwardEffect
  <2> QED BY <1>0, <1>1, <2>1 DEF BindingInv
<1>4. CASE \E p \in Params : AccumulateGrad(r, p)
  <2>1. PICK p \in Params : AccumulateGrad(r, p)
    BY <1>4
  <2>2. /\ phase[r] = "backward" /\ phase'[r] = "backward"
        /\ ready'[r] = ready[r] \cup {p} /\ overwrite'[r] = overwrite[r] \ {p}
        /\ bound'[r] = bound[r] /\ needRebind'[r] = needRebind[r]
    BY <2>1, AccumulateGradEffect
  <2> QED BY <1>0, <1>1, <2>2 DEF BindingInv
<1>5. CASE BackwardReturns(r)
  <2>1. /\ phase[r] = "backward" /\ ready[r] = Params
        /\ phase'[r] \in {"forward", "clip", "step"}
        /\ ready'[r] = ready[r] /\ bound'[r] = bound[r] /\ needRebind'[r] = needRebind[r]
        /\ overwrite'[r] = overwrite[r]
    BY <1>5, BackwardReturnsEffect
  <2>2. overwrite[r] = {}
    BY <1>1, <2>1 DEF BindingInv
  <2> QED BY <1>0, <1>1, <2>1, <2>2 DEF BindingInv
<1>6. CASE ClipFinishesGradSync(r) \/ StepFinishesGradSync(r)
  <2>1. /\ phase[r] \in {"clip", "step"} /\ phase'[r] \in {"norm", "update"}
        /\ bound'[r] = bound[r] /\ needRebind'[r] = needRebind[r]
        /\ overwrite'[r] = overwrite[r]
    BY <1>6, FinishEffect
  <2> QED BY <1>0, <2>1 DEF BindingInv
<1>7. CASE ClipReducesNorm(r) \/ ScaleGradients(r) \/ Update(r)
  <2>1. /\ phase[r] \in {"norm", "scale", "update"} /\ phase'[r] \in {"scale", "step", "gathered"}
        /\ bound'[r] = bound[r] /\ needRebind'[r] = needRebind[r]
        /\ overwrite'[r] = overwrite[r]
    BY <1>7, ClipReducesNormEffect, ScaleGradientsEffect, UpdateEffect
  <2> QED BY <1>0, <2>1 DEF BindingInv
<1>8. CASE ReduceLoss(r) \/ TrainingEnds(r)
  <2>1. /\ phase[r] \in {"gathered", "zero"} /\ phase'[r] \in {"zero", "done"}
        /\ bound'[r] = bound[r] /\ needRebind'[r] = needRebind[r]
        /\ overwrite'[r] = overwrite[r]
    BY <1>8, LastEffect
  <2> QED BY <1>0, <2>1 DEF BindingInv
<1> QED BY <1>2, <1>3, <1>4, <1>5, <1>6, <1>7, <1>8 DEF RankStep

(* What the gradient of p starts: its group, if it is ready with it.       *)
LEMMA StartsFacts ==
    ASSUME TypeOK, Once, NEW r \in Ranks, GroupInv(r), phase[r] = "backward",
           NEW p \in Params, p \notin ready[r]
    PROVE  /\ GroupOf(p) \notin dispatched[r] /\ works[r] = dispatched[r]
           /\ Starts(r, p) = IF config.overlap /\ Groups[GroupOf(p)] \subseteq ready[r] \cup {p}
                             THEN {GroupOf(p)} ELSE {}
           /\ Launches(r, p) = Starts(r, p)
           /\ WithGradAfter(r, Starts(r, p), Marked(r, p)) =
                IF config.overlap
                THEN (ready[r] \cup {p}) \ ParamsOf(dispatched[r] \cup Starts(r, p)) ELSE {}
<1> DEFINE g == GroupOf(p)
<1>1. /\ g \in GroupIds /\ p \in Groups[g]
      /\ dispatched[r] \in SUBSET GroupIds /\ config.overlap \in BOOLEAN
  BY GroupFacts, RankTypes DEF Once
<1>2. /\ dispatched[r] = IF config.overlap THEN ReadyGroups(r) ELSE {}
      /\ works[r] = dispatched[r]
      /\ withGrad[r] = IF config.overlap THEN ready[r] \ ParamsOf(dispatched[r]) ELSE {}
  BY DEF GroupInv, BeforeFinish
<1>3. g \notin dispatched[r]
  BY <1>1, <1>2 DEF ReadyGroups
<1>4. \A q \in Groups[g] : q \notin ParamsOf(dispatched[r])
  <2> SUFFICES ASSUME NEW q \in Groups[g], NEW h \in dispatched[r], q \in Groups[h] PROVE FALSE
    BY DEF ParamsOf
  <2>1. g = h
    BY <1>1, GroupsAssumption
  <2> QED BY <1>3, <2>1
<1> HIDE DEF g
<1>5. config.overlap => (Groups[g] \subseteq Marked(r, p) <=> Groups[g] \subseteq ready[r] \cup {p})
  BY <1>2, <1>4 DEF Marked
<1>6. Starts(r, p) = IF config.overlap /\ Groups[g] \subseteq ready[r] \cup {p}
                     THEN {g} ELSE {}
  BY <1>5 DEF Starts, g
<1>7. Launches(r, p) = Starts(r, p)
  <2>1. \A h \in Starts(r, p) : h = g
    BY <1>6
  <2>2. g \in Allocated(r, p) \/ ~Sharded
    BY DEF Allocated, g
  <2> QED BY <1>2, <1>3, <2>1, <2>2 DEF Launches, Launching, Starting
<1>8. WithGradAfter(r, Starts(r, p), Marked(r, p)) = Marked(r, p) \ ParamsOf(Starts(r, p))
  <2>1. Starts(r, p) \cap dispatched[r] = {} /\ Starts(r, p) \cap works[r] = {}
    BY <1>2, <1>3, <1>6
  <2>2. (Starts(r, p) \ dispatched[r]) \ works[r] = Starts(r, p)
    BY <2>1
  <2> QED BY <2>2 DEF WithGradAfter, Starting
<1>9. ParamsOf(dispatched[r] \cup Starts(r, p)) = ParamsOf(dispatched[r]) \cup ParamsOf(Starts(r, p))
  BY DEF ParamsOf
<1>10. CASE config.overlap
  <2>1. Marked(r, p) = (ready[r] \cup {p}) \ ParamsOf(dispatched[r])
    BY <1>1, <1>2, <1>4, <1>10 DEF Marked
  <2> QED BY <1>2, <1>3, <1>6, <1>7, <1>8, <1>9, <1>10, <2>1 DEF g
<1>11. CASE ~config.overlap
  <2>1. Marked(r, p) = {} 
    BY <1>2, <1>11 DEF Marked
  <2> QED BY <1>2, <1>3, <1>6, <1>7, <1>8, <1>11, <2>1 DEF g
<1> QED BY <1>1, <1>10, <1>11

(* What FinishGradSync starts: everything, if nothing was started before.  *)
LEMMA LastLaunchesFacts ==
    ASSUME TypeOK, Once, NEW r \in Ranks, GroupInv(r), phase[r] \in {"clip", "step"},
           phase[r] = "clip" => config.clip
    PROVE  /\ LastLaunches(r) = IF BeforeFinish(r) THEN GroupIds \ dispatched[r] ELSE {}
           /\ BeforeFinish(r) => dispatched[r] = (IF config.overlap THEN GroupIds ELSE {})
           /\ phase[r] = "clip" => works[r] = GroupIds /\ temp[r] \in SUBSET GroupIds
<1>1. /\ ready[r] = Params /\ temp[r] \in SUBSET GroupIds /\ config.overlap \in BOOLEAN
      /\ config.clip \in BOOLEAN
  BY RankTypes DEF GroupInv, Once
<1>2. ReadyGroups(r) = GroupIds
  BY <1>1, GroupFacts DEF ReadyGroups
<1>3. CASE BeforeFinish(r)
  <2>1. dispatched[r] = (IF config.overlap THEN GroupIds ELSE {}) /\ works[r] = dispatched[r]
    BY <1>2, <1>3 DEF GroupInv
  <2>2. Sharded => temp[r] = GroupIds
    <3>1. Sharded => \A p \in Params : GroupOf(p) \in temp[r]
      BY <1>1, <1>3 DEF GroupInv
    <3>2. \A g \in GroupIds : \E p \in Params : GroupOf(p) = g
      BY GroupFacts
    <3> QED BY <1>1, <3>1, <3>2
  <2>3. LastLaunches(r) = GroupIds \ dispatched[r]
    BY <2>1, <2>2 DEF LastLaunches, Launching, Starting
  <2>4. phase[r] = "clip" => config.overlap
    BY DEF Once
  <2> QED BY <1>1, <1>3, <2>1, <2>3, <2>4
<1>4. CASE ~BeforeFinish(r)
  <2>1. phase[r] = "step" /\ config.clip
    BY <1>1, <1>4 DEF BeforeFinish
  <2>2. temp[r] = {} /\ Sharded
    BY <2>1 DEF GroupInv, ClipFinished, Once
  <2>3. LastLaunches(r) = {}
    BY <2>2 DEF LastLaunches, Launching
  <2> QED BY <1>4, <2>1, <2>3
<1> QED BY <1>3, <1>4

LEMMA RankGroups ==
    ASSUME TypeOK, Once, NEW r \in Ranks, LoopInv(r), GroupInv(r), RankStep(r)
    PROVE  GroupInv(r)'
<1>0. config' = config /\ (Sharded' <=> Sharded)
  BY Frame DEF Sharded
<1>1. /\ ready[r] \in SUBSET Params /\ temp[r] \in SUBSET GroupIds
      /\ dispatched[r] \in SUBSET GroupIds /\ config.overlap \in BOOLEAN /\ config.clip \in BOOLEAN
      /\ round[r] \in Nat
  BY RankTypes DEF Once
<1>2. CASE \E setToNone \in BOOLEAN : ZeroGrad(r, setToNone)
  <2>1. /\ phase'[r] = "forward" /\ withGrad'[r] = {} /\ works'[r] = {} /\ dispatched'[r] = {}
    BY <1>2, ZeroGradEffect
  <2> QED BY <1>0, <2>1 DEF GroupInv, BeforeFinish, ClipFinished
<1>3. CASE Forward(r)
  <2>1. /\ phase[r] = "forward" /\ phase'[r] = "backward" /\ ready'[r] = {}
        /\ withGrad'[r] = withGrad[r] /\ dispatched'[r] = dispatched[r] /\ works'[r] = works[r]
        /\ temp'[r] = temp[r]
    BY <1>3, ForwardEffect
  <2>2. withGrad[r] = {} /\ dispatched[r] = {} /\ works[r] = {}
    BY <2>1 DEF GroupInv
  <2>3. ReadyGroups(r)' = {}
    BY <2>1, GroupFacts DEF ReadyGroups
  <2> QED BY <1>0, <2>1, <2>2, <2>3 DEF GroupInv, BeforeFinish, ClipFinished
<1>4. CASE \E p \in Params : AccumulateGrad(r, p)
  <2>1. PICK p \in Params : AccumulateGrad(r, p)
    BY <1>4
  <2>2. /\ phase[r] = "backward" /\ phase'[r] = "backward" /\ p \notin ready[r]
        /\ ready'[r] = ready[r] \cup {p} /\ temp'[r] = Allocated(r, p)
        /\ withGrad'[r] = WithGradAfter(r, Starts(r, p), Marked(r, p))
        /\ dispatched'[r] = dispatched[r] \cup Starts(r, p)
        /\ works'[r] = works[r] \cup Launches(r, p)
    BY <2>1, AccumulateGradEffect
  <2>3. /\ GroupOf(p) \notin dispatched[r] /\ works[r] = dispatched[r]
        /\ Starts(r, p) = IF config.overlap /\ Groups[GroupOf(p)] \subseteq ready[r] \cup {p}
                          THEN {GroupOf(p)} ELSE {}
        /\ Launches(r, p) = Starts(r, p)
        /\ withGrad'[r] = IF config.overlap THEN ready'[r] \ ParamsOf(dispatched'[r]) ELSE {}
    BY <2>2, StartsFacts, SMTT(20)
  <2>4. /\ dispatched[r] = (IF config.overlap THEN ReadyGroups(r) ELSE {})
        /\ Sharded => \A q \in ready[r] : GroupOf(q) \in temp[r]
    BY <2>2 DEF GroupInv, BeforeFinish
  <2>5. config.overlap => ReadyGroups(r)' = ReadyGroups(r) \cup Starts(r, p)
    <3>1. ASSUME NEW g \in GroupIds, g # GroupOf(p)
          PROVE  Groups[g] \subseteq ready[r] \cup {p} <=> Groups[g] \subseteq ready[r]
      BY <3>1, GroupFacts
    <3>2. GroupOf(p) \in GroupIds /\ p \in Groups[GroupOf(p)]
      BY GroupFacts
    <3> QED BY <2>2, <2>3, <3>1, <3>2 DEF ReadyGroups
  <2>6. Sharded => \A q \in ready'[r] : GroupOf(q) \in temp'[r]
    BY <2>2, <2>4 DEF Allocated
  <2> QED BY <1>0, <2>2, <2>3, <2>4, <2>5, <2>6 DEF GroupInv, BeforeFinish, ClipFinished
<1>5. CASE BackwardReturns(r)
  <2>1. /\ phase[r] = "backward" /\ ready[r] = Params
        /\ phase'[r] = IF round[r] % config.accum # 0 THEN "forward"
                       ELSE IF config.clip THEN "clip" ELSE "step"
        /\ ready'[r] = ready[r] /\ temp'[r] = temp[r] /\ withGrad'[r] = withGrad[r]
        /\ dispatched'[r] = dispatched[r] /\ works'[r] = works[r]
    BY <1>5, BackwardReturnsEffect
  <2>2. ReadyGroups(r)' = ReadyGroups(r)
    BY <2>1 DEF ReadyGroups
  <2>3. CASE round[r] % config.accum # 0
    <3>1. ~config.overlap
      BY <1>1, <2>3, OneRound DEF Once
    <3> QED BY <1>0, <2>1, <2>3, <3>1 DEF GroupInv, BeforeFinish, ClipFinished
  <2>4. CASE round[r] % config.accum = 0
    BY <1>0, <1>1, <2>1, <2>2, <2>4 DEF GroupInv, BeforeFinish, ClipFinished
  <2> QED BY <2>3, <2>4
<1>6. CASE ClipFinishesGradSync(r) \/ StepFinishesGradSync(r)
  <2>1. /\ \/ phase[r] = "clip" /\ phase'[r] = "norm"
           \/ phase[r] = "step" /\ phase'[r] = "update"
        /\ temp'[r] = TempAfter(temp[r], works[r] \cup LastLaunches(r))
        /\ dispatched'[r] = {} /\ works'[r] = {} /\ ready'[r] = ready[r]
    BY <1>6, FinishEffect
  <2>2. phase[r] = "clip" => temp'[r] = {}
    <3> SUFFICES ASSUME phase[r] = "clip" PROVE temp'[r] = {}
      OBVIOUS
    <3>1. config.clip /\ config.overlap
      BY DEF LoopInv, Once
    <3>2. works[r] = GroupIds
      BY <2>1, <3>1, LastLaunchesFacts
    <3> QED BY <1>1, <2>1, <3>1, <3>2 DEF TempAfter
  <2> QED BY <1>0, <2>1, <2>2 DEF GroupInv, BeforeFinish, ClipFinished
<1>7. CASE ClipReducesNorm(r) \/ ScaleGradients(r)
  <2>1. /\ \/ phase[r] = "norm" /\ phase'[r] = "scale"
           \/ phase[r] = "scale" /\ phase'[r] = "step"
        /\ ready'[r] = ready[r] /\ temp'[r] = temp[r] /\ withGrad'[r] = withGrad[r]
        /\ dispatched'[r] = dispatched[r] /\ works'[r] = works[r]
    BY <1>7, ClipReducesNormEffect, ScaleGradientsEffect
  <2>2. config.clip /\ ClipFinished(r)
    BY <2>1 DEF LoopInv, ClipFinished
  <2> QED BY <1>0, <2>1, <2>2 DEF GroupInv, BeforeFinish, ClipFinished
<1>8. CASE Update(r)
  <2>1. phase'[r] = "gathered"
    BY <1>8, UpdateEffect
  <2> QED BY <2>1 DEF GroupInv, BeforeFinish, ClipFinished
<1>9. CASE ReduceLoss(r) \/ TrainingEnds(r)
  <2>1. phase'[r] \in {"zero", "done"}
    BY <1>9, LastEffect
  <2> QED BY <2>1 DEF GroupInv, BeforeFinish, ClipFinished
<1> QED BY <1>2, <1>3, <1>4, <1>5, <1>6, <1>7, <1>8, <1>9 DEF RankStep

(* A step that leaves the gradient of p as it was, and its group.          *)
LEMMA GradUnchanged ==
    ASSUME config' = config, NEW r \in Ranks, NEW p \in Params, GradOf(r, p),
           round'[r] = round[r], full'[r][p] = full[r][p], shard'[r][p] = shard[r][p],
           (GroupOf(p) \in Launched(r))' <=> GroupOf(p) \in Launched(r),
           InFlight(r, p)' <=> InFlight(r, p),
           GroupOf(p) \notin Launched(r) =>
               Current(r, p)' = Current(r, p) /\ SummedRounds(r, p)' = SummedRounds(r, p),
           config.clip => (phase'[r] \in {"step", "update"} <=> phase[r] \in {"step", "update"})
    PROVE  GradOf(r, p)'
<1>1. PieceGrad(r, p)' = PieceGrad(r, p) /\ RoundsOfStep(round[r])' = RoundsOfStep(round[r])
  BY DEF PieceGrad, Sharded, RoundsOfStep
<1>2. (IF config.clip /\ phase[r] \in {"step", "update"} THEN 1 ELSE 0)' =
      (IF config.clip /\ phase[r] \in {"step", "update"} THEN 1 ELSE 0)
  OBVIOUS
<1> HIDE DEF Launched, InFlight, Current, SummedRounds, PieceGrad
<1> QED BY <1>1, <1>2 DEF GradOf

(* Issuing reductions.                                                     *)
LEMMA IssueInFlight ==
    ASSUME TypeOK, NEW r \in Ranks, NEW gs \in SUBSET GroupIds,
           comm'[r] = comm[r] \o InGroupOrder(Reduce, gs),
           NEW p \in Params
    PROVE  InFlight(r, p)' <=> InFlight(r, p) \/ GroupOf(p) \in gs
<1>1. /\ InGroupOrder(Reduce, gs) \in Seq(Collective)
      /\ Range(InGroupOrder(Reduce, gs)) = {Reduce(g) : g \in gs}
  BY IssueFacts DEF OnePerGroup, Reduce
<1>2. comm[r] \in Seq(Collective)
  BY RankTypes
<1>3. Range(comm'[r]) = Range(comm[r]) \cup {Reduce(g) : g \in gs}
  BY <1>1, <1>2, Concatenation
<1>4. \A g, h : Reduce(g) = Reduce(h) => g = h
  BY DEF Reduce
<1>5. Reduce(GroupOf(p)) \in {Reduce(g) : g \in gs} <=> GroupOf(p) \in gs
  BY <1>4
<1> QED BY <1>3, <1>5 DEF InFlight, Outstanding

LEMMA NothingInFlight ==
    ASSUME NEW r, comm[r] = <<>>, NEW p PROVE ~InFlight(r, p)
BY Emptiness DEF InFlight, Outstanding

(* A step begins with gradients of nothing.                                *)
LEMMA ZeroGradGrads ==
    ASSUME TypeOK, Once, NEW r \in Ranks, LoopInv(r), BindingInv(r),
           NEW setToNone \in BOOLEAN, ZeroGrad(r, setToNone)
    PROVE  GradInv(r)'
<1>1. /\ phase[r] = "zero" /\ phase'[r] = "forward" /\ Waited(r, "loss")
      /\ round'[r] = round[r] + 1
      /\ full'[r] = IF Sharded \/ setToNone THEN full[r] ELSE [p \in Params |-> Zero]
      /\ needRebind'[r] = (IF Sharded THEN needRebind[r] ELSE setToNone)
      /\ overwrite'[r] = overwrite[r] /\ temp'[r] = {} /\ comm'[r] = comm[r]
  BY ZeroGradEffect
<1>2. config' = config /\ RankStep(r) /\ (Sharded' <=> Sharded)
  <2>1. RankStep(r)
    BY DEF RankStep
  <2> QED BY <2>1, Frame DEF Sharded
<1>3. comm'[r] = <<>>
  BY <1>1, WaitedForAll, Kinds
<1>4. round[r] \in Nat /\ round[r] % config.accum = 0 /\ config.accum \in Nat \ {0}
  BY <1>1, RankTypes DEF LoopInv, Once
<1>5. Prior(round[r] + 1) = {}
  BY <1>4, PriorFacts
<1>6. ASSUME NEW p \in Params PROVE GradOf(r, p)'
  <2>1. Current(r, p)' = Zero
    <3>1. overwrite'[r] = {}
      BY <1>1 DEF BindingInv
    <3> QED BY <1>1, <1>2, <3>1 DEF Current
  <2>2. SummedRounds(r, p)' = {}
    BY <1>1, <1>2, <1>5 DEF SummedRounds, Prior
  <2>3. Launched(r)' = {} /\ ~InFlight(r, p)'
    <3>1. ~InFlight(r, p)'
      BY <1>3, Emptiness DEF InFlight, Outstanding
    <3> QED BY <1>1, <3>1 DEF Launched
  <2> QED BY <2>1, <2>2, <2>3, SumFacts DEF GradOf
<1> QED BY <1>1, <1>6 DEF GradInv

LEMMA ForwardGrads ==
    ASSUME TypeOK, Once, NEW r \in Ranks, LoopInv(r), BindingInv(r), GroupInv(r), GradInv(r),
           Forward(r)
    PROVE  GradInv(r)'
<1>1. /\ phase[r] = "forward" /\ phase'[r] = "backward"
      /\ overwrite'[r] = IF needRebind[r] /\ ~Sharded THEN overwrite[r] \cup Params
                         ELSE overwrite[r]
      /\ needRebind'[r] = (needRebind[r] /\ Sharded)
      /\ ready'[r] = {} /\ round'[r] = round[r]
      /\ full'[r] = full[r] /\ shard'[r] = shard[r] /\ temp'[r] = temp[r]
      /\ dispatched'[r] = dispatched[r] /\ comm'[r] = comm[r]
  BY ForwardEffect
<1>2. config' = config /\ (Sharded' <=> Sharded)
  <2>1. RankStep(r)
    BY DEF RankStep
  <2> QED BY <2>1, Frame DEF Sharded
<1>3. ASSUME NEW p \in Params PROVE GradOf(r, p)'
  <2>1. GradOf(r, p)
    BY <1>1 DEF GradInv, InStep
  <2>2. Launched(r) = {} /\ Launched(r)' = {}
    BY <1>1 DEF Launched, BeforeFinish, GroupInv
  <2>3. InFlight(r, p)' <=> InFlight(r, p)
    BY <1>1 DEF InFlight, Outstanding
  <2>4. Current(r, p)' = Current(r, p)
    BY <1>1, <1>2 DEF Current
  <2>5. SummedRounds(r, p)' = SummedRounds(r, p)
    BY <1>1, <1>2 DEF SummedRounds, Prior
  <2> QED BY <1>1, <1>2, <2>1, <2>2, <2>3, <2>4, <2>5, GradUnchanged
<1> QED BY <1>1, <1>3 DEF GradInv

LEMMA BackwardReturnsGrads ==
    ASSUME TypeOK, Once, NEW r \in Ranks, LoopInv(r), GroupInv(r), GradInv(r),
           BackwardReturns(r)
    PROVE  GradInv(r)'
<1>1. /\ phase[r] = "backward" /\ ready[r] = Params
      /\ phase'[r] = IF round[r] % config.accum # 0 THEN "forward"
                     ELSE IF config.clip THEN "clip" ELSE "step"
      /\ round'[r] = IF round[r] % config.accum # 0 THEN round[r] + 1 ELSE round[r]
      /\ ready'[r] = ready[r] /\ needRebind'[r] = needRebind[r]
      /\ overwrite'[r] = overwrite[r] /\ full'[r] = full[r] /\ shard'[r] = shard[r]
      /\ temp'[r] = temp[r] /\ dispatched'[r] = dispatched[r] /\ comm'[r] = comm[r]
  BY BackwardReturnsEffect
<1>2. config' = config /\ (Sharded' <=> Sharded) /\ config.clip \in BOOLEAN
  <2>1. RankStep(r)
    BY DEF RankStep
  <2> QED BY <2>1, Frame DEF Sharded, Once
<1>3. round[r] \in Nat \ {0} /\ config.accum \in Nat \ {0}
  BY <1>1, RankTypes DEF LoopInv, Once
<1>4. ASSUME NEW p \in Params PROVE GradOf(r, p)'
  <2>1. GradOf(r, p)
    BY <1>1 DEF GradInv, InStep
  <2>2. Launched(r) = dispatched[r]
    BY <1>1 DEF Launched, BeforeFinish
  <2>3. InFlight(r, p)' <=> InFlight(r, p)
    BY <1>1 DEF InFlight, Outstanding
  <2>4. Current(r, p)' = Current(r, p)
    BY <1>1, <1>2 DEF Current
  <2>5. SummedRounds(r, p) = Prior(round[r]) \cup {round[r]}
    BY <1>1 DEF SummedRounds
  <2>6. CASE round[r] % config.accum # 0
    <3>1. dispatched[r] = {}
      <4>1. ~config.overlap
        BY <1>3, <2>6, OneRound DEF Once
      <4> QED BY <1>1, <4>1 DEF GroupInv, BeforeFinish
    <3>2. Launched(r)' = {} /\ phase'[r] = "forward"
      BY <1>1, <2>6 DEF Launched
    <3>3. Prior(round[r] + 1) = Prior(round[r]) \cup {round[r]}
      BY <1>3, <2>6, PriorFacts
    <3>4. SummedRounds(r, p)' = SummedRounds(r, p)
      BY <1>1, <1>2, <2>5, <2>6, <3>2, <3>3 DEF SummedRounds, Prior
    <3>5. ~InFlight(r, p) /\ Current(r, p) = Sum(SummedRounds(r, p))
      BY <2>1, <2>2, <3>1 DEF GradOf
    <3> QED BY <2>3, <2>4, <3>2, <3>4, <3>5 DEF GradOf
  <2>7. CASE round[r] % config.accum = 0
    <3>1. phase'[r] = (IF config.clip THEN "clip" ELSE "step") /\ round'[r] = round[r]
      BY <1>1, <2>7
    <3>2. Launched(r)' = dispatched[r]
      BY <1>1, <1>2, <3>1 DEF Launched, BeforeFinish
    <3>3. SummedRounds(r, p)' = SummedRounds(r, p)
      BY <1>1, <1>2, <2>5, <3>1 DEF SummedRounds, Prior
    <3>4. config.clip => (phase'[r] \in {"step", "update"} <=> phase[r] \in {"step", "update"})
      BY <1>1, <3>1
    <3> QED BY <1>1, <1>2, <2>1, <2>2, <2>3, <2>4, <3>1, <3>2, <3>3, <3>4, GradUnchanged
  <2> QED BY <2>6, <2>7
<1>5. config'.clip => phase'[r] \notin {"step", "update"}
  BY <1>1, <1>2
<1> QED BY <1>4, <1>5 DEF GradInv

(* AccumulateGrad adds the round to the gradient of p and changes no other *)
(* gradient; those of p's group that are ready are in the buffer.          *)
LEMMA AccumulatedValues ==
    ASSUME TypeOK, Once, NEW r \in Ranks, BindingInv(r), GroupInv(r),
           NEW p \in Params, AccumulateGrad(r, p), NEW q \in Params
    PROVE  /\ Current(r, q)' = IF q = p THEN Plus(Current(r, p), round[r]) ELSE Current(r, q)
           /\ GroupOf(q) # GroupOf(p) => full'[r][q] = full[r][q]
           /\ q \in ready'[r] => full'[r][q] = Current(r, q)'
<1>0. config' = config /\ (Sharded' <=> Sharded)
  <2>1. RankStep(r)
    BY DEF RankStep
  <2> QED BY <2>1, Frame DEF Sharded
<1>1. /\ phase[r] = "backward" /\ phase'[r] = "backward" /\ p \notin ready[r]
      /\ ready'[r] = ready[r] \cup {p} /\ overwrite'[r] = overwrite[r] \ {p}
      /\ temp'[r] = Allocated(r, p)
      /\ full'[r] = IF Sharded \/ bound[r]
                    THEN [Cleared(r, p) EXCEPT ![p] = Total(r, p)] ELSE full[r]
      /\ needRebind'[r] = needRebind[r]
  BY AccumulateGradEffect
<1>2. /\ GroupOf(p) \in GroupIds /\ p \in Groups[GroupOf(p)]
      /\ q \in Groups[GroupOf(p)] <=> GroupOf(q) = GroupOf(p)
  BY GroupFacts
<1>3. /\ Sharded => overwrite[r] = {}
      /\ ~Sharded => bound[r] /\ ~needRebind[r]
      /\ overwrite[r] \cap ready[r] = {}
      /\ Sharded => \A x \in ready[r] : GroupOf(x) \in temp[r]
  BY <1>1 DEF BindingInv, GroupInv, BeforeFinish
<1>4. full'[r] = [Cleared(r, p) EXCEPT ![p] = Total(r, p)]
  BY <1>1, <1>3
<1>5. Cleared(r, p)[q] = IF Sharded /\ GroupOf(p) \notin temp[r] /\ GroupOf(q) = GroupOf(p)
                         THEN Zero ELSE full[r][q]
  BY <1>2 DEF Cleared, Allocated
<1>6. /\ Cleared(r, p)[p] = IF Sharded /\ GroupOf(p) \notin temp[r] THEN Zero ELSE full[r][p]
      /\ Total(r, p) = Plus(IF p \in overwrite[r] THEN Zero ELSE Cleared(r, p)[p], round[r])
  BY <1>2 DEF Cleared, Allocated, Total
<1>7. full'[r][q] = IF q = p THEN Total(r, p) ELSE Cleared(r, p)[q]
  BY <1>4 DEF Cleared
<1>8. Total(r, p) = Plus(Current(r, p), round[r])
  BY <1>3, <1>6 DEF Current
<1>9. CASE Sharded
  <2>1. temp'[r] = temp[r] \cup {GroupOf(p)}
    BY <1>1, <1>9 DEF Allocated
  <2>2. Current(r, q)' = IF GroupOf(q) \in temp'[r] THEN full'[r][q] ELSE Zero
    BY <1>0, <1>9 DEF Current
  <2>3. Current(r, q) = IF GroupOf(q) \in temp[r] THEN full[r][q] ELSE Zero
    BY <1>9 DEF Current
  <2>4. q \in ready'[r] => GroupOf(q) \in temp'[r]
    BY <1>1, <1>3, <1>9, <2>1
  <2> HIDE DEF Current
  <2> QED BY <1>5, <1>7, <1>8, <1>9, <2>1, <2>2, <2>3, <2>4
<1>10. CASE ~Sharded
  <2>1. Current(r, q)' = IF q \in overwrite'[r] THEN Zero ELSE full'[r][q]
    BY <1>0, <1>1, <1>3, <1>10 DEF Current
  <2>2. Current(r, q) = IF q \in overwrite[r] THEN Zero ELSE full[r][q]
    BY <1>3, <1>10 DEF Current
  <2>3. q \in ready'[r] => q \notin overwrite'[r]
    BY <1>1, <1>3
  <2> HIDE DEF Current
  <2> QED BY <1>1, <1>5, <1>7, <1>8, <1>10, <2>1, <2>2, <2>3
<1> QED BY <1>9, <1>10

LEMMA AccumulateGrads ==
    ASSUME TypeOK, Once, NEW r \in Ranks, LoopInv(r), BindingInv(r), GroupInv(r), GradInv(r),
           NEW p \in Params, AccumulateGrad(r, p)
    PROVE  GradInv(r)'
<1>0. config' = config /\ (Sharded' <=> Sharded)
  <2>1. RankStep(r)
    BY DEF RankStep
  <2> QED BY <2>1, Frame DEF Sharded
<1>1. /\ phase[r] = "backward" /\ phase'[r] = "backward" /\ p \notin ready[r]
      /\ ready'[r] = ready[r] \cup {p}
      /\ dispatched'[r] = dispatched[r] \cup Starts(r, p)
      /\ comm'[r] = comm[r] \o InGroupOrder(Reduce, Launches(r, p))
      /\ round'[r] = round[r] /\ shard'[r] = shard[r]
  BY AccumulateGradEffect
<1>2. /\ GroupOf(p) \notin dispatched[r]
      /\ Starts(r, p) = IF config.overlap /\ Groups[GroupOf(p)] \subseteq ready[r] \cup {p}
                        THEN {GroupOf(p)} ELSE {}
      /\ Launches(r, p) = Starts(r, p)
  BY <1>1, StartsFacts
<1>3. Launched(r) = dispatched[r] /\ Launched(r)' = dispatched'[r]
  BY <1>1 DEF Launched, BeforeFinish
<1>4. ASSUME NEW q \in Params PROVE InFlight(r, q)' <=> InFlight(r, q) \/ GroupOf(q) \in Starts(r, p)
  <2>1. Starts(r, p) \in SUBSET GroupIds
    BY <1>2, GroupFacts
  <2> QED BY <1>1, <1>2, <2>1, IssueInFlight
<1>5. round[r] \in Nat \ {0} /\ config.accum \in Nat \ {0}
  BY <1>1, RankTypes DEF LoopInv, Once
<1>6. ASSUME NEW q \in Params PROVE GradOf(r, q)'
  <2>1. GradOf(r, q)
    BY <1>1 DEF GradInv, InStep
  <2>2. /\ Current(r, q)' = IF q = p THEN Plus(Current(r, p), round[r]) ELSE Current(r, q)
        /\ GroupOf(q) # GroupOf(p) => full'[r][q] = full[r][q]
        /\ q \in ready'[r] => full'[r][q] = Current(r, q)'
    BY AccumulatedValues
  <2>3. /\ SummedRounds(r, q) = IF q \in ready[r] THEN Prior(round[r]) \cup {round[r]}
                                ELSE Prior(round[r])
        /\ SummedRounds(r, q)' = IF q \in ready'[r] THEN Prior(round[r]) \cup {round[r]}
                                 ELSE Prior(round[r])
    BY <1>0, <1>1 DEF SummedRounds, Prior
  <2>4. CASE GroupOf(q) # GroupOf(p)
    <3>1. q # p /\ (GroupOf(q) \in Starts(r, p) => FALSE)
      BY <1>2, <2>4
    <3>2. SummedRounds(r, q)' = SummedRounds(r, q)
      BY <1>1, <2>3, <3>1
    <3>3. InFlight(r, q)' <=> InFlight(r, q)
      BY <1>4, <3>1
    <3>4. GroupOf(q) \in Launched(r)' <=> GroupOf(q) \in Launched(r)
      BY <1>1, <1>3, <3>1
    <3>5. Current(r, q)' = Current(r, q) /\ full'[r][q] = full[r][q]
      BY <2>2, <2>4, <3>1
    <3>6. phase'[r] \in {"step", "update"} <=> phase[r] \in {"step", "update"}
      BY <1>1
    <3>7. (GroupOf(q) \in Launched(r))' <=> GroupOf(q) \in Launched(r)
      BY <3>4
    <3> QED BY <1>0, <1>1, <2>1, <3>2, <3>3, <3>5, <3>6, <3>7, GradUnchanged
  <2>5. CASE GroupOf(q) = GroupOf(p)
    <3>1. ~InFlight(r, q) /\ Current(r, q) = Sum(SummedRounds(r, q))
      BY <1>2, <1>3, <2>1, <2>5 DEF GradOf
    <3>2. Current(r, q)' = Sum(SummedRounds(r, q)')
      <4>1. CASE q = p
        <5>1. SummedRounds(r, q) = Prior(round[r]) /\ SummedRounds(r, q)' = Prior(round[r]) \cup {round[r]}
          BY <1>1, <2>3, <4>1
        <5>2. Plus(Sum(Prior(round[r])), round[r]) = Sum(Prior(round[r]) \cup {round[r]})
          BY SumFacts
        <5> QED BY <2>2, <3>1, <4>1, <5>1, <5>2
      <4>2. CASE q # p
        <5>1. SummedRounds(r, q)' = SummedRounds(r, q)
          BY <1>1, <2>3, <4>2
        <5> QED BY <2>2, <3>1, <4>2, <5>1
      <4> QED BY <4>1, <4>2
    <3>3. CASE Starts(r, p) = {}
      <4>1. GroupOf(q) \notin Launched(r)' /\ ~InFlight(r, q)'
        BY <1>1, <1>2, <1>3, <1>4, <2>5, <3>1, <3>3
      <4> QED BY <3>2, <4>1 DEF GradOf
    <3>4. CASE Starts(r, p) # {}
      <4>1. Starts(r, p) = {GroupOf(p)} /\ config.overlap /\ Groups[GroupOf(p)] \subseteq ready'[r]
        BY <1>1, <1>2, <3>4
      <4>2. InFlight(r, q)' /\ GroupOf(q) \in Launched(r)'
        BY <1>1, <1>3, <1>4, <2>5, <4>1
      <4>3. q \in ready'[r]
        BY <2>5, <4>1, GroupFacts
      <4>4. Prior(round[r]) \cup {round[r]} = RoundsOfStep(round[r])
        <5>1. round[r] % config.accum = 0
          BY <1>5, <4>1, OneRound DEF Once
        <5> QED BY <1>5, <5>1, PriorFacts
      <4>5. full'[r][q] = Sum(RoundsOfStep(round[r]))
        BY <2>2, <2>3, <3>2, <4>3, <4>4
      <4>6. RoundsOfStep(round[r])' = RoundsOfStep(round[r])
        BY <1>0, <1>1 DEF RoundsOfStep
      <4> QED BY <4>2, <4>5, <4>6 DEF GradOf
    <3> QED BY <3>3, <3>4
  <2> QED BY <2>4, <2>5
<1> QED BY <1>1, <1>6 DEF GradInv

(* FinishGradSync: what was not launched is now in flight.                 *)
LEMMA FinishGrads ==
    ASSUME TypeOK, Once, NEW r \in Ranks, LoopInv(r), BindingInv(r), GroupInv(r), GradInv(r),
           ClipFinishesGradSync(r) \/ StepFinishesGradSync(r)
    PROVE  GradInv(r)'
<1>0. config' = config /\ (Sharded' <=> Sharded) /\ config.clip \in BOOLEAN
  <2>1. RankStep(r)
    BY DEF RankStep
  <2> QED BY <2>1, Frame DEF Sharded, Once
<1>1. /\ \/ phase[r] = "clip" /\ phase'[r] = "norm"
         \/ phase[r] = "step" /\ phase'[r] = "update"
      /\ comm'[r] = comm[r] \o InGroupOrder(Reduce, LastLaunches(r))
      /\ round'[r] = round[r] /\ full'[r] = full[r] /\ shard'[r] = shard[r]
  BY FinishEffect
<1>2. phase[r] = "clip" => config.clip
  BY DEF LoopInv
<1>3. /\ LastLaunches(r) = IF BeforeFinish(r) THEN GroupIds \ dispatched[r] ELSE {}
      /\ BeforeFinish(r) => dispatched[r] = (IF config.overlap THEN GroupIds ELSE {})
  BY <1>1, <1>2, LastLaunchesFacts
<1>4. LastLaunches(r) = GroupIds \ Launched(r) /\ Launched(r)' = GroupIds
      /\ GroupIds \cap Launched(r) = Launched(r)
  <2>1. Launched(r)' = GroupIds
    BY <1>1 DEF Launched, BeforeFinish
  <2>2. Launched(r) = IF BeforeFinish(r) THEN dispatched[r] ELSE GroupIds
    BY <1>1 DEF Launched
  <2>3. dispatched[r] \in SUBSET GroupIds
    BY RankTypes
  <2> QED BY <1>3, <2>1, <2>2, <2>3
<1>5. ASSUME NEW p \in Params
      PROVE  InFlight(r, p)' <=> InFlight(r, p) \/ GroupOf(p) \notin Launched(r)
  <2>1. LastLaunches(r) \in SUBSET GroupIds /\ GroupOf(p) \in GroupIds
    BY <1>4, GroupFacts
  <2>2. InFlight(r, p)' <=> InFlight(r, p) \/ GroupOf(p) \in LastLaunches(r)
    BY <1>1, <2>1, IssueInFlight
  <2> QED BY <1>4, <2>1, <2>2
<1>6. ASSUME NEW p \in Params PROVE GradOf(r, p)'
  <2>1. GradOf(r, p)
    BY <1>1 DEF GradInv, InStep
  <2>2. GroupOf(p) \in Launched(r)'
    BY <1>4, GroupFacts
  <2>3. CASE GroupOf(p) \in Launched(r)
    <3>1. config.clip => (phase'[r] \in {"step", "update"} <=> phase[r] \in {"step", "update"})
      BY <1>1
    <3>2. InFlight(r, p)' <=> InFlight(r, p)
      BY <1>5, <2>3
    <3> QED BY <1>0, <1>1, <2>1, <2>2, <2>3, <3>1, <3>2, GradUnchanged
  <2>4. CASE GroupOf(p) \notin Launched(r)
    <3>1. InFlight(r, p)'
      BY <1>5, <2>4
    <3>2. BeforeFinish(r) /\ phase[r] \in {"clip", "step"} /\ ready[r] = Params
      <4>1. BeforeFinish(r)
        BY <1>1, <2>4, GroupFacts DEF Launched
      <4> QED BY <1>1, <4>1 DEF GroupInv
    <3>3. full[r][p] = Current(r, p)
      <4>1. Sharded => GroupOf(p) \in temp[r]
        BY <3>2 DEF GroupInv
      <4>2. overwrite[r] = {} /\ (~Sharded => ~needRebind[r])
        BY <3>2 DEF BindingInv
      <4> QED BY <4>1, <4>2 DEF Current
    <3>4. SummedRounds(r, p) = RoundsOfStep(round[r])
      <4>1. round[r] \in Nat \ {0} /\ round[r] % config.accum = 0 /\ config.accum \in Nat \ {0}
        BY <3>2, RankTypes DEF LoopInv, Once
      <4>2. Prior(round[r]) \cup {round[r]} = RoundsOfStep(round[r])
        BY <4>1, PriorFacts
      <4> QED BY <3>2, <4>2 DEF SummedRounds
    <3>5. full'[r][p] = Sum(RoundsOfStep(round[r]))
      BY <1>1, <2>1, <2>4, <3>3, <3>4 DEF GradOf
    <3>6. RoundsOfStep(round[r])' = RoundsOfStep(round[r])
      BY <1>0, <1>1 DEF RoundsOfStep
    <3> QED BY <2>2, <3>1, <3>5, <3>6 DEF GradOf
  <2> QED BY <2>3, <2>4
<1>7. config'.clip /\ phase'[r] \in {"step", "update"} => comm'[r] = <<>>
  <2> SUFFICES ASSUME config.clip, phase'[r] = "update" PROVE comm'[r] = <<>>
    BY <1>0, <1>1
  <2>1. phase[r] = "step" /\ comm[r] = <<>>
    BY <1>1 DEF GradInv
  <2>2. LastLaunches(r) = {}
    BY <1>3, <2>1 DEF BeforeFinish
  <2>3. InGroupOrder(Reduce, {}) = <<>>
    <3>1. OnePerGroup(InGroupOrder(Reduce, {}), "reduce", {})
      BY IssueFacts
    <3> QED BY <3>1, Emptiness DEF OnePerGroup
  <2> QED BY <1>1, <2>1, <2>2, <2>3, Emptiness
<1> QED BY <1>6, <1>7 DEF GradInv

LEMMA ClipGrads ==
    ASSUME TypeOK, Once, NEW r \in Ranks, LoopInv(r), GradInv(r),
           ClipReducesNorm(r) \/ ScaleGradients(r)
    PROVE  GradInv(r)'
<1>0. config' = config /\ (Sharded' <=> Sharded)
  <2>1. RankStep(r)
    BY DEF RankStep
  <2> QED BY <2>1, Frame DEF Sharded
<1>1. /\ \/ /\ phase[r] = "norm" /\ phase'[r] = "scale" /\ Waited(r, "reduce")
            /\ comm'[r] = Append(comm[r], Norm) /\ shard'[r] = shard[r]
         \/ /\ phase[r] = "scale" /\ phase'[r] = "step" /\ Waited(r, "norm")
            /\ comm'[r] = comm[r]
            /\ shard'[r] = IF Sharded THEN Scaled(r, shard[r]) ELSE shard[r]
      /\ round'[r] = round[r]
  BY ClipReducesNormEffect, ScaleGradientsEffect
<1>2. comm[r] = <<>>
  BY <1>1, WaitedForAll, Kinds
<1>3. config.clip /\ Sharded
  BY <1>1 DEF LoopInv, Once
<1>4. Launched(r) = GroupIds /\ Launched(r)' = GroupIds
  BY <1>0, <1>1, <1>3 DEF Launched, BeforeFinish
<1>5. ASSUME NEW p \in Params PROVE GradOf(r, p)'
  <2>1. GradOf(r, p) /\ GroupOf(p) \in GroupIds
    BY <1>1, GroupFacts DEF GradInv, InStep
  <2>2. ~InFlight(r, p)
    BY <1>2, NothingInFlight
  <2>3. ~InFlight(r, p)'
    <3>1. \A g : Reduce(g) # Norm
      BY DEF Reduce, Norm
    <3>2. comm'[r] = <<>> \/ comm'[r] = <<Norm>>
      BY <1>1, <1>2, Emptiness
    <3>3. Range(<<>>) = {} /\ Range(<<Norm>>) = {Norm}
      BY Emptiness
    <3>4. Outstanding(r)' = {} \/ Outstanding(r)' = {Norm}
      BY <3>2, <3>3 DEF Outstanding
    <3> QED BY <3>1, <3>4 DEF InFlight
  <2>4. Owner[p] = r => shard[r][p] = Mean(RoundsOfStep(round[r]), 0)
    BY <1>1, <1>3, <1>4, <2>1, <2>2 DEF GradOf, PieceGrad
  <2>5. RoundsOfStep(round[r])' = RoundsOfStep(round[r])
    BY <1>0, <1>1 DEF RoundsOfStep
  <2>6. Owner[p] = r =>
          PieceGrad(r, p)' = Mean(RoundsOfStep(round[r]), IF phase'[r] = "step" THEN 1 ELSE 0)
    <3> SUFFICES ASSUME Owner[p] = r
                 PROVE  shard'[r][p] = Mean(RoundsOfStep(round[r]),
                                            IF phase'[r] = "step" THEN 1 ELSE 0)
      BY <1>0, <1>3 DEF PieceGrad
    <3>1. CASE phase'[r] = "scale"
      BY <1>1, <2>4, <3>1
    <3>2. CASE phase'[r] = "step"
      <4>1. shard'[r][p] = Clipped(shard[r][p])
        BY <1>1, <1>3, <3>2 DEF Scaled, OwnedBy
      <4> QED BY <2>4, <3>2, <4>1, SumFacts
    <3> QED BY <1>1, <3>1, <3>2
  <2> QED BY <1>0, <1>1, <1>3, <1>4, <2>1, <2>3, <2>5, <2>6 DEF GradOf
<1>6. phase'[r] \in {"step", "update"} => comm'[r] = <<>>
  BY <1>1, <1>2
<1> QED BY <1>5, <1>6 DEF GradInv

(* Gradients are the base optimizer's from here on.                        *)
LEMMA RankGrads ==
    ASSUME TypeOK, Once, NEW r \in Ranks, LoopInv(r), BindingInv(r), GroupInv(r), GradInv(r),
           RankStep(r)
    PROVE  GradInv(r)'
<1>1. CASE Update(r)
  <2>1. phase'[r] = "gathered"
    BY <1>1, UpdateEffect
  <2> QED BY <2>1 DEF GradInv, InStep
<1>2. CASE ReduceLoss(r) \/ TrainingEnds(r)
  <2>1. phase'[r] \in {"zero", "done"}
    BY <1>2, LastEffect
  <2> QED BY <2>1 DEF GradInv, InStep
<1> QED BY <1>1, <1>2, ZeroGradGrads, ForwardGrads, AccumulateGrads, BackwardReturnsGrads,
           FinishGrads, ClipGrads DEF RankStep

RankGradients(r) == BindingInv(r) /\ GroupInv(r) /\ GradInv(r)

LEMMA GradientsIndependent ==
    ASSUME config' = config, NEW s \in Ranks, Same(s), RankGradients(s)
    PROVE  RankGradients(s)'
<1>1. (Sharded' <=> Sharded) /\ (BeforeFinish(s)' <=> BeforeFinish(s))
      /\ (ClipFinished(s)' <=> ClipFinished(s)) /\ (InStep(s)' <=> InStep(s))
  BY DEF Sharded, Same, BeforeFinish, ClipFinished, InStep
<1>2. BindingInv(s)'
  BY <1>1 DEF Same, BindingInv, RankGradients
<1>3. GroupInv(s)'
  BY <1>1 DEF Same, GroupInv, RankGradients, ReadyGroups
<1>4. ASSUME NEW p \in Params, GradOf(s, p) PROVE GradOf(s, p)'
  <2>1. Launched(s)' = Launched(s)
    BY <1>1 DEF Same, Launched
  <2>2. InFlight(s, p)' <=> InFlight(s, p)
    BY DEF Same, InFlight, Outstanding
  <2>3. Current(s, p)' = Current(s, p)
    BY <1>1 DEF Same, Current
  <2>4. SummedRounds(s, p)' = SummedRounds(s, p)
    BY DEF Same, SummedRounds, Prior
  <2>5. /\ round'[s] = round[s] /\ full'[s][p] = full[s][p] /\ shard'[s][p] = shard[s][p]
        /\ (phase'[s] \in {"step", "update"} <=> phase[s] \in {"step", "update"})
    BY DEF Same
  <2>6. (GroupOf(p) \in Launched(s))' <=> GroupOf(p) \in Launched(s)
    BY <2>1
  <2> QED BY <1>4, <2>2, <2>3, <2>4, <2>5, <2>6, GradUnchanged
<1>5. GradInv(s)'
  BY <1>1, <1>4 DEF Same, GradInv, RankGradients
<1> QED BY <1>2, <1>3, <1>5 DEF RankGradients

-----------------------------------------------------------------------------
(* A reduction completes on ranks that are all in the same step, and each  *)
(* of them gives it the rounds of that step.                               *)

Gradients == \A r \in Ranks : RankGradients(r)

LEMMA ReducedRounds ==
    ASSUME TypeOK, Once, Loops, History, Gradients, NEW g \in GroupIds, Completes(Reduce(g)),
           NEW r \in Ranks
    PROVE  /\ g \in Launched(r) /\ InStep(r)
           /\ ~(config.clip /\ phase[r] \in {"step", "update"})
           /\ \A p \in Groups[g] :
                Average({full[s][p] : s \in Ranks}) = Mean(RoundsOfStep(round[r]), 0)
<1>1. ASSUME NEW s \in Ranks
      PROVE  comm[s] # <<>> /\ Reduce(g) \in Outstanding(s) /\ LoopInv(s) /\ RankGradients(s)
  <2>1. comm[s] \in Seq(Collective) /\ comm[s] # <<>> /\ Head(comm[s]) = Reduce(g)
    BY RankTypes DEF Completes
  <2>2. Head(comm[s]) \in Range(comm[s])
    BY <2>1, TailFacts
  <2> QED BY <2>1, <2>2 DEF Outstanding, Loops, Gradients
<1>2. ASSUME NEW s \in Ranks
      PROVE  /\ InStep(s) /\ g \in Launched(s)
             /\ \A p \in Groups[g] : full[s][p] = Sum(RoundsOfStep(round[s]))
             /\ round[s] \in Nat \ {0} /\ round[s] % config.accum = 0
  <2>1. InStep(s)
    <3>1. Kind(phase[s]) = "reduce"
      <4>1. Reduce(g).op = Kind(phase[s])
        BY <1>1 DEF LoopInv
      <4> QED BY <4>1 DEF Reduce
    <3> QED BY <3>1, Kinds DEF InStep
  <2>2. \A p \in Groups[g] : p \in Params /\ GroupOf(p) = g
    BY GroupFacts
  <2>3. \A p \in Groups[g] : InFlight(s, p) /\ GradOf(s, p)
    BY <1>1, <2>1, <2>2 DEF InFlight, RankGradients, GradInv
  <2>4. g \in Launched(s)
    <3>1. PICK p : p \in Groups[g]
      BY GroupFacts
    <3> QED BY <2>2, <2>3, <3>1 DEF GradOf
  <2>5. \A p \in Groups[g] : full[s][p] = Sum(RoundsOfStep(round[s]))
    BY <2>3 DEF GradOf
  <2>6. round[s] \in Nat \ {0}
    BY <1>1, <2>1, RankTypes DEF LoopInv, InStep
  <2>7. round[s] % config.accum = 0
    <3>1. phase[s] # "forward"
      BY <2>4 DEF Launched
    <3>2. CASE phase[s] = "backward"
      <4>1. config.overlap
        BY <1>1, <2>4, <3>2 DEF Launched, BeforeFinish, RankGradients, GroupInv
      <4> QED BY <2>6, <4>1, OneRound DEF Once
    <3>3. CASE phase[s] # "backward"
      BY <1>1, <3>1, <3>3 DEF LoopInv
    <3> QED BY <3>2, <3>3
  <2> QED BY <2>1, <2>4, <2>5, <2>6, <2>7
<1>3. ASSUME NEW s \in Ranks PROVE round[s] = round[r]
  <2>1. StepAt(round[s]) = StepAt(round[r])
    BY <1>1, SameStep
  <2>2. config.accum \in Nat \ {0}
    BY DEF Once
  <2>3. (round[s] - 1) \div config.accum = (round[r] - 1) \div config.accum
    BY <2>1 DEF StepAt
  <2> QED BY <1>2, <2>2, <2>3, SameStepSameLastRound
<1>4. ASSUME NEW p \in Groups[g]
      PROVE  Average({full[s][p] : s \in Ranks}) = Mean(RoundsOfStep(round[r]), 0)
  <2>1. {full[s][p] : s \in Ranks} = {Sum(RoundsOfStep(round[r]))}
    <3>1. \A s \in Ranks : full[s][p] = Sum(RoundsOfStep(round[r]))
      BY <1>2, <1>3
    <3> QED BY <3>1
  <2>2. RoundsOfStep(round[r]) \in SUBSET Nat /\ JunkRound \notin RoundsOfStep(round[r])
    <3>1. PICK i \in Nat \ {0}, a \in Nat \ {0} : i = round[r] /\ a = config.accum /\ i % a = 0
      BY <1>2 DEF Once
    <3>2. a <= i
      <4>1. i = (i \div a) * a + (i % a) /\ i \div a \in Nat
        BY Division
      <4>2. PICK q \in Nat : i = q * a
        BY <3>1, <4>1
      <4>3. q # 0
        BY <4>2
      <4>4. PICK d \in Nat : q = d + 1
        <5>1. q - 1 \in Nat
          BY <4>3
        <5> QED BY <5>1
      <4>5. i = d * a + a /\ d * a \in Nat
        BY <4>2, <4>4
      <4> QED BY <4>5
    <3>3. RoundsOfStep(i) = (i - a + 1)..i
      BY <3>1 DEF RoundsOfStep
    <3>4. (i - a + 1)..i \in SUBSET Nat /\ 0 \notin (i - a + 1)..i
      BY <3>2
    <3> QED BY <3>1, <3>3, <3>4 DEF JunkRound
  <2> QED BY <2>1, <2>2, SumFacts
<1>5. ~(config.clip /\ phase[r] \in {"step", "update"})
  BY <1>1 DEF RankGradients, GradInv
<1> QED BY <1>2, <1>4, <1>5

LEMMA CompletesGrads ==
    ASSUME TypeOK, Once, Loops, History, Gradients, NEW c \in Collective, Completes(c),
           NEW r \in Ranks
    PROVE  RankGradients(r)'
<1>1. /\ comm[r] \in Seq(Collective) /\ comm[r] # <<>> /\ comm'[r] = Tail(comm[r])
      /\ Head(comm[r]) = c /\ LoopInv(r) /\ RankGradients(r)
  BY RankTypes DEF Completes, Loops, Gradients
<1>2. Range(comm'[r]) = Range(comm[r]) \ {c}
  BY <1>1, TailFacts DEF LoopInv
<1>3. /\ config' = config /\ phase'[r] = phase[r] /\ round'[r] = round[r]
      /\ ready'[r] = ready[r] /\ bound'[r] = bound[r] /\ needRebind'[r] = needRebind[r]
      /\ overwrite'[r] = overwrite[r] /\ temp'[r] = temp[r] /\ withGrad'[r] = withGrad[r]
      /\ dispatched'[r] = dispatched[r] /\ works'[r] = works[r]
  BY DEF Completes
<1>4. (Sharded' <=> Sharded) /\ (BeforeFinish(r)' <=> BeforeFinish(r))
      /\ (ClipFinished(r)' <=> ClipFinished(r)) /\ (InStep(r)' <=> InStep(r))
      /\ Launched(r)' = Launched(r)
  BY <1>3 DEF Sharded, BeforeFinish, ClipFinished, InStep, Launched
<1>5. BindingInv(r)'
  BY <1>1, <1>3, <1>4 DEF BindingInv, RankGradients
<1>6. GroupInv(r)'
  BY <1>1, <1>3, <1>4 DEF GroupInv, RankGradients, ReadyGroups
<1>7. ~(config'.clip /\ phase'[r] \in {"step", "update"})
  BY <1>1, <1>3 DEF RankGradients, GradInv
<1>8. ASSUME NEW p \in Params, GradOf(r, p), InStep(r) PROVE GradOf(r, p)'
  <2>1. SummedRounds(r, p)' = SummedRounds(r, p)
    BY <1>3 DEF SummedRounds, Prior
  <2>2. (GroupOf(p) \in Launched(r))' <=> GroupOf(p) \in Launched(r)
    BY <1>4
  <2>3. phase'[r] \in {"step", "update"} <=> phase[r] \in {"step", "update"}
    BY <1>3
  <2>4. CASE c # Reduce(GroupOf(p))
    <3>1. InFlight(r, p)' <=> InFlight(r, p)
      BY <1>2, <2>4 DEF InFlight, Outstanding
    <3>2. full'[r][p] = full[r][p] /\ shard'[r][p] = shard[r][p]
      <4>1. CASE c.op # "reduce"
        BY <4>1 DEF Completes
      <4>2. CASE c.op = "reduce"
        <5>1. c = Reduce(c.group) /\ c.group \in GroupIds
          BY <4>2 DEF Collective, Gather, Reduce, Norm, Loss
        <5>2. p \notin Groups[c.group]
          BY <2>4, <5>1, GroupFacts
        <5>3. \A old : Scattered(old, c.group)[r][p] = old[r][p]
          BY <5>2 DEF Scattered
        <5> QED BY <5>3 DEF Completes
      <4> QED BY <4>1, <4>2
    <3>3. Current(r, p)' = Current(r, p)
      BY <1>3, <1>4, <3>2 DEF Current
    <3> QED BY <1>3, <1>8, <2>1, <2>2, <2>3, <3>1, <3>2, <3>3, GradUnchanged
  <2>5. CASE c = Reduce(GroupOf(p))
    <3>1. GroupOf(p) \in GroupIds /\ p \in Groups[GroupOf(p)]
      BY GroupFacts
    <3>2. /\ GroupOf(p) \in Launched(r)
          /\ Average({full[s][p] : s \in Ranks}) = Mean(RoundsOfStep(round[r]), 0)
      BY <2>5, <3>1, ReducedRounds
    <3>3. ~InFlight(r, p)'
      BY <1>2, <2>5 DEF InFlight, Outstanding
    <3>4. Owner[p] = r => PieceGrad(r, p)' = Mean(RoundsOfStep(round[r]), 0)
      <4> SUFFICES ASSUME Owner[p] = r
                   PROVE  PieceGrad(r, p)' = Mean(RoundsOfStep(round[r]), 0)
        OBVIOUS
      <4>1. c.op = "reduce" /\ c.group = GroupOf(p)
        BY <2>5 DEF Reduce
      <4>2. \A old : Scattered(old, GroupOf(p))[r][p] = Mean(RoundsOfStep(round[r]), 0)
        BY <3>1, <3>2 DEF Scattered
      <4>3. Sharded => shard'[r][p] = Mean(RoundsOfStep(round[r]), 0)
        BY <4>1, <4>2 DEF Completes
      <4>4. ~Sharded => full'[r][p] = Mean(RoundsOfStep(round[r]), 0)
        BY <4>1, <4>2 DEF Completes
      <4> QED BY <1>4, <4>3, <4>4 DEF PieceGrad
    <3>5. RoundsOfStep(round[r])' = RoundsOfStep(round[r])
      BY <1>3 DEF RoundsOfStep
    <3> QED BY <1>4, <1>7, <3>2, <3>3, <3>4, <3>5 DEF GradOf
  <2> QED BY <2>4, <2>5
<1>9. GradInv(r)'
  BY <1>1, <1>4, <1>7, <1>8 DEF GradInv, RankGradients
<1> QED BY <1>5, <1>6, <1>9 DEF RankGradients

LEMMA InitGradients == Init => Gradients
<1> SUFFICES ASSUME Init, NEW r \in Ranks PROVE RankGradients(r)
  BY DEF Gradients
<1>1. phase[r] = "zero" /\ overwrite[r] = {} /\ (bound[r] <=> ~Sharded)
  BY DEF Init
<1> QED BY <1>1 DEF RankGradients, BindingInv, GroupInv, GradInv, InStep, BeforeFinish, ClipFinished

LEMMA NextGradients ==
    TypeOK /\ Loops /\ History /\ Gradients /\ SyncedOnce(config) /\ [Next]_vars =>
        Gradients' /\ config' = config
<1> SUFFICES ASSUME TypeOK, Loops, History, Gradients, SyncedOnce(config), [Next]_vars
             PROVE  Gradients' /\ config' = config
  OBVIOUS
<1>0. Once
  BY OnceFacts
<1>1. ASSUME NEW r \in Ranks, RankStep(r) PROVE Gradients' /\ config' = config
  <2>1. config' = config /\ \A s \in Ranks \ {r} : Same(s)
    BY <1>1, Frame
  <2>2. RankGradients(r)'
    BY <1>0, <1>1, RankBinding, RankGroups, RankGrads DEF RankGradients, Gradients, Loops
  <2>3. \A s \in Ranks \ {r} : RankGradients(s)'
    BY <2>1, GradientsIndependent DEF Gradients
  <2> QED BY <2>1, <2>2, <2>3 DEF Gradients
<1>2. CASE CollectiveCompletes
  <2>1. PICK c \in Collective : Completes(c)
    BY <1>2, CompletesEffect
  <2>2. Gradients'
    BY <1>0, <2>1, CompletesGrads DEF Gradients
  <2> QED BY <2>1, <2>2 DEF Completes
<1>3. CASE UNCHANGED vars
  BY <1>3, GradientsIndependent DEF Gradients, vars, loopVars, bufVars, syncVars, Same
<1> QED BY <1>1, <1>2, <1>3 DEF Next, Terminated

(* No step but the reduction's own writes a gradient in flight.            *)
LEMMA StepStable ==
    ASSUME TypeOK, Once, Loops, Gradients, [Next]_vars, NEW r \in Ranks,
           NEW p \in ParamsOf(ReducedGroups(r) \cap ReducedGroups(r)')
    PROVE  full'[r][p] = full[r][p]
<1>1. /\ p \in Params /\ GroupOf(p) \in GroupIds /\ p \in Groups[GroupOf(p)]
      /\ Reduce(GroupOf(p)) \in Range(comm[r]) /\ Reduce(GroupOf(p)) \in Range(comm'[r])
  <2>1. PICK g \in ReducedGroups(r) \cap ReducedGroups(r)' : p \in Groups[g]
    BY DEF ParamsOf
  <2>2. Reduce(g) \in Range(comm[r]) /\ g \in GroupIds
    <3>1. PICK k \in DOMAIN comm[r] : comm[r][k].op = "reduce" /\ comm[r][k].group = g
      BY <2>1 DEF ReducedGroups
    <3>2. comm[r][k] \in Collective
      <4>1. comm[r] \in Seq(Collective)
        BY RankTypes
      <4> QED BY <3>1, <4>1
    <3>3. comm[r][k] = Reduce(g) /\ g \in GroupIds
      BY <3>1, <3>2 DEF Collective, Gather, Reduce, Norm, Loss
    <3> QED BY <3>1, <3>3 DEF Range
  <2>3. comm'[r] \in Seq(Collective)
    <3>1. ASSUME NEW s \in Ranks, RankStep(s) PROVE comm'[r] \in Seq(Collective)
      <4>1. CASE s = r
        BY <3>1, <4>1, RankLoop DEF Loops
      <4>2. CASE s # r
        BY <3>1, <4>2, Frame, RankTypes DEF Same
      <4> QED BY <4>1, <4>2
    <3>2. CASE CollectiveCompletes
      <4>1. comm[r] \in Seq(Collective) /\ comm[r] # <<>> /\ comm'[r] = Tail(comm[r])
        BY <3>2, CompletesEffect, RankTypes DEF Completes
      <4> QED BY <4>1, TailFacts
    <3>3. CASE UNCHANGED vars
      BY <3>3, RankTypes DEF vars
    <3> QED BY <3>1, <3>2, <3>3 DEF Next, Terminated
  <2>4. Reduce(g) \in Range(comm'[r])
    <3>1. PICK k \in DOMAIN comm'[r] : comm'[r][k].op = "reduce" /\ comm'[r][k].group = g
      BY <2>1 DEF ReducedGroups
    <3>2. comm'[r][k] \in Collective
      BY <2>3, <3>1
    <3>3. comm'[r][k] = Reduce(g)
      BY <3>1, <3>2 DEF Collective, Gather, Reduce, Norm, Loss
    <3> QED BY <3>1, <3>3 DEF Range
  <2>5. GroupOf(p) = g /\ p \in Params
    BY <2>1, <2>2, GroupFacts
  <2> QED BY <2>1, <2>2, <2>4, <2>5
<1>2. LoopInv(r) /\ RankGradients(r) /\ comm[r] # <<>>
  BY <1>1, Emptiness DEF Loops, Gradients
<1>3. ASSUME NEW s \in Ranks, RankStep(s) PROVE full'[r][p] = full[r][p]
  <2>1. CASE s # r
    BY <1>3, <2>1, Frame DEF Same
  <2>2. ASSUME s = r, NEW setToNone \in BOOLEAN, ZeroGrad(s, setToNone)
        PROVE  full'[r][p] = full[r][p]
    <3>1. phase[r] = "zero" /\ Waited(r, "loss")
      BY <2>2, ZeroGradEffect
    <3> QED BY <1>2, <3>1, WaitedForAll, Kinds
  <2>3. ASSUME s = r, NEW q \in Params, AccumulateGrad(s, q)
        PROVE  full'[r][p] = full[r][p]
    <3>1. phase[r] = "backward" /\ q \notin ready[r]
      BY <2>3, AccumulateGradEffect
    <3>2. GroupOf(p) \in dispatched[r] /\ GroupOf(q) \notin dispatched[r]
      <4>1. GroupOf(q) \notin dispatched[r]
        BY <1>2, <3>1, StartsFacts DEF RankGradients
      <4> QED BY <1>1, <1>2, <3>1, <4>1 DEF LoopInv, Outstanding
    <3>3. GroupOf(p) # GroupOf(q)
      BY <3>2
    <3> QED BY <1>1, <1>2, <2>3, <3>3, AccumulatedValues DEF RankGradients
  <2>4. CASE s = r /\ ScaleGradients(s)
    <3>1. phase[r] = "scale" /\ Waited(r, "norm")
      BY <2>4, ScaleGradientsEffect
    <3> QED BY <1>2, <3>1, WaitedForAll, Kinds
  <2>5. CASE s = r /\ Forward(s)
    BY <2>5, ForwardEffect
  <2>6. CASE s = r /\ BackwardReturns(s)
    BY <2>6, BackwardReturnsEffect
  <2>7. CASE s = r /\ (ClipFinishesGradSync(s) \/ StepFinishesGradSync(s))
    BY <2>7, FinishEffect
  <2>8. CASE s = r /\ (ClipReducesNorm(s) \/ Update(s))
    BY <2>8, ClipReducesNormEffect, UpdateEffect
  <2>9. CASE s = r /\ (ReduceLoss(s) \/ TrainingEnds(s))
    BY <2>9, LastEffect
  <2> QED BY <1>3, <2>1, <2>2, <2>3, <2>4, <2>5, <2>6, <2>7, <2>8, <2>9 DEF RankStep
<1>4. CASE CollectiveCompletes
  <2>1. PICK c \in Collective : Completes(c)
    BY <1>4, CompletesEffect
  <2>2. comm[r] \in Seq(Collective) /\ Head(comm[r]) = c /\ comm'[r] = Tail(comm[r])
    BY <2>1, RankTypes DEF Completes
  <2>3. Range(comm'[r]) = Range(comm[r]) \ {c}
    BY <1>2, <2>2, TailFacts DEF LoopInv
  <2>4. c # Reduce(GroupOf(p))
    BY <1>1, <2>3
  <2>5. CASE c.op # "reduce"
    BY <2>1, <2>5 DEF Completes
  <2>6. CASE c.op = "reduce"
    <3>1. c = Reduce(c.group) /\ c.group \in GroupIds
      BY <2>6 DEF Collective, Gather, Reduce, Norm, Loss
    <3>2. p \notin Groups[c.group]
      BY <2>4, <3>1, GroupFacts
    <3>3. Scattered(full, c.group)[r][p] = full[r][p]
      BY <1>1, <3>2 DEF Scattered
    <3> QED BY <2>1, <3>3 DEF Completes
  <2> QED BY <2>5, <2>6
<1>5. CASE UNCHANGED vars
  BY <1>5 DEF vars, bufVars
<1> QED BY <1>3, <1>4, <1>5 DEF Next, Terminated

-----------------------------------------------------------------------------
(* What follows for a step that is synchronised once: with gradient        *)
(* accumulation and overlap, or clipping before the reductions' end, it is *)
(* not, and the runs of those settings show what goes wrong.               *)

(***************************************************************************)
(* The inductive invariant with gradients: what the gradient of each       *)
(* parameter sums before, during and after the reduction of its group.     *)
(***************************************************************************)
THEOREM GradientInvariance ==
    Spec /\ SyncedOnce(config) => [](IInv /\ SyncedOnce(config) /\ Gradients)
<1>1. Init /\ SyncedOnce(config) => SyncedOnce(config) /\ Gradients
  BY InitGradients
<1>2. IInv /\ SyncedOnce(config) /\ Gradients /\ [Next]_vars => (SyncedOnce(config) /\ Gradients)'
  <2> SUFFICES ASSUME IInv, SyncedOnce(config), Gradients, [Next]_vars
               PROVE  (SyncedOnce(config) /\ Gradients)'
    OBVIOUS
  <2>1. Gradients' /\ config' = config
    BY NextGradients DEF IInv
  <2> QED BY <2>1 DEF SyncedOnce
<1> QED BY <1>1, <1>2, Invariance, PTL DEF Spec

(***************************************************************************)
(* When the base optimizer reads the pieces of a rank, each is the average *)
(* over the ranks of exactly the rounds of the step, clipped once if the   *)
(* step is clipped and never otherwise.                                    *)
(***************************************************************************)
THEOREM GradsSynced == Spec /\ SyncedOnce(config) => []StepGradsSynced
<1>1. IInv /\ SyncedOnce(config) /\ Gradients => StepGradsSynced
  <2> SUFFICES ASSUME IInv, Gradients, NEW r \in Ranks, phase[r] = "update",
                      Waited(r, "reduce"), NEW p \in OwnedBy(r)
               PROVE  PieceGrad(r, p) = [avg |-> RoundsOfStep(round[r]), loc |-> {},
                                         clipped |-> IF config.clip THEN 1 ELSE 0]
    BY DEF StepGradsSynced
  <2>1. comm[r] = <<>>
    BY WaitedForAll, Kinds DEF IInv, Loops
  <2>2. ~InFlight(r, p)
    BY <2>1, NothingInFlight
  <2>3. p \in Params /\ Owner[p] = r /\ GroupOf(p) \in Launched(r)
    BY GroupFacts DEF OwnedBy, Launched, BeforeFinish
  <2>4. GradOf(r, p)
    BY <2>3 DEF Gradients, RankGradients, GradInv, InStep
  <2> QED BY <2>2, <2>3, <2>4 DEF GradOf, Mean
<1> QED BY <1>1, GradientInvariance, PTL

(***************************************************************************)
(* From the launch of a reduction to its completion nothing writes or      *)
(* clears the gradients it reads.                                          *)
(***************************************************************************)
THEOREM SlicesStable == Spec /\ SyncedOnce(config) => StableWhileInFlight
<1>1. IInv /\ SyncedOnce(config) /\ Gradients /\ [Next]_vars =>
        [\A r \in Ranks : \A p \in ParamsOf(ReducedGroups(r) \cap ReducedGroups(r)') :
             full'[r][p] = full[r][p]]_vars
  BY OnceFacts, StepStable DEF IInv
<1> QED BY <1>1, GradientInvariance, PTL DEF Spec, StableWhileInFlight
=============================================================================
