------------------------ MODULE ReducerStreamProofs ------------------------
(***************************************************************************)
(* Proofs about the communication streams of Reducer and the values the    *)
(* optimizer reads, for every number of ranks, parameters and rounds,      *)
(* every bucket assignment and every engine order.                         *)
(*                                                                         *)
(* Every rank issues the same history of collectives: in each round the    *)
(* buckets without frozen parameters up to the first that has one, and the *)
(* loss after the last round of a step.  A rank has issued a prefix of it, *)
(* known from where the rank is, and all ranks have completed the same.    *)
(***************************************************************************)
EXTENDS ReducerProofs, SequenceTheorems

Busy(r) == phase[r] \in {"backward", "finalize"}

-----------------------------------------------------------------------------
(* A rank by itself: the buckets before nextBucket are complete, the one   *)
(* at nextBucket is not, and a round ends with every gradient marked.      *)
LaunchedPrefix(r) ==
    /\ \A b \in 1..(nextBucket[r] - 1) : pending[r][b] = 0
    /\ nextBucket[r] <= Len(buckets[r]) => pending[r][nextBucket[r]] > 0

PhaseInv(r) ==
    /\ Busy(r) => LaunchedPrefix(r)
    /\ allReady[r] <=> phase[r] = "finalize"
    /\ phase[r] = "finalize" => nextBucket[r] = Len(buckets[r]) + 1
    /\ phase[r] # "backward" => todo[r] = {}
    /\ phase[r] = "backward" /\ trainable = Params => todo[r] # {}
    /\ phase[r] \in {"step", "loss", "done"} => round[r] % AccumSteps = 0

(* The order recorded in the first round, and the buckets made from it.    *)
Setting == [order |-> engineOrder, trainable |-> trainable]

Ascending(e, o) == \A i, j \in DOMAIN o : i < j => e.order[o[i]] < e.order[o[j]]
SortedParams(e) == CHOOSE o \in ReadyOrders : Ascending(e, o) /\ ParamsIn(o) = Params

(* The buckets of round i, which depend on the setting e of the run only.  *)
BucketsOf(e, i) ==
    IF i > 1 /\ e.trainable = Params THEN Rebuilt[SortedParams(e)] ELSE InitialBuckets

Recorded(r) ==
    /\ Ascending(Setting, readyOrder[r])
    /\ ParamsIn(readyOrder[r]) = trainable \ todo[r]
    /\ \A p \in ParamsIn(readyOrder[r]) : \A q \in todo[r] : engineOrder[p] < engineOrder[q]

NotRebuilt(r) == ~needRebuild[r] /\ ~hasRebuilt[r] /\ buckets[r] = InitialBuckets
AboutToRebuild(r) ==
    /\ needRebuild[r] /\ ~hasRebuilt[r] /\ buckets[r] = InitialBuckets
    /\ Recorded(r) /\ todo[r] = {}
HasRebuilt(r) == ~needRebuild[r] /\ hasRebuilt[r] /\ buckets[r] = BucketsOf(Setting, 2)

RebuildInv(r) ==
    /\ trainable # Params => NotRebuilt(r)
    /\ trainable = Params /\ round[r] = 1 =>
           /\ phase[r] \in {"forward", "backward"} => NotRebuilt(r)
           /\ phase[r] = "forward" => readyOrder[r] = <<>>
           /\ phase[r] = "backward" => Recorded(r)
           /\ phase[r] \notin {"forward", "backward"} => AboutToRebuild(r)
    /\ trainable = Params /\ round[r] # 1 =>
           HasRebuilt(r) \/ (phase[r] = "forward" /\ AboutToRebuild(r))

RankInv == \A r \in Ranks : PhaseInv(r) /\ RebuildInv(r)

-----------------------------------------------------------------------------
(* The history: how many buckets a round launches, and the position of     *)
(* each collective in it.                                                  *)
IsLaunchCount(e, bs, m) ==
    /\ \A c \in 1..m : ParamsIn(bs[c]) \subseteq e.trainable
    /\ m < Len(bs) => ~(ParamsIn(bs[m + 1]) \subseteq e.trainable)
Launches(e, i) == CHOOSE m \in 0..Len(BucketsOf(e, i)) : IsLaunchCount(e, BucketsOf(e, i), m)

Base(e, i) ==
    IF i = 1 THEN 0
    ELSE Launches(e, 1) + (i - 2) * Launches(e, 2) + ((i - 1) \div AccumSteps)

(* Round i issues its buckets in order, and after the last round of a step *)
(* the loss; v is what the history holds at position n.                    *)
InRound(e, i, b) ==
    /\ i \in Rounds /\ b \in 1..(Launches(e, i) + 1)
    /\ b = Launches(e, i) + 1 => i % AccumSteps = 0
Collective(e, i, b) == IF b <= Launches(e, i) THEN BucketsOf(e, i)[b] ELSE LossReduce
IsAt(e, n, v) ==
    \E i \in Rounds : \E b \in 1..(Launches(e, i) + 1) :
        InRound(e, i, b) /\ n = Base(e, i) + b /\ v = Collective(e, i, b)

(* How many collectives of the history rank r has issued.                  *)
Issued(r) ==
    Base(Setting, round[r])
      + (IF phase[r] = "forward" THEN 0
         ELSE IF Busy(r) THEN nextBucket[r] - 1
         ELSE IF phase[r] = "step" THEN Launches(Setting, round[r])
         ELSE Launches(Setting, round[r]) + 1)

HistoryFrom(c, r) ==
    /\ Issued(r) = c + Len(comm[r])
    /\ \A k \in DOMAIN comm[r] : IsAt(Setting, c + k, comm[r][k])
History == \E c \in Nat : \A r \in Ranks : HistoryFrom(c, r)

-----------------------------------------------------------------------------
(* With every parameter trainable: what is on the stream, by position.     *)
First(r) == nextBucket[r] - Len(comm[r])

StreamInv(r) ==
    /\ Busy(r) => /\ First(r) \in 1..nextBucket[r]
                  /\ comm[r] = SubSeq(buckets[r], First(r), nextBucket[r] - 1)
                  /\ work[r] = 1..(nextBucket[r] - 1)
    /\ ~Busy(r) => work[r] = {}
    /\ phase[r] \in {"forward", "step", "done"} => comm[r] = <<>>
    /\ phase[r] = "loss" => comm[r] \in {<<>>, <<LossReduce>>}

(* Rounds of the step before round i.                                      *)
Prior(i) == (i - ((i - 1) % AccumSteps))..(i - 1)

(* What the next gradient of p is added to.                                *)
Base0(r, p) ==
    IF overwrite[r][p] \/ grad[r][p] = "null" THEN Zero ELSE GradValue(r, p)

Before(i) == [avg |-> Prior(i), loc |-> {}]
Alone(i)  == [avg |-> Prior(i), loc |-> {i}]
After(i)  == [avg |-> Prior(i) \cup {i}, loc |-> {}]

ValueInv(r) ==
    /\ \A p \in Params :
          IF asView THEN grad[r][p] # "own" /\ (Busy(r) => grad[r][p] = "view")
                    ELSE grad[r][p] # "view"
    /\ phase[r] = "forward" => \A p \in Params : Base0(r, p) = Before(round[r])
    /\ Busy(r) =>
          \A p \in Params :
             IF p \in todo[r] THEN Base0(r, p) = Before(round[r])
             ELSE /\ grad[r][p] # "null" /\ ~overwrite[r][p]
                  /\ mem[r][p] = IF Locator(buckets[r], p) < First(r)
                                 THEN After(round[r]) ELSE Alone(round[r])
    /\ phase[r] = "step" => \A p \in Params : GradValue(r, p) = After(round[r])

AllTrainableInv == trainable = Params => \A r \in Ranks : StreamInv(r) /\ ValueInv(r)
-----------------------------------------------------------------------------
(* What the actions do, rank by rank.                                      *)
Same(s) ==
    /\ phase'[s] = phase[s] /\ round'[s] = round[s] /\ forwards'[s] = forwards[s]
    /\ todo'[s] = todo[s] /\ grad'[s] = grad[s] /\ own'[s] = own[s]
    /\ overwrite'[s] = overwrite[s] /\ mem'[s] = mem[s] /\ buckets'[s] = buckets[s]
    /\ pending'[s] = pending[s] /\ work'[s] = work[s] /\ nextBucket'[s] = nextBucket[s]
    /\ readyOrder'[s] = readyOrder[s] /\ needRebuild'[s] = needRebuild[s]
    /\ hasRebuilt'[s] = hasRebuilt[s] /\ allReady'[s] = allReady[s] /\ comm'[s] = comm[s]

Config == UNCHANGED <<engineOrder, trainable, asView>>

Rebuilds(r)   == needRebuild[r] /\ ~hasRebuilt[r]
Moves(r)      == Rebuilds(r) /\ readyOrder[r] # <<>>
NewBuckets(r) == IF Moves(r) THEN Rebuilt[readyOrder[r]] ELSE buckets[r]

LEMMA PrepareEffect ==
    ASSUME TypeOK, NEW r \in Ranks, PrepareForBackward(r)
    PROVE  /\ Config /\ \A s \in Ranks \ {r} : Same(s)
           /\ phase[r] = "forward"
           /\ phase'[r] = IF forwards[r] = 1 THEN "backward" ELSE "forward"
           /\ todo'[r] = IF forwards[r] = 1 THEN trainable ELSE todo[r]
           /\ round'[r] = round[r] /\ own'[r] = own[r] /\ comm'[r] = comm[r]
           /\ allReady'[r] = allReady[r]
           /\ buckets'[r] = NewBuckets(r)
           /\ pending'[r] = FreshPending(NewBuckets(r), pending[r])
           /\ work'[r] = IF Moves(r) THEN {} ELSE work[r]
           /\ hasRebuilt'[r] = (hasRebuilt[r] \/ Rebuilds(r))
           /\ needRebuild'[r] = (needRebuild[r] /\ ~Rebuilds(r))
           /\ nextBucket'[r] = 1 /\ readyOrder'[r] = <<>>
           /\ \A p \in Params :
                 /\ overwrite'[r][p] = (overwrite[r][p] \/ (asView /\ grad[r][p] = "null"))
                 /\ grad'[r][p] = IF asView THEN "view" ELSE grad[r][p]
                 /\ mem'[r][p] = IF asView /\ grad[r][p] = "own" THEN own[r][p]
                                 ELSE IF Moves(r) /\ grad[r][p] # "view" THEN Junk
                                 ELSE mem[r][p]
<1>1. /\ phase[r] = "forward"
      /\ buckets'     = [buckets EXCEPT ![r] = NewBuckets(r)]
      /\ pending'     = [pending EXCEPT ![r] = FreshPending(NewBuckets(r), @)]
      /\ work'        = IF Moves(r) THEN [work EXCEPT ![r] = {}] ELSE work
      /\ hasRebuilt'  = [hasRebuilt EXCEPT ![r] = @ \/ Rebuilds(r)]
      /\ needRebuild' = [needRebuild EXCEPT ![r] = @ /\ ~Rebuilds(r)]
      /\ nextBucket'  = [nextBucket EXCEPT ![r] = 1]
      /\ readyOrder'  = [readyOrder EXCEPT ![r] = <<>>]
      /\ overwrite'   = [overwrite EXCEPT ![r] =
             [p \in Params |-> @[p] \/ (asView /\ grad[r][p] = "null")]]
      /\ grad' = [grad EXCEPT ![r] = IF asView THEN [p \in Params |-> "view"] ELSE @]
      /\ mem'  = [mem EXCEPT ![r] =
             [p \in Params |->
                 IF asView /\ grad[r][p] = "own" THEN own[r][p]
                 ELSE IF Moves(r) /\ grad[r][p] # "view" THEN Junk
                 ELSE @[p]]]
      /\ forwards' = [forwards EXCEPT ![r] = @ - 1]
      /\ forwards[r] = 1 => /\ phase' = [phase EXCEPT ![r] = "backward"]
                            /\ todo'  = [todo EXCEPT ![r] = trainable]
      /\ forwards[r] # 1 => phase' = phase /\ todo' = todo
      /\ Config /\ round' = round /\ own' = own /\ allReady' = allReady /\ comm' = comm
  BY DEF PrepareForBackward, MarksOverwrite, NewBuckets, Moves, Rebuilds, Config
<1>2. ASSUME NEW s \in Ranks \ {r} PROVE Same(s)
  <2>1. work'[s] = work[s] /\ phase'[s] = phase[s] /\ todo'[s] = todo[s]
    BY <1>1 DEF TypeOK
  <2> QED BY <1>1, <2>1 DEF TypeOK, Same
<1>3. /\ work'[r] = IF Moves(r) THEN {} ELSE work[r]
      /\ phase'[r] = IF forwards[r] = 1 THEN "backward" ELSE "forward"
      /\ todo'[r] = IF forwards[r] = 1 THEN trainable ELSE todo[r]
  BY <1>1 DEF TypeOK
<1>4. /\ buckets'[r] = NewBuckets(r)
      /\ pending'[r] = FreshPending(NewBuckets(r), pending[r])
      /\ hasRebuilt'[r] = (hasRebuilt[r] \/ Rebuilds(r))
      /\ needRebuild'[r] = (needRebuild[r] /\ ~Rebuilds(r))
      /\ nextBucket'[r] = 1 /\ readyOrder'[r] = <<>>
  BY <1>1 DEF TypeOK
<1>5. ASSUME NEW p \in Params
      PROVE  /\ overwrite'[r][p] = (overwrite[r][p] \/ (asView /\ grad[r][p] = "null"))
             /\ grad'[r][p] = IF asView THEN "view" ELSE grad[r][p]
             /\ mem'[r][p] = IF asView /\ grad[r][p] = "own" THEN own[r][p]
                             ELSE IF Moves(r) /\ grad[r][p] # "view" THEN Junk
                             ELSE mem[r][p]
  BY <1>1 DEF TypeOK
<1> QED BY <1>1, <1>2, <1>3, <1>4, <1>5

(* Marking a parameter of bucket b moves the prefix of complete buckets.   *)
PrefixEnds(n, b, next, pend, end) ==
    /\ b >= next /\ end \in next..(n + 1)
    /\ \A c \in 1..(end - 1) : pend[c] = 0
    /\ end <= n => pend[end] > 0
    /\ (IsReady(pend, b) /\ b <= next /\ end = n + 1) <=> end = n + 1

LEMMA PrefixMoves ==
    ASSUME NEW n \in Nat, NEW old \in [1..n -> Nat], NEW b \in 1..n, NEW next \in 1..(n + 1),
           old[b] > 0,
           \A c \in 1..(next - 1) : old[c] = 0,
           next <= n => old[next] > 0,
           NEW pend, pend = [old EXCEPT ![b] = @ - 1],
           NEW end, end = IF IsReady(pend, b) THEN LaunchEnd(pend, next, b, n) ELSE next
    PROVE  PrefixEnds(n, b, next, pend, end)
<1>1. b >= next
  OBVIOUS
<1>2. pend \in [1..n -> Nat] /\ \A c \in 1..n : pend[c] = IF c = b THEN old[b] - 1 ELSE old[c]
  OBVIOUS
<1>3. ASSUME NEW c \in 1..(next - 1) PROVE pend[c] = 0
  <2>1. c \in 1..n /\ c # b
    BY <1>1
  <2> QED BY <1>2, <2>1
<1>4. CASE IsReady(pend, b) /\ b = next
  <2>1. end = LaunchEnd(pend, next, b, n) /\ b <= next
    BY <1>4
  <2>2. /\ end \in next..(n + 1)
        /\ \A c \in next..(end - 1) : pend[c] = 0
        /\ end <= n => pend[end] > 0
    <3>1. pend \in [1..n -> Nat]
      BY <1>2
    <3>2. LaunchEnd(pend, next, b, n) \in next..(n + 1)
      BY <2>1, <3>1, LaunchEndStops
    <3>3. \A c \in next..(LaunchEnd(pend, next, b, n) - 1) : pend[c] = 0
      BY <2>1, <3>1, LaunchEndStops, ZenonT(30)
    <3>4. LaunchEnd(pend, next, b, n) <= n => pend[LaunchEnd(pend, next, b, n)] > 0
      BY <2>1, <3>1, LaunchEndStops
    <3> QED BY <2>1, <3>2, <3>3, <3>4
  <2>3. ASSUME NEW c \in 1..(end - 1) PROVE pend[c] = 0
    <3>1. c \in 1..(next - 1) \/ c \in next..(end - 1)
      BY <2>2
    <3> QED BY <1>3, <2>2, <3>1
  <2> QED BY <1>1, <1>4, <2>2, <2>3 DEF PrefixEnds
<1>5. CASE ~(IsReady(pend, b) /\ b = next)
  <2>1. end = next
    BY <1>1, <1>5 DEF LaunchEnd
  <2>2. next <= n => pend[next] > 0
    BY <1>2, <1>5 DEF IsReady
  <2>3. next # n + 1 /\ next \in next..(n + 1)
    BY <1>1
  <2>4. end # n + 1 /\ end \in next..(n + 1) /\ (end <= n => pend[end] > 0)
    BY <2>1, <2>2, <2>3
  <2>5. \A c \in 1..(end - 1) : pend[c] = 0
    BY <1>3, <2>1
  <2> QED BY <1>1, <2>4, <2>5 DEF PrefixEnds
<1> QED BY <1>4, <1>5

MarkedValues(r, p) ==
    \A q \in Params :
        /\ overwrite'[r][q] = IF q = p THEN FALSE ELSE overwrite[r][q]
        /\ grad'[r][q] = IF q = p /\ grad[r][p] = "null" THEN "own" ELSE grad[r][q]
        /\ mem'[r][q] = IF q = p THEN Accumulated(r, p) ELSE mem[r][q]
        /\ q # p => own'[r][q] = own[r][q]

LEMMA MarkEffect ==
    ASSUME TypeOK, NEW r \in Ranks, NEW p \in Params, MarkVariableReadyDense(r, p),
           LaunchedPrefix(r), ~allReady[r]
    PROVE  /\ Config /\ \A s \in Ranks \ {r} : Same(s)
           /\ phase[r] = "backward" /\ p \in todo[r]
           /\ ~hasRebuilt[r] => \A q \in todo[r] : engineOrder[p] <= engineOrder[q]
           /\ Len(buckets[r]) \in Nat /\ DOMAIN buckets[r] = 1..Len(buckets[r])
           /\ Bucket(r, p) \in nextBucket[r]..Len(buckets[r])
           /\ nextBucket[r] \in 1..(Len(buckets[r]) + 1)
           /\ nextBucket'[r] \in nextBucket[r]..(Len(buckets[r]) + 1)
           /\ \A c \in 1..(nextBucket'[r] - 1) : pending'[r][c] = 0
           /\ nextBucket'[r] <= Len(buckets[r]) => pending'[r][nextBucket'[r]] > 0
           /\ allReady'[r] <=> nextBucket'[r] = Len(buckets[r]) + 1
           /\ phase'[r] = IF allReady'[r] THEN "finalize" ELSE "backward"
           /\ todo'[r] = todo[r] \ {p}
           /\ work'[r] = work[r] \cup (nextBucket[r]..(nextBucket'[r] - 1))
           /\ comm'[r] = comm[r] \o SubSeq(buckets[r], nextBucket[r], nextBucket'[r] - 1)
           /\ readyOrder'[r] = IF hasRebuilt[r] \/ p \in ParamsIn(readyOrder[r])
                               THEN readyOrder[r] ELSE Append(readyOrder[r], p)
           /\ needRebuild'[r] <=> \/ needRebuild[r]
                                  \/ allReady'[r] /\ ~hasRebuilt[r] /\ readyOrder'[r] # <<>>
           /\ round'[r] = round[r] /\ buckets'[r] = buckets[r] /\ hasRebuilt'[r] = hasRebuilt[r]
           /\ MarkedValues(r, p)
<1> DEFINE order == IF hasRebuilt[r] \/ p \in ParamsIn(readyOrder[r])
                    THEN readyOrder[r] ELSE Append(readyOrder[r], p)
           ready == /\ IsReady(Counts(r, p), Bucket(r, p)) /\ Bucket(r, p) <= nextBucket[r]
                    /\ NextOne(r, p) = Len(buckets[r]) + 1
           all   == allReady[r] \/ ready
<1>1. /\ phase[r] = "backward" /\ p \in todo[r]
      /\ ~hasRebuilt[r] => \A q \in todo[r] : engineOrder[p] <= engineOrder[q]
      /\ overwrite' = [overwrite EXCEPT ![r][p] = FALSE]
      /\ grad'      = [grad EXCEPT ![r][p] = IF @ = "null" THEN "own" ELSE @]
      /\ own'       = [own EXCEPT ![r][p] = IF grad[r][p] = "view" THEN @ ELSE Accumulated(r, p)]
      /\ mem'       = [mem EXCEPT ![r][p] = Accumulated(r, p)]
      /\ readyOrder' = [readyOrder EXCEPT ![r] = order]
      /\ allReady'   = [allReady EXCEPT ![r] = all]
      /\ needRebuild' = [needRebuild EXCEPT ![r] =
             @ \/ (all /\ ~allReady[r] /\ ~hasRebuilt[r] /\ order # <<>>)]
      /\ phase' = [phase EXCEPT ![r] = IF all THEN "finalize" ELSE @]
      /\ Config /\ round' = round /\ forwards' = forwards /\ hasRebuilt' = hasRebuilt
  BY DEF MarkVariableReadyDense, Bucket, Counts, NextOne, Config
<1>2. /\ Len(buckets[r]) \in Nat /\ DOMAIN buckets[r] = 1..Len(buckets[r])
      /\ Bucket(r, p) \in 1..Len(buckets[r]) /\ pending[r][Bucket(r, p)] > 0
      /\ nextBucket[r] \in 1..(Len(buckets[r]) + 1)
      /\ pending' = [pending EXCEPT ![r] = Counts(r, p)]
      /\ nextBucket' = [nextBucket EXCEPT ![r] = NextOne(r, p)]
      /\ work' = [work EXCEPT ![r] = @ \cup (nextBucket[r]..(NextOne(r, p) - 1))]
      /\ comm' = [comm EXCEPT ![r] = @ \o Launched(buckets[r], nextBucket[r], NextOne(r, p))]
      /\ todo' = [todo EXCEPT ![r] = @ \ {p}]
      /\ buckets' = buckets
  BY MarkFacts
<1>3. /\ Bucket(r, p) >= nextBucket[r]
      /\ NextOne(r, p) \in nextBucket[r]..(Len(buckets[r]) + 1)
      /\ \A c \in 1..(NextOne(r, p) - 1) : Counts(r, p)[c] = 0
      /\ NextOne(r, p) <= Len(buckets[r]) => Counts(r, p)[NextOne(r, p)] > 0
      /\ ready <=> NextOne(r, p) = Len(buckets[r]) + 1
  <2>1. pending[r] \in [1..Len(buckets[r]) -> Nat]
    BY <1>2 DEF TypeOK
  <2>2. /\ \A c \in 1..(nextBucket[r] - 1) : pending[r][c] = 0
        /\ nextBucket[r] <= Len(buckets[r]) => pending[r][nextBucket[r]] > 0
    BY DEF LaunchedPrefix
  <2>3. Counts(r, p) = [pending[r] EXCEPT ![Bucket(r, p)] = @ - 1]
    BY DEF Counts
  <2>4. NextOne(r, p) = IF IsReady(Counts(r, p), Bucket(r, p))
                        THEN LaunchEnd(Counts(r, p), nextBucket[r], Bucket(r, p), Len(buckets[r]))
                        ELSE nextBucket[r]
    BY DEF NextOne
  <2>5. PrefixEnds(Len(buckets[r]), Bucket(r, p), nextBucket[r], Counts(r, p), NextOne(r, p))
    BY <1>2, <2>1, <2>2, <2>3, <2>4, PrefixMoves
  <2> QED BY <2>5 DEF PrefixEnds
<1> HIDE DEF order, ready
<1>9. ASSUME NEW s \in Ranks \ {r} PROVE Same(s)
  BY <1>1, <1>2 DEF TypeOK, Same
<1>10. /\ pending'[r] = Counts(r, p) /\ nextBucket'[r] = NextOne(r, p)
       /\ work'[r] = work[r] \cup (nextBucket[r]..(NextOne(r, p) - 1))
       /\ comm'[r] = comm[r] \o SubSeq(buckets[r], nextBucket[r], NextOne(r, p) - 1)
       /\ todo'[r] = todo[r] \ {p}
       /\ buckets'[r] = buckets[r]
  BY <1>2 DEF TypeOK, Launched
<1>11. /\ readyOrder'[r] = order /\ allReady'[r] = all
       /\ needRebuild'[r] = (needRebuild[r] \/ (all /\ ~allReady[r] /\ ~hasRebuilt[r] /\ order # <<>>))
       /\ phase'[r] = IF all THEN "finalize" ELSE "backward"
       /\ round'[r] = round[r] /\ hasRebuilt'[r] = hasRebuilt[r]
  BY <1>1 DEF TypeOK
<1>12. MarkedValues(r, p)
  <2>1. SUFFICES ASSUME NEW q \in Params
                 PROVE  /\ overwrite'[r][q] = IF q = p THEN FALSE ELSE overwrite[r][q]
                        /\ grad'[r][q] = IF q = p /\ grad[r][p] = "null" THEN "own" ELSE grad[r][q]
                        /\ mem'[r][q] = IF q = p THEN Accumulated(r, p) ELSE mem[r][q]
                        /\ q # p => own'[r][q] = own[r][q]
    BY DEF MarkedValues
  <2>2. overwrite'[r][q] = IF q = p THEN FALSE ELSE overwrite[r][q]
    <3>1. overwrite' = [overwrite EXCEPT ![r][p] = FALSE]
      BY <1>1
    <3>2. overwrite \in [Ranks -> [Params -> BOOLEAN]]
      BY DEF TypeOK
    <3>3. CASE q = p
      BY <3>1, <3>2, <3>3
    <3>4. CASE q # p
      BY <3>1, <3>2, <3>4
    <3> QED BY <3>3, <3>4
  <2>3. grad'[r][q] = IF q = p /\ grad[r][p] = "null" THEN "own" ELSE grad[r][q]
    BY <1>1 DEF TypeOK
  <2>4. mem'[r][q] = IF q = p THEN Accumulated(r, p) ELSE mem[r][q]
    BY <1>1 DEF TypeOK
  <2>5. q # p => own'[r][q] = own[r][q]
    BY <1>1 DEF TypeOK
  <2> QED BY <2>2, <2>3, <2>4, <2>5
<1>13. readyOrder'[r] = IF hasRebuilt[r] \/ p \in ParamsIn(readyOrder[r])
                        THEN readyOrder[r] ELSE Append(readyOrder[r], p)
  BY <1>11 DEF order
<1>14. Bucket(r, p) \in nextBucket[r]..Len(buckets[r])
  BY <1>2, <1>3
<1>15. /\ allReady'[r] <=> nextBucket'[r] = Len(buckets[r]) + 1
       /\ phase'[r] = IF allReady'[r] THEN "finalize" ELSE "backward"
       /\ needRebuild'[r] <=> \/ needRebuild[r]
                              \/ allReady'[r] /\ ~hasRebuilt[r] /\ readyOrder'[r] # <<>>
  BY <1>3, <1>10, <1>11
<1>16. /\ nextBucket'[r] \in nextBucket[r]..(Len(buckets[r]) + 1)
       /\ \A c \in 1..(nextBucket'[r] - 1) : pending'[r][c] = 0
       /\ nextBucket'[r] <= Len(buckets[r]) => pending'[r][nextBucket'[r]] > 0
       /\ work'[r] = work[r] \cup (nextBucket[r]..(nextBucket'[r] - 1))
       /\ comm'[r] = comm[r] \o SubSeq(buckets[r], nextBucket[r], nextBucket'[r] - 1)
  BY <1>3, <1>10
<1> QED
  BY <1>1, <1>2, <1>9, <1>10, <1>11, <1>12, <1>13, <1>14, <1>15, <1>16

EndsRound(r) ==
    IF round[r] % AccumSteps = 0
    THEN phase'[r] = "step" /\ round'[r] = round[r]
    ELSE phase'[r] = "forward" /\ round'[r] = round[r] + 1

LEMMA EndRoundEffect ==
    ASSUME TypeOK, NEW r \in Ranks, EndRound(r)
    PROVE  /\ EndsRound(r)
           /\ \A s \in Ranks \ {r} : /\ phase'[s] = phase[s] /\ round'[s] = round[s]
                                     /\ forwards'[s] = forwards[s]
<1>1. CASE round[r] % AccumSteps = 0
  BY <1>1 DEF EndRound, EndsRound, TypeOK
<1>2. CASE round[r] % AccumSteps # 0
  BY <1>2 DEF EndRound, EndsRound, TypeOK
<1> QED BY <1>1, <1>2

LEMMA FinalizeEffect ==
    ASSUME TypeOK, NEW r \in Ranks, FinalizeBackward(r)
    PROVE  /\ Config /\ \A s \in Ranks \ {r} : Same(s)
           /\ phase[r] = "finalize"
           /\ Launchings(r) \cap InFlight(r) = {}
           /\ todo[r] = {} => EndsRound(r)
           /\ todo[r] # {} => phase'[r] = "backward" /\ round'[r] = round[r]
           /\ work'[r] = {} /\ allReady'[r] = FALSE
           /\ todo'[r] = todo[r] /\ grad'[r] = grad[r] /\ overwrite'[r] = overwrite[r]
           /\ mem'[r] = mem[r] /\ buckets'[r] = buckets[r] /\ pending'[r] = pending[r]
           /\ nextBucket'[r] = nextBucket[r] /\ readyOrder'[r] = readyOrder[r]
           /\ needRebuild'[r] = needRebuild[r] /\ hasRebuilt'[r] = hasRebuilt[r]
           /\ comm'[r] = comm[r]
           /\ \A p \in Params :
                 own'[r][p] = IF ~asView /\ p \in Launchings(r) THEN mem[r][p] ELSE own[r][p]
<1>1. /\ phase[r] = "finalize" /\ Launchings(r) \cap InFlight(r) = {}
      /\ own' = [own EXCEPT ![r] =
             [p \in Params |-> IF ~asView /\ p \in Launchings(r) THEN mem[r][p] ELSE @[p]]]
      /\ work' = [work EXCEPT ![r] = {}] /\ allReady' = [allReady EXCEPT ![r] = FALSE]
      /\ todo[r] = {} => EndRound(r)
      /\ todo[r] # {} => /\ phase' = [phase EXCEPT ![r] = "backward"]
                         /\ round' = round /\ forwards' = forwards
      /\ Config
      /\ UNCHANGED <<todo, grad, overwrite, mem, buckets, pending,
                     nextBucket, readyOrder, needRebuild, hasRebuilt, comm>>
  BY DEF FinalizeBackward, Config
<1>2. /\ todo[r] = {} => EndsRound(r)
      /\ todo[r] # {} => phase'[r] = "backward" /\ round'[r] = round[r]
      /\ \A s \in Ranks \ {r} : /\ phase'[s] = phase[s] /\ round'[s] = round[s]
                                /\ forwards'[s] = forwards[s]
  <2>1. CASE todo[r] = {}
    BY <1>1, <2>1, EndRoundEffect
  <2>2. CASE todo[r] # {}
    BY <1>1, <2>2 DEF TypeOK
  <2> QED BY <2>1, <2>2
<1>3. ASSUME NEW s \in Ranks \ {r} PROVE Same(s)
  BY <1>1, <1>2 DEF TypeOK, Same
<1>4. work'[r] = {} /\ allReady'[r] = FALSE
  BY <1>1 DEF TypeOK
<1>5. ASSUME NEW p \in Params
      PROVE  own'[r][p] = IF ~asView /\ p \in Launchings(r) THEN mem[r][p] ELSE own[r][p]
  BY <1>1 DEF TypeOK
<1> QED BY <1>1, <1>2, <1>3, <1>4, <1>5

LEMMA ReturnsEffect ==
    ASSUME TypeOK, NEW r \in Ranks, BackwardReturns(r)
    PROVE  /\ Config /\ \A s \in Ranks \ {r} : Same(s)
           /\ phase[r] = "backward" /\ todo[r] = {} /\ EndsRound(r)
           /\ UNCHANGED <<todo, grad, own, overwrite, mem, buckets, pending, work, nextBucket,
                          readyOrder, needRebuild, hasRebuilt, allReady, comm>>
<1>1. /\ phase[r] = "backward" /\ todo[r] = {} /\ EndRound(r) /\ Config
      /\ UNCHANGED <<todo, grad, own, overwrite, mem, buckets, pending, work, nextBucket,
                     readyOrder, needRebuild, hasRebuilt, allReady, comm>>
  BY DEF BackwardReturns, Config, gradVars, bucketVars, flagVars
<1>2. /\ EndsRound(r)
      /\ \A s \in Ranks \ {r} : /\ phase'[s] = phase[s] /\ round'[s] = round[s]
                                /\ forwards'[s] = forwards[s]
  BY <1>1, EndRoundEffect
<1>3. ASSUME NEW s \in Ranks \ {r} PROVE Same(s)
  BY <1>1, <1>2 DEF Same
<1> QED BY <1>1, <1>2, <1>3

LEMMA OptimizerEffect ==
    ASSUME TypeOK, NEW r \in Ranks, OptimizerStep(r)
    PROVE  /\ Config /\ \A s \in Ranks \ {r} : Same(s)
           /\ phase[r] = "step" /\ phase'[r] = "loss"
           /\ comm'[r] = Append(comm[r], LossReduce)
           /\ UNCHANGED <<round, todo, grad, own, overwrite, mem, buckets, pending, work,
                          nextBucket, readyOrder, needRebuild, hasRebuilt, allReady>>
<1>1. /\ phase[r] = "step" /\ phase' = [phase EXCEPT ![r] = "loss"]
      /\ comm' = [comm EXCEPT ![r] = Append(@, LossReduce)]
      /\ UNCHANGED <<round, forwards, todo, grad, own, overwrite, mem, buckets, pending, work,
                     nextBucket, readyOrder, needRebuild, hasRebuilt, allReady>>
      /\ Config
  BY DEF OptimizerStep, Config, gradVars, bucketVars, flagVars
<1>2. /\ phase'[r] = "loss" /\ comm'[r] = Append(comm[r], LossReduce)
      /\ \A s \in Ranks \ {r} : phase'[s] = phase[s] /\ comm'[s] = comm[s]
  BY <1>1 DEF TypeOK
<1>3. ASSUME NEW s \in Ranks \ {r} PROVE Same(s)
  BY <1>1, <1>2 DEF Same
<1> QED BY <1>1, <1>2, <1>3

LEMMA StartEffect ==
    ASSUME TypeOK, NEW r \in Ranks, NEW z \in BOOLEAN, StartStep(r, z)
    PROVE  /\ Config /\ \A s \in Ranks \ {r} : Same(s)
           /\ phase[r] = "loss"
           /\ \A k \in DOMAIN comm[r] : comm[r][k] # LossReduce
           /\ phase'[r] = IF IsLastRound(round[r]) THEN "done" ELSE "forward"
           /\ round'[r] = IF IsLastRound(round[r]) THEN round[r] ELSE round[r] + 1
           /\ UNCHANGED <<todo, overwrite, buckets, pending, work, nextBucket,
                          readyOrder, needRebuild, hasRebuilt, allReady, comm>>
           /\ \A p \in Params :
                 /\ grad'[r][p] = grad[r][p] \/ grad'[r][p] = "null"
                 /\ phase'[r] = "forward" /\ trainable = Params /\ grad'[r][p] # "null"
                        => IF grad[r][p] = "view" THEN mem'[r][p] = Zero
                           ELSE grad[r][p] = "own" => own'[r][p] = Zero
<1>1. /\ phase[r] = "loss" /\ \A k \in DOMAIN comm[r] : comm[r][k] # LossReduce
      /\ UNCHANGED <<todo, overwrite, buckets, pending, work, nextBucket,
                     readyOrder, needRebuild, hasRebuilt, allReady, comm>>
      /\ Config
  BY DEF StartStep, Config, bucketVars, flagVars
<1>2. CASE IsLastRound(round[r])
  <2>1. phase' = [phase EXCEPT ![r] = "done"] /\ UNCHANGED <<round, forwards, grad, own, mem>>
    BY <1>2 DEF StartStep
  <2>2. phase'[r] = "done" /\ \A s \in Ranks \ {r} : phase'[s] = phase[s]
    BY <2>1 DEF TypeOK
  <2>3. ASSUME NEW s \in Ranks \ {r} PROVE Same(s)
    BY <1>1, <2>1, <2>2 DEF Same
  <2> QED BY <1>1, <1>2, <2>1, <2>2, <2>3
<1>3. CASE ~IsLastRound(round[r])
  <2>1. /\ phase' = [phase EXCEPT ![r] = "forward"]
        /\ round' = [round EXCEPT ![r] = @ + 1]
        /\ forwards' = [forwards EXCEPT ![r] = ForwardsPerBackward]
    BY <1>3 DEF StartStep
  <2>2. /\ phase'[r] = "forward" /\ round'[r] = round[r] + 1
        /\ \A s \in Ranks \ {r} : /\ phase'[s] = phase[s] /\ round'[s] = round[s]
                                  /\ forwards'[s] = forwards[s]
    BY <2>1 DEF TypeOK
  <2>3. CASE z
    <3>1. /\ grad' = [grad EXCEPT ![r] = [p \in Params |-> IF p \in trainable THEN "null" ELSE @[p]]]
          /\ own' = own /\ mem' = mem
      BY <1>3, <2>3 DEF StartStep
    <3>2. \A s \in Ranks \ {r} : grad'[s] = grad[s]
      BY <3>1 DEF TypeOK
    <3>3. \A p \in Params : grad'[r][p] = IF p \in trainable THEN "null" ELSE grad[r][p]
      BY <3>1 DEF TypeOK
    <3>4. ASSUME NEW s \in Ranks \ {r} PROVE Same(s)
      BY <1>1, <2>2, <3>1, <3>2 DEF Same
    <3> QED BY <1>1, <1>3, <2>2, <3>3, <3>4
  <2>4. CASE ~z
    <3>1. /\ grad' = grad
          /\ own' = [own EXCEPT ![r] =
                 [p \in Params |-> IF p \in trainable /\ grad[r][p] = "own" THEN Zero ELSE @[p]]]
          /\ mem' = [mem EXCEPT ![r] =
                 [p \in Params |-> IF p \in trainable /\ grad[r][p] = "view" THEN Zero ELSE @[p]]]
      BY <1>3, <2>4 DEF StartStep
    <3>2. \A s \in Ranks \ {r} : own'[s] = own[s] /\ mem'[s] = mem[s]
      BY <3>1 DEF TypeOK
    <3>3. \A p \in Params :
              /\ p \in trainable /\ grad[r][p] = "own" => own'[r][p] = Zero
              /\ p \in trainable /\ grad[r][p] = "view" => mem'[r][p] = Zero
      BY <3>1 DEF TypeOK
    <3>4. ASSUME NEW s \in Ranks \ {r} PROVE Same(s)
      BY <1>1, <2>2, <3>1, <3>2 DEF Same
    <3> QED BY <1>1, <1>3, <2>2, <3>1, <3>3, <3>4
  <2> QED BY <2>3, <2>4
<1> QED BY <1>2, <1>3

LEMMA CompletesEffect ==
    ASSUME TypeOK, AllReduceCompletes
    PROVE  /\ Config
           /\ UNCHANGED <<phase, round, forwards, todo, grad, own, overwrite, buckets, pending, work,
                          nextBucket, readyOrder, needRebuild, hasRebuilt, allReady>>
           /\ \A r, s \in Ranks : Head(comm[r]) = Head(comm[s])
           /\ \A r \in Ranks :
                 /\ comm[r] # <<>> /\ comm'[r] = Tail(comm[r])
                 /\ \A p \in Params :
                       mem'[r][p] = IF p \in ParamsIn(Head(comm[r]))
                                    THEN Average({mem[s][p] : s \in Ranks}) ELSE mem[r][p]
BY DEF AllReduceCompletes, Config, loopVars, gradVars, bucketVars, flagVars

-----------------------------------------------------------------------------
(* The setting of a run.                                                   *)
Settings == [order : EngineOrders, trainable : TrainableSets]

LEMMA SettingType ==
    ASSUME TypeOK
    PROVE  /\ Setting \in Settings
           /\ Setting.order = engineOrder /\ Setting.trainable = trainable
BY DEF TypeOK, Setting, Settings

LEMMA SettingFixed ==
    ASSUME Config
    PROVE  Setting' = Setting /\ trainable' = trainable /\ engineOrder' = engineOrder
           /\ asView' = asView
BY DEF Config, Setting

LEMMA SettingFacts ==
    ASSUME NEW e \in Settings
    PROVE  /\ e.order \in [Params -> Nat]
           /\ \A p, q \in Params : e.order[p] = e.order[q] => p = q
           /\ e.trainable \subseteq Params
BY EngineOrdersAssumption, CountsAssumption DEF Settings

(* An order that can be recorded is a sequence of different parameters.    *)
LEMMA ReadyOrderFacts ==
    ASSUME NEW o \in ReadyOrders
    PROVE  /\ o \in Seq(Params) /\ Len(o) \in 0..NumParams /\ DOMAIN o = 1..Len(o)
           /\ \A i, j \in 1..Len(o) : o[i] = o[j] => i = j
           /\ ParamsIn(o) \subseteq Params
           /\ Cardinality(ParamsIn(o)) = Len(o)
<1>1. PICK n \in 0..NumParams : o \in [1..n -> Params]
  BY DEF ReadyOrders
<1>2. \A i, j \in 1..n : o[i] = o[j] => i = j
  BY <1>1 DEF ReadyOrders
<1>3. n \in Nat
  BY <1>1, CountsAssumption
<1>4. o \in Seq(Params) /\ Len(o) = n
  BY <1>1, <1>3, SegmentIsSeq
<1>5. o \in [1..n -> ParamsIn(o)]
  BY <1>1 DEF ParamsIn
<1>6. o \in Bijection(1..n, ParamsIn(o))
  BY <1>1, <1>2, <1>5 DEF Bijection, Injection, Surjection, IsInjective, ParamsIn
<1>7. Cardinality(ParamsIn(o)) = n
  <2>1. ExistsBijection(1..n, ParamsIn(o))
    BY <1>6 DEF ExistsBijection
  <2>2. IsFiniteSet(1..n) /\ Cardinality(1..n) = n
    BY <1>3, FS_Interval
  <2> QED BY <2>1, <2>2, FS_Bijection
<1>8. ParamsIn(o) \subseteq Params
  BY <1>1 DEF ParamsIn
<1> QED BY <1>1, <1>2, <1>4, <1>7, <1>8

LEMMA AppendParams ==
    ASSUME NEW o \in Seq(Params), NEW p \in Params
    PROVE  /\ Append(o, p) \in Seq(Params) /\ Len(Append(o, p)) = Len(o) + 1
           /\ DOMAIN Append(o, p) = 1..(Len(o) + 1)
           /\ Append(o, p)[Len(o) + 1] = p
           /\ \A i \in 1..Len(o) : Append(o, p)[i] = o[i]
           /\ ParamsIn(Append(o, p)) = ParamsIn(o) \cup {p}
<1>1. /\ Append(o, p) \in Seq(Params) /\ Len(Append(o, p)) = Len(o) + 1
      /\ DOMAIN Append(o, p) = 1..(Len(o) + 1)
      /\ Append(o, p)[Len(o) + 1] = p
      /\ \A i \in 1..Len(o) : Append(o, p)[i] = o[i]
      /\ DOMAIN o = 1..Len(o) /\ Len(o) \in Nat
  OBVIOUS
<1>2. 1..(Len(o) + 1) = 1..Len(o) \cup {Len(o) + 1}
  BY <1>1
<1>3. ParamsIn(Append(o, p)) = ParamsIn(o) \cup {p}
  <2>1. ASSUME NEW x \in ParamsIn(Append(o, p)) PROVE x \in ParamsIn(o) \cup {p}
    BY <1>1, <1>2 DEF ParamsIn
  <2>2. ASSUME NEW x \in ParamsIn(o) PROVE x \in ParamsIn(Append(o, p))
    <3>1. PICK i \in 1..Len(o) : x = o[i]
      BY <1>1 DEF ParamsIn
    <3>2. i \in DOMAIN Append(o, p) /\ Append(o, p)[i] = x
      BY <1>1, <1>2, <3>1
    <3> QED BY <3>2 DEF ParamsIn
  <2>3. p \in ParamsIn(Append(o, p))
    <3>1. Len(o) + 1 \in DOMAIN Append(o, p)
      BY <1>1
    <3> QED BY <1>1, <3>1 DEF ParamsIn
  <2> QED BY <2>1, <2>2, <2>3
<1> QED BY <1>1, <1>3

(* Recording the least parameter that is left keeps the order ascending.   *)
LEMMA AscendingAppend ==
    ASSUME NEW e \in Settings, NEW o \in ReadyOrders, NEW p \in Params,
           Ascending(e, o), \A q \in ParamsIn(o) : e.order[q] < e.order[p]
    PROVE  Ascending(e, Append(o, p))
<1>1. o \in Seq(Params) /\ DOMAIN o = 1..Len(o) /\ Len(o) \in Nat
  BY ReadyOrderFacts, CountsAssumption
<1>2. /\ DOMAIN Append(o, p) = 1..(Len(o) + 1) /\ Append(o, p)[Len(o) + 1] = p
      /\ \A i \in 1..Len(o) : Append(o, p)[i] = o[i]
  BY <1>1, AppendParams
<1>3. ASSUME NEW i \in 1..(Len(o) + 1), NEW j \in 1..(Len(o) + 1), i < j
      PROVE  e.order[Append(o, p)[i]] < e.order[Append(o, p)[j]]
  <2>1. i \in 1..Len(o) /\ Append(o, p)[i] = o[i] /\ o[i] \in ParamsIn(o)
    BY <1>1, <1>2, <1>3 DEF ParamsIn
  <2>2. CASE j = Len(o) + 1
    BY <1>2, <2>1, <2>2
  <2>3. CASE j # Len(o) + 1
    <3>1. j \in 1..Len(o)
      BY <1>1, <2>3
    <3> QED BY <1>1, <1>2, <1>3, <2>1, <3>1 DEF Ascending
  <2> QED BY <2>2, <2>3
<1> QED BY <1>2, <1>3 DEF Ascending

(* The engine order sorts the parameters in one way only.                  *)
LEMMA SortedUnique ==
    ASSUME NEW e \in Settings, NEW o \in ReadyOrders, NEW u \in ReadyOrders,
           Ascending(e, o), Ascending(e, u), ParamsIn(o) = Params, ParamsIn(u) = Params
    PROVE  o = u
<1> DEFINE n == Len(o)
           D == {i \in 1..n : o[i] # u[i]}
<1>1. /\ n \in Nat /\ Len(u) = n /\ DOMAIN o = 1..n /\ DOMAIN u = 1..n
      /\ o \in Seq(Params) /\ u \in Seq(Params)
      /\ \A i, j \in 1..n : o[i] = o[j] => i = j
      /\ \A i, j \in 1..n : u[i] = u[j] => i = j
  BY ReadyOrderFacts, CountsAssumption
<1>2. e.order \in [Params -> Nat]
  BY SettingFacts
<1> HIDE DEF n
<1>3. SUFFICES ASSUME D # {} PROVE FALSE
  <2>1. D = {} => \A i \in 1..n : o[i] = u[i]
    OBVIOUS
  <2> QED BY <1>1, <2>1
<1>4. D \in SUBSET Nat
  BY <1>1
<1>5. PICK x \in D : \A y \in D : x <= y
  BY <1>3, <1>4, LeastNat
<1>6. x \in 1..n /\ o[x] # u[x] /\ \A y \in 1..n : y < x => o[y] = u[y]
  BY <1>1, <1>5
<1>7. o[x] \in Params /\ u[x] \in Params
  BY <1>1, <1>6
<1>8. e.order[u[x]] < e.order[o[x]]
  <2>1. PICK j \in 1..n : u[j] = o[x]
    BY <1>1, <1>7 DEF ParamsIn
  <2>2. j > x
    BY <1>1, <1>6, <2>1
  <2> QED BY <1>1, <1>6, <2>1, <2>2 DEF Ascending
<1>9. e.order[o[x]] < e.order[u[x]]
  <2>1. PICK j \in 1..n : o[j] = u[x]
    BY <1>1, <1>7 DEF ParamsIn
  <2>2. j > x
    BY <1>1, <1>6, <2>1
  <2> QED BY <1>1, <1>6, <2>1, <2>2 DEF Ascending
<1> QED BY <1>2, <1>7, <1>8, <1>9

(* There is such an order: a longest recording of least parameters.        *)
Initial(e, o) ==
    /\ Ascending(e, o)
    /\ \A p \in ParamsIn(o) : \A q \in Params \ ParamsIn(o) : e.order[p] < e.order[q]

LEMMA InitialGrows ==
    ASSUME NEW e \in Settings, NEW o \in ReadyOrders, Initial(e, o), ParamsIn(o) # Params
    PROVE  \E u \in ReadyOrders : Initial(e, u) /\ Len(u) = Len(o) + 1
<1>1. /\ e.order \in [Params -> Nat]
      /\ \A p, q \in Params : e.order[p] = e.order[q] => p = q
  BY SettingFacts
<1>2. o \in Seq(Params) /\ ParamsIn(o) \subseteq Params
  BY ReadyOrderFacts
<1> DEFINE T == {e.order[q] : q \in Params \ ParamsIn(o)}
<1>3. T \in SUBSET Nat /\ T # {}
  <2>1. PICK q \in Params : q \notin ParamsIn(o)
    BY <1>2
  <2>2. e.order[q] \in T
    BY <2>1
  <2>3. \A y \in Params : e.order[y] \in Nat
    BY <1>1
  <2> QED BY <2>2, <2>3
<1>4. PICK x \in T : \A y \in T : x <= y
  <2> HIDE DEF T
  <2> QED BY <1>3, LeastNat
<1>5. PICK p \in Params \ ParamsIn(o) : x = e.order[p]
  BY <1>4
<1>6. \A q \in Params \ ParamsIn(o) : q # p => e.order[p] < e.order[q]
  <2> SUFFICES ASSUME NEW q \in Params \ ParamsIn(o), q # p PROVE e.order[p] < e.order[q]
    OBVIOUS
  <2>1. e.order[p] <= e.order[q] /\ e.order[p] # e.order[q]
    BY <1>1, <1>4, <1>5
  <2>2. e.order[p] \in Nat /\ e.order[q] \in Nat
    BY <1>1
  <2> QED BY <2>1, <2>2
<1>7. Append(o, p) \in ReadyOrders
  BY RecordReady
<1>8. Len(Append(o, p)) = Len(o) + 1 /\ ParamsIn(Append(o, p)) = ParamsIn(o) \cup {p}
  BY <1>2, AppendParams
<1>9. Ascending(e, Append(o, p))
  BY AscendingAppend DEF Initial
<1>10. Initial(e, Append(o, p))
  BY <1>6, <1>8, <1>9 DEF Initial
<1> QED BY <1>7, <1>8, <1>10

LEMMA SortedExists ==
    ASSUME NEW e \in Settings
    PROVE  \E o \in ReadyOrders : Ascending(e, o) /\ ParamsIn(o) = Params
<1> DEFINE T == {NumParams - Len(o) : o \in {u \in ReadyOrders : Initial(e, u)}}
<1>1. T \in SUBSET Nat
  BY ReadyOrderFacts, CountsAssumption
<1>2. T # {}
  <2>1. <<>> \in UNION {[1..n -> Params] : n \in 0..NumParams}
    BY CountsAssumption
  <2>2. \A i, j \in DOMAIN <<>> : <<>>[i] = <<>>[j] => i = j
    OBVIOUS
  <2>3. <<>> \in ReadyOrders
    BY <2>1, <2>2 DEF ReadyOrders
  <2>4. Initial(e, <<>>)
    BY DEF Initial, Ascending, ParamsIn
  <2> QED BY <2>3, <2>4
<1>3. PICK x \in T : \A y \in T : x <= y
  <2> HIDE DEF T
  <2> QED BY <1>1, <1>2, LeastNat
<1>4. PICK o \in ReadyOrders : Initial(e, o) /\ x = NumParams - Len(o)
  BY <1>3
<1>5. ParamsIn(o) = Params
  <2> SUFFICES ASSUME ParamsIn(o) # Params PROVE FALSE
    OBVIOUS
  <2>1. PICK u \in ReadyOrders : Initial(e, u) /\ Len(u) = Len(o) + 1
    BY <1>4, InitialGrows
  <2>2. NumParams - Len(u) \in T
    BY <2>1
  <2>3. Len(o) \in Nat /\ NumParams \in Nat
    BY ReadyOrderFacts, CountsAssumption
  <2>4. x <= NumParams - Len(u)
    BY <1>3, <2>2
  <2> QED BY <1>4, <2>1, <2>3, <2>4
<1> QED BY <1>4, <1>5 DEF Initial

LEMMA SortedIs ==
    ASSUME NEW e \in Settings
    PROVE  /\ SortedParams(e) \in ReadyOrders
           /\ \A o \in ReadyOrders :
                 Ascending(e, o) /\ ParamsIn(o) = Params => SortedParams(e) = o
<1>1. /\ SortedParams(e) \in ReadyOrders
      /\ Ascending(e, SortedParams(e)) /\ ParamsIn(SortedParams(e)) = Params
  BY SortedExists DEF SortedParams
<1> QED BY <1>1, SortedUnique

-----------------------------------------------------------------------------
(* The history of collectives.                                             *)

LEMMA BucketsOfType ==
    ASSUME NEW e \in Settings, NEW i \in Nat \ {0}
    PROVE  /\ IsBucketList(BucketsOf(e, i))
           /\ Len(BucketsOf(e, i)) \in Nat
           /\ DOMAIN BucketsOf(e, i) = 1..Len(BucketsOf(e, i))
           /\ i > 1 => BucketsOf(e, i) = BucketsOf(e, 2)
<1>1. IsBucketList(BucketsOf(e, i))
  BY SortedIs, BucketsAssumption DEF BucketsOf
<1>2. /\ Len(BucketsOf(e, i)) \in Nat
      /\ DOMAIN BucketsOf(e, i) = 1..Len(BucketsOf(e, i))
  <2> DEFINE bs == BucketsOf(e, i)
  <2>1. bs \in Seq(Seq(Params) \ {<<>>})
    BY <1>1, BucketListIs
  <2> HIDE DEF bs
  <2>2. Len(bs) \in Nat /\ DOMAIN bs = 1..Len(bs)
    BY <2>1
  <2> QED BY <2>2 DEF bs
<1>3. i > 1 => BucketsOf(e, i) = BucketsOf(e, 2)
  BY DEF BucketsOf
<1> QED BY <1>1, <1>2, <1>3

LEMMA LaunchCountUnique ==
    ASSUME NEW e, NEW bs, Len(bs) \in Nat,
           NEW m \in 0..Len(bs), NEW k \in 0..Len(bs),
           IsLaunchCount(e, bs, m), IsLaunchCount(e, bs, k)
    PROVE  m = k
<1>1. ~(m < k)
  <2> SUFFICES ASSUME m < k PROVE FALSE
    OBVIOUS
  <2>1. m < Len(bs) /\ m + 1 \in 1..k
    OBVIOUS
  <2> QED BY <2>1 DEF IsLaunchCount
<1>2. ~(k < m)
  <2> SUFFICES ASSUME k < m PROVE FALSE
    OBVIOUS
  <2>1. k < Len(bs) /\ k + 1 \in 1..m
    OBVIOUS
  <2> QED BY <2>1 DEF IsLaunchCount
<1> QED BY <1>1, <1>2

LEMMA LaunchCountExists ==
    ASSUME NEW e, NEW bs, Len(bs) \in Nat
    PROVE  \E m \in 0..Len(bs) : IsLaunchCount(e, bs, m)
<1> DEFINE n == Len(bs)
           T == {m \in 0..n : m = n \/ ~(ParamsIn(bs[m + 1]) \subseteq e.trainable)}
<1>1. T \in SUBSET Nat /\ T # {}
  <2>1. n \in T
    OBVIOUS
  <2> QED BY <2>1
<1>2. PICK m \in T : \A y \in T : m <= y
  <2> HIDE DEF T
  <2> QED BY <1>1, LeastNat
<1>3. ASSUME NEW c \in 1..m PROVE ParamsIn(bs[c]) \subseteq e.trainable
  <2>1. c - 1 \notin T /\ c - 1 \in 0..n /\ c - 1 # n
    BY <1>2
  <2>2. ParamsIn(bs[(c - 1) + 1]) \subseteq e.trainable
    BY <2>1
  <2>3. (c - 1) + 1 = c
    OBVIOUS
  <2> QED BY <2>2, <2>3
<1>4. m < Len(bs) => ~(ParamsIn(bs[m + 1]) \subseteq e.trainable)
  BY <1>2
<1> QED BY <1>2, <1>3, <1>4 DEF IsLaunchCount

LEMMA LaunchesType ==
    ASSUME NEW e \in Settings, NEW i \in Nat \ {0}
    PROVE  /\ Launches(e, i) \in 0..Len(BucketsOf(e, i)) /\ Launches(e, i) \in Nat
           /\ IsLaunchCount(e, BucketsOf(e, i), Launches(e, i))
           /\ i > 1 => Launches(e, i) = Launches(e, 2)
<1>1. Len(BucketsOf(e, i)) \in Nat
  BY BucketsOfType
<1>2. \E m \in 0..Len(BucketsOf(e, i)) : IsLaunchCount(e, BucketsOf(e, i), m)
  BY <1>1, LaunchCountExists
<1>3. /\ Launches(e, i) \in 0..Len(BucketsOf(e, i))
      /\ IsLaunchCount(e, BucketsOf(e, i), Launches(e, i))
  BY <1>2 DEF Launches
<1>4. i > 1 => Launches(e, i) = Launches(e, 2)
  BY BucketsOfType DEF Launches
<1> QED BY <1>1, <1>3, <1>4

LEMMA Division ==
    ASSUME NEW a \in Nat \ {0}, NEW i \in Nat \ {0}
    PROVE  /\ i \div a \in Nat /\ (i - 1) \div a \in Nat
           /\ i % a \in 0..(a - 1) /\ (i - 1) % a \in 0..(a - 1)
           /\ i % a = 0 => /\ i \div a = ((i - 1) \div a) + 1
                           /\ (i - 1) % a = a - 1
           /\ i % a # 0 => /\ i \div a = (i - 1) \div a
                           /\ i % a = ((i - 1) % a) + 1
<1>1. PICK q : q = i \div a
  OBVIOUS
<1>2. PICK u : u = (i - 1) \div a
  OBVIOUS
<1>3. PICK m : m = i % a
  OBVIOUS
<1>4. PICK k : k = (i - 1) % a
  OBVIOUS
<1>5. q \in Nat /\ m \in 0..(a - 1) /\ i = a * q + m
  BY <1>1, <1>3
<1>6. u \in Nat /\ k \in 0..(a - 1) /\ i - 1 = a * u + k
  BY <1>2, <1>4
<1>7. a * (q - u) = k - m + 1
  <2>1. \A x, y, z \in Int : x * (y - z) = x * y - x * z
    OBVIOUS
  <2>2. \A y \in Nat : a * y \in Nat
    OBVIOUS
  <2> QED BY <1>5, <1>6, <2>1, <2>2
<1>8. q - u \in {0, 1}
  <2>1. k - m + 1 \in (2 - a)..a
    BY <1>5, <1>6
  <2>2. \A d \in Int : d >= 2 => a * d > a
    OBVIOUS
  <2>3. \A d \in Int : d <= -1 => a * d <= -a
    OBVIOUS
  <2>4. q - u \in Int
    BY <1>5, <1>6
  <2> QED BY <1>5, <1>6, <1>7, <2>1, <2>2, <2>3, <2>4
<1>9. q - u = 0 => m = k + 1
  BY <1>5, <1>6, <1>7
<1>10. q - u = 1 => m = 0 /\ k = a - 1
  BY <1>5, <1>6, <1>7
<1> QED BY <1>1, <1>2, <1>3, <1>4, <1>5, <1>6, <1>8, <1>9, <1>10

LEMMA BaseNext ==
    ASSUME NEW e \in Settings, NEW i \in Nat \ {0}
    PROVE  /\ Base(e, i) \in Nat
           /\ Base(e, i + 1) = Base(e, i) + Launches(e, i) + (IF i % AccumSteps = 0 THEN 1 ELSE 0)
<1>1. Launches(e, 1) \in Nat /\ Launches(e, 2) \in Nat
      /\ (i > 1 => Launches(e, i) = Launches(e, 2))
  BY LaunchesType
<1>2. /\ i \div AccumSteps \in Nat /\ (i - 1) \div AccumSteps \in Nat
      /\ i \div AccumSteps = ((i - 1) \div AccumSteps) + (IF i % AccumSteps = 0 THEN 1 ELSE 0)
  <2>1. PICK a \in Nat \ {0} : a = AccumSteps
    BY CountsAssumption
  <2>2. /\ i \div a \in Nat /\ (i - 1) \div a \in Nat
        /\ i % a = 0 => i \div a = ((i - 1) \div a) + 1
        /\ i % a # 0 => i \div a = (i - 1) \div a
    BY Division, Zenon
  <2>3. i \div a = ((i - 1) \div a) + (IF i % a = 0 THEN 1 ELSE 0)
    BY <2>2
  <2> QED BY <2>1, <2>2, <2>3
<1>3. 0 \div AccumSteps = 0
  BY CountsAssumption
<1>4. \A m \in Nat : i > 1 => (i - 1) * m = (i - 2) * m + m /\ (i - 2) * m \in Nat
  <2>1. \A m \in Nat, k \in Nat : (k + 1) * m = k * m + m /\ k * m \in Nat
    OBVIOUS
  <2>2. i > 1 => i - 2 \in Nat /\ (i - 2) + 1 = i - 1
    OBVIOUS
  <2> QED BY <2>1, <2>2
<1>5. i + 1 # 1 /\ (i + 1) - 2 = i - 1 /\ (i + 1) - 1 = i
  OBVIOUS
<1>6. Base(e, i + 1) = Launches(e, 1) + (i - 1) * Launches(e, 2) + (i \div AccumSteps)
  BY <1>5 DEF Base
<1>7. CASE i = 1
  <2>1. (i - 1) * Launches(e, 2) = 0
    BY <1>1, <1>7
  <2>2. (i - 1) \div AccumSteps = 0
    BY <1>3, <1>7
  <2> QED BY <1>1, <1>2, <1>6, <1>7, <2>1, <2>2 DEF Base
<1>8. CASE i > 1
  <2>1. Base(e, i) = Launches(e, 1) + (i - 2) * Launches(e, 2) + ((i - 1) \div AccumSteps)
    BY <1>8 DEF Base
  <2>2. /\ (i - 1) * Launches(e, 2) = (i - 2) * Launches(e, 2) + Launches(e, 2)
        /\ (i - 2) * Launches(e, 2) \in Nat
    BY <1>1, <1>4, <1>8
  <2> QED BY <1>1, <1>2, <1>6, <1>8, <2>1, <2>2
<1> QED BY <1>7, <1>8

LEMMA BaseGrows ==
    ASSUME NEW e \in Settings, NEW i \in Nat \ {0}, NEW j \in Nat \ {0}, i < j
    PROVE  Base(e, j) >= Base(e, i + 1)
<1>1. Launches(e, 1) \in Nat /\ Launches(e, 2) \in Nat
  BY LaunchesType
<1>2. /\ Base(e, i + 1) = Launches(e, 1) + (i - 1) * Launches(e, 2) + (i \div AccumSteps)
      /\ Base(e, j) = Launches(e, 1) + (j - 2) * Launches(e, 2) + ((j - 1) \div AccumSteps)
  BY DEF Base
<1>3. (i - 1) * Launches(e, 2) <= (j - 2) * Launches(e, 2)
      /\ (i - 1) * Launches(e, 2) \in Nat /\ (j - 2) * Launches(e, 2) \in Nat
  <2>1. \A x, y, m \in Nat : x <= y => x * m <= y * m /\ x * m \in Nat /\ y * m \in Nat
    OBVIOUS
  <2>2. i - 1 \in Nat /\ j - 2 \in Nat /\ i - 1 <= j - 2
    OBVIOUS
  <2> QED BY <1>1, <2>1, <2>2
<1>4. /\ i \div AccumSteps <= (j - 1) \div AccumSteps
      /\ i \div AccumSteps \in Nat /\ (j - 1) \div AccumSteps \in Nat
  <2>1. PICK q : q = i \div AccumSteps
    OBVIOUS
  <2>2. PICK u : u = (j - 1) \div AccumSteps
    OBVIOUS
  <2>3. PICK a \in Nat \ {0} : a = AccumSteps
    BY CountsAssumption
  <2>4. q \in Nat /\ a * q <= i
    BY <2>1, <2>3
  <2>5. u \in Nat /\ j - 1 < a * u + a
    BY <2>2, <2>3
  <2>6. a * q < a * (u + 1)
    BY <2>4, <2>5
  <2>7. \A x, y \in Nat : a * x < a * y => x < y
    OBVIOUS
  <2>8. q < u + 1
    BY <2>4, <2>5, <2>6, <2>7
  <2> QED BY <2>1, <2>2, <2>4, <2>5, <2>8
<1> QED BY <1>1, <1>2, <1>3, <1>4

(* A position of the history belongs to one place of one round.            *)
LEMMA PlaceUnique ==
    ASSUME NEW e \in Settings,
           NEW i, NEW b, InRound(e, i, b), NEW j, NEW c, InRound(e, j, c),
           Base(e, i) + b = Base(e, j) + c
    PROVE  i = j /\ b = c
<1>1. i \in Nat \ {0} /\ j \in Nat \ {0}
  BY SomeRounds DEF InRound, Rounds
<1>2. /\ Base(e, i) \in Nat /\ Base(e, j) \in Nat
      /\ Launches(e, i) \in Nat /\ Launches(e, j) \in Nat
  BY <1>1, BaseNext, LaunchesType
<1>3. /\ b \in 1..(Launches(e, i) + 1) /\ c \in 1..(Launches(e, j) + 1)
      /\ Base(e, i) + b <= Base(e, i + 1) /\ Base(e, j) + c <= Base(e, j + 1)
  <2>1. b \in 1..(Launches(e, i) + 1) /\ (b = Launches(e, i) + 1 => i % AccumSteps = 0)
    BY DEF InRound
  <2>2. c \in 1..(Launches(e, j) + 1) /\ (c = Launches(e, j) + 1 => j % AccumSteps = 0)
    BY DEF InRound
  <2>3. Base(e, i) + b <= Base(e, i + 1)
    BY <1>1, <1>2, <2>1, BaseNext
  <2>4. Base(e, j) + c <= Base(e, j + 1)
    BY <1>1, <1>2, <2>2, BaseNext
  <2> QED BY <2>1, <2>2, <2>3, <2>4
<1>4. ~(i < j)
  <2> SUFFICES ASSUME i < j PROVE FALSE
    OBVIOUS
  <2>1. Base(e, j) >= Base(e, i + 1)
    BY <1>1, BaseGrows
  <2>2. Base(e, i + 1) \in Nat
    BY <1>1, BaseNext
  <2> QED BY <1>2, <1>3, <2>1, <2>2
<1>5. ~(j < i)
  <2> SUFFICES ASSUME j < i PROVE FALSE
    OBVIOUS
  <2>1. Base(e, i) >= Base(e, j + 1)
    BY <1>1, BaseGrows
  <2>2. Base(e, j + 1) \in Nat
    BY <1>1, BaseNext
  <2> QED BY <1>2, <1>3, <2>1, <2>2
<1>6. i = j
  BY <1>1, <1>4, <1>5
<1> QED BY <1>2, <1>3, <1>6

LEMMA HistoryIsFunction ==
    ASSUME NEW e \in Settings, NEW n, NEW v, NEW w, IsAt(e, n, v), IsAt(e, n, w)
    PROVE  v = w
<1>1. PICK i, b : InRound(e, i, b) /\ n = Base(e, i) + b /\ v = Collective(e, i, b)
  BY DEF IsAt
<1>2. PICK j, c : InRound(e, j, c) /\ n = Base(e, j) + c /\ w = Collective(e, j, c)
  BY DEF IsAt
<1>3. i = j /\ b = c
  BY <1>1, <1>2, PlaceUnique
<1> QED BY <1>1, <1>2, <1>3

-----------------------------------------------------------------------------
(* Counts and the gradients that are outstanding.                          *)
Waits(bs, pend, out) == \A b \in DOMAIN bs : pend[b] = Cardinality(ParamsIn(bs[b]) \cap out)
Out(r) == todo[r] \cup (Params \ trainable)

LEMMA Waiting ==
    ASSUME NEW bs, IsBucketList(bs), NEW pend, NEW out, Waits(bs, pend, out), NEW b \in DOMAIN bs
    PROVE  pend[b] \in Nat /\ (pend[b] = 0 <=> ParamsIn(bs[b]) \cap out = {})
<1>1. IsFiniteSet(ParamsIn(bs[b]) \cap out)
  BY BucketSize, FS_Intersection
<1>2. pend[b] = Cardinality(ParamsIn(bs[b]) \cap out)
  BY DEF Waits
<1> QED BY <1>1, <1>2, FS_EmptySet, FS_CardinalityType

LEMMA NoneLeft ==
    ASSUME NEW bs, IsBucketList(bs), NEW pend, NEW out \in SUBSET Params, Waits(bs, pend, out),
           \A b \in DOMAIN bs : pend[b] = 0
    PROVE  out = {}
<1> SUFFICES ASSUME NEW p \in out PROVE FALSE
  OBVIOUS
<1>1. Locator(bs, p) \in DOMAIN bs /\ p \in ParamsIn(bs[Locator(bs, p)])
  BY LocatorUnique
<1>2. ParamsIn(bs[Locator(bs, p)]) \cap out = {}
  BY <1>1, Waiting
<1> QED BY <1>1, <1>2

LEMMA SomeLeft ==
    ASSUME NEW bs, IsBucketList(bs), NEW pend, NEW out, Waits(bs, pend, out),
           NEW b \in DOMAIN bs, pend[b] > 0
    PROVE  out # {}
<1>1. ParamsIn(bs[b]) \cap out # {}
  BY Waiting
<1> QED BY <1>1

LEMMA WaitsNow ==
    ASSUME CountInv, NEW r \in Ranks, Busy(r)
    PROVE  Waits(buckets[r], pending[r], Out(r))
BY DEF CountInv, Busy, Waits, Out, Outstanding

LEMMA WaitsNext ==
    ASSUME CountInv', NEW r \in Ranks, phase'[r] \in {"backward", "finalize"}
    PROVE  Waits(buckets'[r], pending'[r], todo'[r] \cup (Params \ trainable'))
BY DEF CountInv, Waits, Outstanding

LEMMA RankTypes ==
    ASSUME TypeOK, NEW r \in Ranks
    PROVE  /\ todo[r] \subseteq trainable /\ trainable \subseteq Params
           /\ IsBucketList(buckets[r])
           /\ Len(buckets[r]) \in Nat /\ DOMAIN buckets[r] = 1..Len(buckets[r])
           /\ nextBucket[r] \in 1..(Len(buckets[r]) + 1)
           /\ readyOrder[r] \in ReadyOrders
           /\ round[r] \in Rounds /\ round[r] \in Nat \ {0}
           /\ needRebuild[r] \in BOOLEAN /\ hasRebuilt[r] \in BOOLEAN /\ allReady[r] \in BOOLEAN
           /\ comm[r] \in Seq(Seq(Params))
           /\ 1 \in Params
<1>1. buckets[r] \in Seq(Seq(Params))
  BY DEF TypeOK
<1>2. Len(buckets[r]) \in Nat /\ DOMAIN buckets[r] = 1..Len(buckets[r])
  BY <1>1
<1>3. round[r] \in Rounds /\ round[r] \in Nat \ {0}
  BY SomeRounds DEF TypeOK, Rounds
<1> QED BY <1>2, <1>3, CountsAssumption DEF TypeOK, Params

LEMMA RankFrame ==
    ASSUME Config, NEW s, Same(s), PhaseInv(s), RebuildInv(s)
    PROVE  PhaseInv(s)' /\ RebuildInv(s)'
<1>1. PhaseInv(s)'
  BY DEF Config, Same, PhaseInv, Busy, LaunchedPrefix
<1>2. Setting' = Setting
  BY SettingFixed
<1>3. (Recorded(s) => Recorded(s)') /\ (NotRebuilt(s) => NotRebuilt(s)') /\ (HasRebuilt(s) => HasRebuilt(s)')
  BY <1>2 DEF Config, Same, Recorded, NotRebuilt, HasRebuilt
<1>4. AboutToRebuild(s) => AboutToRebuild(s)'
  BY <1>3 DEF Same, AboutToRebuild
<1>5. phase'[s] = phase[s] /\ round'[s] = round[s] /\ readyOrder'[s] = readyOrder[s] /\ trainable' = trainable
  BY DEF Config, Same
<1> QED BY <1>1, <1>3, <1>4, <1>5 DEF RebuildInv

-----------------------------------------------------------------------------
(* A rank by itself: no step breaks its invariant.                         *)

LEMMA NewBucketsType ==
    ASSUME TypeOK, NEW r \in Ranks
    PROVE  IsBucketList(NewBuckets(r))
BY RebuiltType DEF NewBuckets

LEMMA PreparePhase ==
    ASSUME TypeOK, NEW r \in Ranks, PrepareForBackward(r), PhaseInv(r)
    PROVE  PhaseInv(r)'
<1>1. /\ phase[r] = "forward" /\ trainable' = trainable
      /\ phase'[r] = IF forwards[r] = 1 THEN "backward" ELSE "forward"
      /\ todo'[r] = IF forwards[r] = 1 THEN trainable ELSE todo[r]
      /\ allReady'[r] = allReady[r] /\ nextBucket'[r] = 1
      /\ buckets'[r] = NewBuckets(r)
      /\ pending'[r] = FreshPending(NewBuckets(r), pending[r])
  BY PrepareEffect DEF Config
<1>2. LaunchedPrefix(r)'
  <2>1. IsBucketList(NewBuckets(r))
    BY NewBucketsType
  <2>2. DOMAIN NewBuckets(r) = 1..Len(NewBuckets(r)) /\ Len(NewBuckets(r)) \in Nat
    BY <2>1, FreshPendingType
  <2>3. ASSUME 1 <= Len(NewBuckets(r)) PROVE pending'[r][1] > 0
    <3>1. 1 \in DOMAIN NewBuckets(r)
      BY <2>2, <2>3
    <3>2. NewBuckets(r)[1] \in Seq(Params) /\ NewBuckets(r)[1] # <<>>
      BY <2>1, <3>1, BucketListIs
    <3>3. Len(NewBuckets(r)[1]) > 0
      BY <3>2
    <3> QED BY <1>1, <3>1, <3>3 DEF FreshPending
  <2>4. \A b \in 1..(1 - 1) : pending'[r][b] = 0
    OBVIOUS
  <2> QED BY <1>1, <2>3, <2>4 DEF LaunchedPrefix
<1>3. trainable = Params => trainable # {}
  BY RankTypes
<1> QED BY <1>1, <1>2, <1>3 DEF PhaseInv, Busy

LEMMA PrepareRebuild ==
    ASSUME TypeOK, NEW r \in Ranks, PrepareForBackward(r), PhaseInv(r), RebuildInv(r)
    PROVE  RebuildInv(r)'
<1>1. /\ phase[r] = "forward" /\ Config
      /\ phase'[r] = IF forwards[r] = 1 THEN "backward" ELSE "forward"
      /\ todo'[r] = IF forwards[r] = 1 THEN trainable ELSE todo[r]
      /\ buckets'[r] = NewBuckets(r) /\ round'[r] = round[r]
      /\ hasRebuilt'[r] = (hasRebuilt[r] \/ Rebuilds(r))
      /\ needRebuild'[r] = (needRebuild[r] /\ ~Rebuilds(r))
      /\ readyOrder'[r] = <<>>
  BY PrepareEffect
<1>2. Setting' = Setting /\ trainable' = trainable
  BY <1>1, SettingFixed
<1>3. ASSUME NotRebuilt(r) PROVE NotRebuilt(r)'
  BY <1>1, <1>3 DEF NotRebuilt, NewBuckets, Moves, Rebuilds
<1>4. ASSUME HasRebuilt(r) PROVE HasRebuilt(r)'
  BY <1>1, <1>2, <1>4 DEF HasRebuilt, NewBuckets, Moves, Rebuilds
<1>5. ASSUME AboutToRebuild(r), trainable = Params PROVE HasRebuilt(r)'
  <2>1. readyOrder[r] \in ReadyOrders /\ ParamsIn(readyOrder[r]) = Params
        /\ Ascending(Setting, readyOrder[r])
    BY <1>5, RankTypes DEF AboutToRebuild, Recorded
  <2>2. SortedParams(Setting) = readyOrder[r]
    BY <2>1, SettingType, SortedIs
  <2>3. readyOrder[r] # <<>>
    <3>1. ParamsIn(<<>>) = {}
      BY DEF ParamsIn
    <3> QED BY <2>1, <3>1, RankTypes
  <2>4. Rebuilds(r) /\ Moves(r)
    BY <1>5, <2>3 DEF AboutToRebuild, Rebuilds, Moves
  <2>5. buckets'[r] = BucketsOf(Setting, 2)
    BY <1>1, <1>5, <2>2, <2>4, SettingType DEF NewBuckets, BucketsOf
  <2> QED BY <1>1, <1>2, <2>4, <2>5 DEF HasRebuilt
<1>6. phase'[r] = "backward" => Recorded(r)'
  <2>1. ParamsIn(<<>>) = {}
    BY DEF ParamsIn
  <2>2. \A e : Ascending(e, <<>>)
    BY DEF Ascending
  <2> QED BY <1>1, <1>2, <2>1, <2>2 DEF Recorded
<1>7. phase'[r] \in {"forward", "backward"}
  BY <1>1
<1> QED BY <1>1, <1>2, <1>3, <1>4, <1>5, <1>6, <1>7 DEF RebuildInv

LEMMA MarkPhase ==
    ASSUME TypeOK, TypeOK', CountInv', NEW r \in Ranks, NEW p \in Params,
           MarkVariableReadyDense(r, p), PhaseInv(r)
    PROVE  PhaseInv(r)' /\ (allReady'[r] => trainable = Params)
<1>1. phase[r] = "backward"
  BY DEF MarkVariableReadyDense
<1>2. LaunchedPrefix(r) /\ ~allReady[r]
  BY <1>1 DEF PhaseInv, Busy
<1>3. /\ trainable' = trainable /\ buckets'[r] = buckets[r]
      /\ nextBucket'[r] \in nextBucket[r]..(Len(buckets[r]) + 1)
      /\ \A c \in 1..(nextBucket'[r] - 1) : pending'[r][c] = 0
      /\ nextBucket'[r] <= Len(buckets[r]) => pending'[r][nextBucket'[r]] > 0
      /\ allReady'[r] <=> nextBucket'[r] = Len(buckets[r]) + 1
      /\ phase'[r] = IF allReady'[r] THEN "finalize" ELSE "backward"
  BY <1>2, MarkEffect DEF Config
<1>4. /\ Len(buckets[r]) \in Nat /\ DOMAIN buckets[r] = 1..Len(buckets[r])
      /\ nextBucket[r] \in 1..(Len(buckets[r]) + 1)
      /\ trainable \subseteq Params /\ todo'[r] \subseteq trainable
      /\ IsBucketList(buckets[r])
  <2>1. todo'[r] \subseteq trainable'
    BY DEF TypeOK
  <2> QED BY <1>3, <2>1, RankTypes
<1>5. LaunchedPrefix(r)'
  BY <1>3 DEF LaunchedPrefix
<1>6. Waits(buckets[r], pending'[r], todo'[r] \cup (Params \ trainable))
  BY <1>3, WaitsNext
<1>7. allReady'[r] => todo'[r] = {} /\ trainable = Params
  <2> SUFFICES ASSUME allReady'[r] PROVE todo'[r] = {} /\ trainable = Params
    OBVIOUS
  <2>1. \A b \in DOMAIN buckets[r] : pending'[r][b] = 0
    BY <1>3, <1>4
  <2>2. todo'[r] \cup (Params \ trainable) = {}
    <3>1. todo'[r] \cup (Params \ trainable) \in SUBSET Params
      BY <1>4
    <3> QED BY <1>4, <1>6, <2>1, <3>1, NoneLeft
  <2> QED BY <1>4, <2>2
<1>8. ~allReady'[r] /\ trainable = Params => todo'[r] # {}
  <2> SUFFICES ASSUME ~allReady'[r], trainable = Params PROVE todo'[r] # {}
    OBVIOUS
  <2>1. nextBucket'[r] \in DOMAIN buckets[r] /\ pending'[r][nextBucket'[r]] > 0
    BY <1>3, <1>4
  <2>2. todo'[r] \cup (Params \ trainable) # {}
    BY <1>4, <1>6, <2>1, SomeLeft
  <2> QED BY <2>2
<1>9. allReady'[r] <=> phase'[r] = "finalize"
  BY <1>3
<1>10. phase'[r] \in {"backward", "finalize"}
  BY <1>3
<1> QED BY <1>3, <1>5, <1>7, <1>8, <1>9, <1>10 DEF PhaseInv, Busy

LEMMA MarkRecords ==
    ASSUME TypeOK, NEW r \in Ranks, NEW p \in Params, MarkVariableReadyDense(r, p),
           LaunchedPrefix(r), ~allReady[r], ~hasRebuilt[r], Recorded(r)
    PROVE  Recorded(r)' /\ p \in ParamsIn(readyOrder'[r])
<1>1. /\ Config /\ p \in todo[r] /\ todo'[r] = todo[r] \ {p}
      /\ \A q \in todo[r] : engineOrder[p] <= engineOrder[q]
      /\ readyOrder'[r] = IF p \in ParamsIn(readyOrder[r])
                          THEN readyOrder[r] ELSE Append(readyOrder[r], p)
  BY MarkEffect
<1>2. Setting' = Setting /\ trainable' = trainable /\ engineOrder' = engineOrder
  BY <1>1, SettingFixed
<1>3. /\ ParamsIn(readyOrder[r]) = trainable \ todo[r]
      /\ \A x \in ParamsIn(readyOrder[r]) : \A q \in todo[r] : engineOrder[x] < engineOrder[q]
      /\ Ascending(Setting, readyOrder[r])
  BY DEF Recorded
<1>4. readyOrder'[r] = Append(readyOrder[r], p)
  BY <1>1, <1>3
<1>5. readyOrder[r] \in ReadyOrders /\ todo[r] \subseteq trainable /\ trainable \subseteq Params
  BY RankTypes
<1>6. ParamsIn(readyOrder'[r]) = ParamsIn(readyOrder[r]) \cup {p}
  BY <1>4, <1>5, ReadyOrderFacts, AppendParams
<1>7. Ascending(Setting, readyOrder'[r])
  <2>1. \A q \in ParamsIn(readyOrder[r]) : Setting.order[q] < Setting.order[p]
    BY <1>1, <1>3, SettingType
  <2> QED BY <1>3, <1>4, <1>5, <2>1, SettingType, AscendingAppend
<1>8. ASSUME NEW x \in ParamsIn(readyOrder'[r]), NEW q \in todo'[r]
      PROVE  engineOrder[x] < engineOrder[q]
  <2>1. q \in todo[r] /\ q # p /\ q \in Params
    BY <1>1, <1>5
  <2>2. CASE x \in ParamsIn(readyOrder[r])
    BY <1>3, <2>1, <2>2
  <2>3. CASE x = p
    <3>1. engineOrder[p] <= engineOrder[q]
      BY <1>1, <2>1
    <3>2. engineOrder[p] # engineOrder[q] /\ engineOrder[p] \in Nat /\ engineOrder[q] \in Nat
      BY <2>1, SettingType, SettingFacts
    <3> QED BY <2>3, <3>1, <3>2
  <2> QED BY <1>6, <2>2, <2>3
<1>9. ParamsIn(readyOrder'[r]) = trainable \ todo'[r]
  BY <1>1, <1>3, <1>5, <1>6
<1> QED BY <1>2, <1>6, <1>7, <1>8, <1>9 DEF Recorded

LEMMA MarkRebuild ==
    ASSUME TypeOK, TypeOK', CountInv', NEW r \in Ranks, NEW p \in Params,
           MarkVariableReadyDense(r, p), PhaseInv(r), RebuildInv(r)
    PROVE  RebuildInv(r)'
<1>1. phase[r] = "backward"
  BY DEF MarkVariableReadyDense
<1>2. LaunchedPrefix(r) /\ ~allReady[r]
  BY <1>1 DEF PhaseInv, Busy
<1>3. /\ Config /\ buckets'[r] = buckets[r] /\ round'[r] = round[r]
      /\ hasRebuilt'[r] = hasRebuilt[r]
      /\ needRebuild'[r] <=> \/ needRebuild[r]
                             \/ allReady'[r] /\ ~hasRebuilt[r] /\ readyOrder'[r] # <<>>
      /\ phase'[r] = IF allReady'[r] THEN "finalize" ELSE "backward"
  BY <1>2, MarkEffect
<1>4. Setting' = Setting /\ trainable' = trainable
  BY <1>3, SettingFixed
<1>5. allReady'[r] => trainable = Params /\ todo'[r] = {}
  BY <1>3, MarkPhase DEF PhaseInv
<1>6. CASE trainable # Params
  <2>1. NotRebuilt(r)'
    BY <1>3, <1>5, <1>6 DEF RebuildInv, NotRebuilt
  <2> QED BY <1>4, <1>6, <2>1 DEF RebuildInv
<1>7. CASE trainable = Params /\ round[r] = 1
  <2>1. NotRebuilt(r) /\ Recorded(r)
    BY <1>1, <1>7 DEF RebuildInv
  <2>2. Recorded(r)' /\ p \in ParamsIn(readyOrder'[r])
    BY <1>2, <2>1, MarkRecords DEF NotRebuilt
  <2>3. CASE allReady'[r]
    <3>1. readyOrder'[r] # <<>>
      BY <2>2 DEF ParamsIn
    <3>2. AboutToRebuild(r)'
      BY <1>3, <1>5, <2>1, <2>2, <2>3, <3>1 DEF AboutToRebuild, NotRebuilt
    <3> QED BY <1>3, <1>4, <1>7, <2>3, <3>2 DEF RebuildInv
  <2>4. CASE ~allReady'[r]
    <3>1. NotRebuilt(r)'
      BY <1>3, <2>1, <2>4 DEF NotRebuilt
    <3> QED BY <1>3, <1>4, <1>7, <2>2, <2>4, <3>1 DEF RebuildInv
  <2> QED BY <2>3, <2>4
<1>8. CASE trainable = Params /\ round[r] # 1
  <2>1. HasRebuilt(r)
    BY <1>1, <1>8 DEF RebuildInv
  <2>2. HasRebuilt(r)'
    BY <1>3, <1>4, <2>1 DEF HasRebuilt
  <2> QED BY <1>3, <1>4, <1>8, <2>2 DEF RebuildInv
<1> QED BY <1>6, <1>7, <1>8

(* The end of a backward round, and the steps around the optimizer.        *)
LEMMA RoundEnds ==
    ASSUME TypeOK, NEW r \in Ranks, PhaseInv(r), RebuildInv(r), Config,
           Busy(r), todo[r] = {}, EndsRound(r), ~allReady'[r],
           todo'[r] = todo[r], buckets'[r] = buckets[r], readyOrder'[r] = readyOrder[r],
           needRebuild'[r] = needRebuild[r], hasRebuilt'[r] = hasRebuilt[r]
    PROVE  PhaseInv(r)' /\ RebuildInv(r)'
<1>1. Setting' = Setting /\ trainable' = trainable /\ engineOrder' = engineOrder
  BY SettingFixed
<1>2. \/ phase'[r] = "step" /\ round'[r] = round[r] /\ round[r] % AccumSteps = 0
      \/ phase'[r] = "forward" /\ round'[r] = round[r] + 1
  BY DEF EndsRound
<1>3. PhaseInv(r)'
  BY <1>1, <1>2 DEF PhaseInv, Busy
<1>4. /\ NotRebuilt(r) => NotRebuilt(r)'
      /\ AboutToRebuild(r) => AboutToRebuild(r)'
      /\ HasRebuilt(r) => HasRebuilt(r)'
  BY <1>1 DEF NotRebuilt, AboutToRebuild, HasRebuilt, Recorded
<1>5. trainable = Params => phase[r] = "finalize"
  BY DEF PhaseInv, Busy
<1>6. trainable = Params => AboutToRebuild(r) \/ HasRebuilt(r)
  BY <1>5 DEF RebuildInv
<1>7. round[r] # 1 /\ trainable = Params => HasRebuilt(r)
  BY <1>5 DEF RebuildInv
<1>8. round[r] = 1 /\ trainable = Params => AboutToRebuild(r)
  BY <1>5 DEF RebuildInv
<1>9. round[r] \in Nat \ {0}
  BY RankTypes
<1>10. trainable # Params => NotRebuilt(r)
  BY DEF RebuildInv
<1> QED BY <1>1, <1>2, <1>3, <1>4, <1>7, <1>8, <1>9, <1>10 DEF RebuildInv

LEMMA RankOutside ==
    ASSUME TypeOK, NEW r \in Ranks, PhaseInv(r), RebuildInv(r), Config,
           \/ phase[r] = "step" /\ phase'[r] = "loss" /\ round'[r] = round[r]
           \/ phase[r] = "loss" /\ phase'[r] = "done" /\ round'[r] = round[r]
           \/ phase[r] = "loss" /\ phase'[r] = "forward" /\ round'[r] = round[r] + 1,
           todo'[r] = todo[r], buckets'[r] = buckets[r], readyOrder'[r] = readyOrder[r],
           needRebuild'[r] = needRebuild[r], hasRebuilt'[r] = hasRebuilt[r],
           allReady'[r] = allReady[r]
    PROVE  PhaseInv(r)' /\ RebuildInv(r)'
<1>1. Setting' = Setting /\ trainable' = trainable /\ engineOrder' = engineOrder
  BY SettingFixed
<1>2. PhaseInv(r)'
  BY <1>1 DEF PhaseInv, Busy
<1>3. /\ NotRebuilt(r) => NotRebuilt(r)'
      /\ AboutToRebuild(r) => AboutToRebuild(r)'
      /\ HasRebuilt(r) => HasRebuilt(r)'
  BY <1>1 DEF NotRebuilt, AboutToRebuild, HasRebuilt, Recorded
<1>4. round[r] # 1 /\ trainable = Params => HasRebuilt(r)
  BY DEF RebuildInv
<1>5. round[r] = 1 /\ trainable = Params => AboutToRebuild(r)
  BY DEF RebuildInv
<1>6. round[r] \in Nat \ {0}
  BY RankTypes
<1>7. trainable # Params => NotRebuilt(r)
  BY DEF RebuildInv
<1> QED BY <1>1, <1>2, <1>3, <1>4, <1>5, <1>6, <1>7 DEF RebuildInv

LEMMA InitRankInv == Init => RankInv
<1> SUFFICES ASSUME Init, NEW r \in Ranks PROVE PhaseInv(r) /\ RebuildInv(r)
  BY DEF RankInv
<1>1. PhaseInv(r)
  BY DEF Init, PhaseInv, Busy
<1>2. RebuildInv(r)
  BY DEF Init, RebuildInv, NotRebuilt
<1> QED BY <1>1, <1>2

LEMMA RankStepConfig ==
    ASSUME TypeOK, RankInv, NEW r \in Ranks, RankStep(r)
    PROVE  Config /\ \A s \in Ranks \ {r} : Same(s)
<1>1. CASE PrepareForBackward(r)
  BY <1>1, PrepareEffect
<1>2. ASSUME NEW p \in Params, MarkVariableReadyDense(r, p)
      PROVE  Config /\ \A s \in Ranks \ {r} : Same(s)
  <2>1. LaunchedPrefix(r) /\ ~allReady[r]
    BY <1>2 DEF MarkVariableReadyDense, RankInv, PhaseInv, Busy
  <2> QED BY <1>2, <2>1, MarkEffect
<1>3. CASE FinalizeBackward(r)
  BY <1>3, FinalizeEffect
<1>4. CASE BackwardReturns(r)
  BY <1>4, ReturnsEffect
<1>5. CASE OptimizerStep(r)
  BY <1>5, OptimizerEffect
<1>6. ASSUME NEW z \in BOOLEAN, StartStep(r, z)
      PROVE  Config /\ \A s \in Ranks \ {r} : Same(s)
  BY <1>6, StartEffect
<1> QED BY <1>1, <1>2, <1>3, <1>4, <1>5, <1>6 DEF RankStep

LEMMA NextRankInv ==
    TypeOK /\ TypeOK' /\ CountInv' /\ RankInv /\ [Next]_vars => RankInv'
<1> SUFFICES ASSUME TypeOK, TypeOK', CountInv', RankInv, [Next]_vars PROVE RankInv'
  OBVIOUS
<1>0. ASSUME UNCHANGED <<engineOrder, trainable, phase, round, todo, buckets, pending, nextBucket,
                         readyOrder, needRebuild, hasRebuilt, allReady>>
      PROVE  RankInv'
  <2>1. Setting' = Setting
    BY <1>0 DEF Setting
  <2>2. ASSUME NEW s \in Ranks PROVE PhaseInv(s)' /\ RebuildInv(s)'
    <3>1. PhaseInv(s) /\ RebuildInv(s)
      BY DEF RankInv
    <3>2. PhaseInv(s)'
      BY <1>0, <3>1 DEF PhaseInv, Busy, LaunchedPrefix
    <3>3. /\ NotRebuilt(s) => NotRebuilt(s)'
          /\ Recorded(s) => Recorded(s)'
          /\ HasRebuilt(s) => HasRebuilt(s)'
      BY <1>0, <2>1 DEF NotRebuilt, HasRebuilt, Recorded
    <3>4. AboutToRebuild(s) => AboutToRebuild(s)'
      BY <1>0, <3>3 DEF AboutToRebuild
    <3> QED BY <1>0, <3>1, <3>2, <3>3, <3>4 DEF RebuildInv
  <2> QED BY <2>2 DEF RankInv
<1>1. CASE UNCHANGED vars
  BY <1>0, <1>1 DEF vars, loopVars, gradVars, bucketVars, flagVars
<1>2. ASSUME NEW r \in Ranks, RankStep(r) PROVE RankInv'
  <2>1. PhaseInv(r) /\ RebuildInv(r)
    BY DEF RankInv
  <2>2. Config /\ \A s \in Ranks \ {r} : Same(s)
    BY <1>2, RankStepConfig
  <2>3. ASSUME NEW s \in Ranks \ {r} PROVE PhaseInv(s)' /\ RebuildInv(s)'
    BY <2>2, RankFrame DEF RankInv
  <2>4. SUFFICES PhaseInv(r)' /\ RebuildInv(r)'
    BY <2>3 DEF RankInv
  <2>5. CASE PrepareForBackward(r)
    BY <2>1, <2>5, PreparePhase, PrepareRebuild
  <2>6. ASSUME NEW p \in Params, MarkVariableReadyDense(r, p) PROVE PhaseInv(r)' /\ RebuildInv(r)'
    BY <2>1, <2>6, MarkPhase, MarkRebuild
  <2>7. CASE FinalizeBackward(r)
    <3>1. todo[r] = {}
      BY <2>1, <2>7, FinalizeEffect DEF PhaseInv
    <3> QED BY <2>1, <2>2, <2>7, <3>1, FinalizeEffect, RoundEnds DEF Busy
  <2>8. CASE BackwardReturns(r)
    <3>1. /\ phase[r] = "backward" /\ todo[r] = {} /\ EndsRound(r)
          /\ UNCHANGED <<todo, buckets, readyOrder, needRebuild, hasRebuilt, allReady>>
      BY <2>8, ReturnsEffect
    <3>2. ~allReady'[r]
      BY <2>1, <3>1 DEF PhaseInv
    <3> QED BY <2>1, <2>2, <3>1, <3>2, RoundEnds DEF Busy
  <2>9. CASE OptimizerStep(r)
    <3>1. /\ phase[r] = "step" /\ phase'[r] = "loss"
          /\ UNCHANGED <<round, todo, buckets, readyOrder, needRebuild, hasRebuilt, allReady>>
      BY <2>9, OptimizerEffect
    <3> QED BY <2>1, <2>2, <3>1, RankOutside
  <2>10. ASSUME NEW z \in BOOLEAN, StartStep(r, z) PROVE PhaseInv(r)' /\ RebuildInv(r)'
    <3>1. /\ phase[r] = "loss"
          /\ phase'[r] = IF IsLastRound(round[r]) THEN "done" ELSE "forward"
          /\ round'[r] = IF IsLastRound(round[r]) THEN round[r] ELSE round[r] + 1
          /\ UNCHANGED <<todo, buckets, readyOrder, needRebuild, hasRebuilt, allReady>>
      BY <2>10, StartEffect
    <3>2. \/ phase'[r] = "done" /\ round'[r] = round[r]
          \/ phase'[r] = "forward" /\ round'[r] = round[r] + 1
      BY <3>1
    <3> QED BY <2>1, <2>2, <3>1, <3>2, RankOutside
  <2> QED BY <1>2, <2>5, <2>6, <2>7, <2>8, <2>9, <2>10 DEF RankStep
<1>3. CASE AllReduceCompletes
  <2>1. Config /\ UNCHANGED <<phase, round, todo, buckets, pending, nextBucket,
                              readyOrder, needRebuild, hasRebuilt, allReady>>
    BY <1>3, CompletesEffect
  <2> QED BY <1>0, <2>1 DEF Config
<1>4. CASE Terminated
  BY <1>1, <1>4 DEF Terminated
<1> QED BY <1>1, <1>2, <1>3, <1>4 DEF Next

-----------------------------------------------------------------------------
(* Every rank has issued a prefix of the one history.                      *)

LEMMA IssuedType ==
    ASSUME TypeOK, NEW r \in Ranks
    PROVE  /\ Base(Setting, round[r]) \in Nat /\ Launches(Setting, round[r]) \in Nat
           /\ Base(Setting, round[r] + 1)
                = Base(Setting, round[r]) + Launches(Setting, round[r])
                    + (IF round[r] % AccumSteps = 0 THEN 1 ELSE 0)
           /\ Issued(r) \in Nat
<1>1. /\ Base(Setting, round[r]) \in Nat /\ Launches(Setting, round[r]) \in Nat
      /\ Base(Setting, round[r] + 1)
           = Base(Setting, round[r]) + Launches(Setting, round[r])
               + (IF round[r] % AccumSteps = 0 THEN 1 ELSE 0)
  BY SettingType, RankTypes, BaseNext, LaunchesType
<1>2. nextBucket[r] - 1 \in Nat
  BY RankTypes
<1>3. \/ Issued(r) = Base(Setting, round[r]) + 0
      \/ Issued(r) = Base(Setting, round[r]) + (nextBucket[r] - 1)
      \/ Issued(r) = Base(Setting, round[r]) + Launches(Setting, round[r])
      \/ Issued(r) = Base(Setting, round[r]) + (Launches(Setting, round[r]) + 1)
  BY DEF Issued
<1> QED BY <1>1, <1>2, <1>3

(* The buckets of a backward round are those of the history.               *)
LEMMA RoundBuckets ==
    ASSUME TypeOK, NEW r \in Ranks, PhaseInv(r), RebuildInv(r), Busy(r)
    PROVE  buckets[r] = BucketsOf(Setting, round[r])
<1>1. Setting.trainable = trainable /\ Setting \in Settings /\ round[r] \in Nat \ {0}
  BY SettingType, RankTypes
<1>2. CASE trainable # Params
  BY <1>1, <1>2 DEF RebuildInv, NotRebuilt, BucketsOf
<1>3. CASE trainable = Params /\ round[r] = 1
  <2>1. buckets[r] = InitialBuckets
    BY <1>3 DEF RebuildInv, NotRebuilt, AboutToRebuild
  <2> QED BY <1>3, <2>1 DEF BucketsOf
<1>4. CASE trainable = Params /\ round[r] # 1
  <2>1. buckets[r] = BucketsOf(Setting, 2)
    BY <1>4 DEF RebuildInv, HasRebuilt, Busy
  <2> QED BY <1>1, <1>4, <2>1, BucketsOfType
<1> QED BY <1>2, <1>3, <1>4

(* Buckets with nothing outstanding have no frozen parameter.              *)
LEMMA CompleteAreTrainable ==
    ASSUME TypeOK, NEW r \in Ranks, NEW e \in Settings, NEW n \in Nat,
           NEW bs, IsBucketList(bs), bs = BucketsOf(e, n), n # 0,
           NEW pend, NEW left, Waits(bs, pend, left \cup (Params \ e.trainable)),
           NEW m \in 0..Len(bs), \A c \in 1..m : pend[c] = 0
    PROVE  m <= Launches(e, n)
<1>1. /\ Len(bs) \in Nat /\ DOMAIN bs = 1..Len(bs)
      /\ Launches(e, n) \in 0..Len(bs) /\ IsLaunchCount(e, bs, Launches(e, n))
  BY BucketsOfType, LaunchesType
<1>2. SUFFICES ASSUME m > Launches(e, n) PROVE FALSE
  BY <1>1
<1>3. Launches(e, n) + 1 \in 1..m /\ Launches(e, n) + 1 \in DOMAIN bs
      /\ Launches(e, n) < Len(bs)
  BY <1>1, <1>2
<1>4. ParamsIn(bs[Launches(e, n) + 1]) \cap (left \cup (Params \ e.trainable)) = {}
  BY <1>3, Waiting
<1>5. ParamsIn(bs[Launches(e, n) + 1]) \subseteq Params
  BY <1>3, BucketSize
<1>6. ~(ParamsIn(bs[Launches(e, n) + 1]) \subseteq e.trainable)
  BY <1>1, <1>3 DEF IsLaunchCount
<1> QED BY <1>4, <1>5, <1>6

(* At the end of a round every bucket without frozen parameters before the *)
(* first that has one is launched, and no other.                           *)
LEMMA AllLaunched ==
    ASSUME TypeOK, CountInv, NEW r \in Ranks, PhaseInv(r), RebuildInv(r), Busy(r), todo[r] = {}
    PROVE  nextBucket[r] - 1 = Launches(Setting, round[r])
<1>1. /\ Setting \in Settings /\ Setting.trainable = trainable
      /\ round[r] \in Nat \ {0} /\ IsBucketList(buckets[r])
      /\ Len(buckets[r]) \in Nat /\ DOMAIN buckets[r] = 1..Len(buckets[r])
      /\ nextBucket[r] \in 1..(Len(buckets[r]) + 1)
  BY SettingType, RankTypes
<1>2. buckets[r] = BucketsOf(Setting, round[r])
  BY RoundBuckets
<1>3. Waits(buckets[r], pending[r], Params \ trainable)
  <2>1. Waits(buckets[r], pending[r], Out(r))
    BY WaitsNow
  <2>2. Out(r) = Params \ trainable
    BY DEF Out
  <2> QED BY <2>1, <2>2
<1>4. LaunchedPrefix(r)
  BY DEF PhaseInv
<1>5. ASSUME NEW c \in 1..(nextBucket[r] - 1)
      PROVE  ParamsIn(buckets[r][c]) \subseteq trainable
  <2>1. c \in DOMAIN buckets[r] /\ pending[r][c] = 0
    BY <1>1, <1>4 DEF LaunchedPrefix
  <2>2. ParamsIn(buckets[r][c]) \cap (Params \ trainable) = {}
    BY <1>1, <1>3, <2>1, Waiting
  <2>3. ParamsIn(buckets[r][c]) \subseteq Params
    BY <1>1, <2>1, BucketSize
  <2> QED BY <2>2, <2>3
<1>6. ASSUME nextBucket[r] - 1 < Len(buckets[r])
      PROVE  ~(ParamsIn(buckets[r][nextBucket[r]]) \subseteq trainable)
  <2>1. nextBucket[r] \in DOMAIN buckets[r] /\ pending[r][nextBucket[r]] > 0
    BY <1>1, <1>4, <1>6 DEF LaunchedPrefix
  <2>2. ParamsIn(buckets[r][nextBucket[r]]) \cap (Params \ trainable) # {}
    BY <1>1, <1>3, <2>1, Waiting
  <2> QED BY <2>2
<1>7. (nextBucket[r] - 1) + 1 = nextBucket[r]
  BY <1>1
<1>8. IsLaunchCount(Setting, buckets[r], nextBucket[r] - 1)
  BY <1>1, <1>5, <1>6, <1>7 DEF IsLaunchCount
<1>9. nextBucket[r] - 1 \in 0..Len(buckets[r])
  BY <1>1
<1> QED BY <1>1, <1>2, <1>8, <1>9, LaunchesType, LaunchCountUnique

(* Collectives appended to a stream are the next of the history.           *)
LEMMA StreamAppends ==
    ASSUME NEW e \in Settings, NEW c \in Nat, NEW old \in Seq(Seq(Params)),
           NEW more \in Seq(Seq(Params)),
           \A k \in DOMAIN old : IsAt(e, c + k, old[k]),
           \A k \in DOMAIN more : IsAt(e, c + Len(old) + k, more[k])
    PROVE  \A k \in DOMAIN (old \o more) : IsAt(e, c + k, (old \o more)[k])
<1> SUFFICES ASSUME NEW k \in DOMAIN (old \o more) PROVE IsAt(e, c + k, (old \o more)[k])
  OBVIOUS
<1>1. k \in 1..(Len(old) + Len(more)) /\ Len(old) \in Nat /\ Len(more) \in Nat
  OBVIOUS
<1>2. CASE k <= Len(old)
  <2>1. k \in DOMAIN old /\ (old \o more)[k] = old[k]
    BY <1>1, <1>2
  <2> QED BY <2>1
<1>3. CASE k > Len(old)
  <2>1. k - Len(old) \in DOMAIN more /\ (old \o more)[k] = more[k - Len(old)]
    BY <1>1, <1>3
  <2>2. c + Len(old) + (k - Len(old)) = c + k
    BY <1>1
  <2> QED BY <2>1, <2>2
<1> QED BY <1>1, <1>2, <1>3

LEMMA PrepareHistory ==
    ASSUME TypeOK, NEW r \in Ranks, NEW c \in Nat, HistoryFrom(c, r), PrepareForBackward(r)
    PROVE  HistoryFrom(c, r)'
<1>1. /\ Config /\ phase[r] = "forward" /\ phase'[r] \in {"forward", "backward"}
      /\ round'[r] = round[r] /\ comm'[r] = comm[r] /\ nextBucket'[r] = 1
  BY PrepareEffect
<1>2. Setting' = Setting
  BY <1>1, SettingFixed
<1>3. Issued(r) = Base(Setting, round[r]) + 0
  BY <1>1 DEF Issued
<1>4. Issued(r)' = Base(Setting, round[r]) + 0
  BY <1>1, <1>2 DEF Issued, Busy
<1> QED BY <1>1, <1>2, <1>3, <1>4 DEF HistoryFrom

LEMMA MarkHistory ==
    ASSUME TypeOK, TypeOK', CountInv', NEW r \in Ranks, NEW c \in Nat, HistoryFrom(c, r),
           PhaseInv(r), RebuildInv(r), NEW p \in Params, MarkVariableReadyDense(r, p)
    PROVE  HistoryFrom(c, r)'
<1>1. phase[r] = "backward" /\ LaunchedPrefix(r) /\ ~allReady[r]
  BY DEF MarkVariableReadyDense, PhaseInv, Busy
<1>2. /\ Config /\ buckets'[r] = buckets[r] /\ round'[r] = round[r]
      /\ nextBucket[r] \in 1..(Len(buckets[r]) + 1)
      /\ nextBucket'[r] \in nextBucket[r]..(Len(buckets[r]) + 1)
      /\ \A b \in 1..(nextBucket'[r] - 1) : pending'[r][b] = 0
      /\ phase'[r] = IF allReady'[r] THEN "finalize" ELSE "backward"
      /\ comm'[r] = comm[r] \o SubSeq(buckets[r], nextBucket[r], nextBucket'[r] - 1)
  BY <1>1, MarkEffect
<1>3. Setting' = Setting /\ trainable' = trainable
  BY <1>2, SettingFixed
<1>4. /\ Setting \in Settings /\ Setting.trainable = trainable
      /\ round[r] \in Rounds /\ round[r] \in Nat \ {0} /\ IsBucketList(buckets[r])
      /\ Len(buckets[r]) \in Nat /\ comm[r] \in Seq(Seq(Params))
  BY SettingType, RankTypes
<1>5. buckets[r] = BucketsOf(Setting, round[r])
  BY <1>1, RoundBuckets DEF Busy
<1>6. PICK e \in Settings, i \in Rounds, bs \in Seq(Seq(Params)), next \in Nat \ {0}, end \in Nat,
           old \in Seq(Seq(Params)) :
        /\ e = Setting /\ i = round[r] /\ bs = buckets[r] /\ next = nextBucket[r]
        /\ end = nextBucket'[r] /\ old = comm[r]
  <2>1. nextBucket[r] \in Nat \ {0} /\ nextBucket'[r] \in Nat
    BY <1>2, <1>4
  <2>2. buckets[r] \in Seq(Seq(Params))
    BY DEF TypeOK
  <2> QED BY <1>4, <2>1, <2>2
<1>7. end - 1 <= Launches(e, i)
  <2>1. phase'[r] \in {"backward", "finalize"}
    BY <1>2
  <2>2. Waits(bs, pending'[r], todo'[r] \cup (Params \ e.trainable))
    BY <1>2, <1>3, <1>4, <1>6, <2>1, WaitsNext
  <2>3. end - 1 \in 0..Len(bs) /\ \A b \in 1..(end - 1) : pending'[r][b] = 0
    BY <1>2, <1>6
  <2>4. IsBucketList(bs) /\ bs = BucketsOf(e, i) /\ i \in Nat /\ i # 0
    BY <1>4, <1>5, <1>6
  <2> QED BY <2>2, <2>3, <2>4, CompleteAreTrainable
<1>8. /\ Base(e, i) \in Nat /\ Launches(e, i) \in Nat /\ next <= end
  <2>1. i \in Nat \ {0}
    BY <1>4, <1>6
  <2>2. next <= end
    BY <1>2, <1>6
  <2> QED BY <2>1, <2>2, BaseNext, LaunchesType
<1>9. c + Len(old) = Base(e, i) + (next - 1)
  BY <1>1, <1>6 DEF HistoryFrom, Issued, Busy
<1>10. /\ SubSeq(bs, next, end - 1) \in Seq(Seq(Params))
       /\ Len(SubSeq(bs, next, end - 1)) = end - next
       /\ \A k \in 1..(end - next) : SubSeq(bs, next, end - 1)[k] = bs[next + k - 1]
  <2>1. end - 1 <= Len(bs) /\ next \in 1..end
    BY <1>2, <1>6, <1>8
  <2> QED BY <2>1
<1>11. ASSUME NEW k \in DOMAIN SubSeq(bs, next, end - 1)
       PROVE  IsAt(e, c + Len(old) + k, SubSeq(bs, next, end - 1)[k])
  <2>1. k \in 1..(end - next)
    BY <1>10
  <2>2. next + k - 1 \in 1..Launches(e, i)
    BY <1>7, <1>8, <2>1
  <2>3. InRound(e, i, next + k - 1) /\ next + k - 1 \in 1..(Launches(e, i) + 1)
    BY <1>8, <2>2 DEF InRound
  <2>4. Collective(e, i, next + k - 1) = bs[next + k - 1]
    BY <1>5, <1>6, <2>2 DEF Collective
  <2>5. c + Len(old) + k = Base(e, i) + (next + k - 1)
    <3>1. PICK m \in Nat, b \in Nat : m = Len(old) /\ b = Base(e, i)
      BY <1>8
    <3>2. c + m = b + (next - 1) /\ k \in Int
      BY <1>9, <2>1, <3>1
    <3>3. c + m + k = b + (next + k - 1)
      BY <3>2
    <3> QED BY <3>1, <3>3
  <2> QED BY <1>10, <2>1, <2>3, <2>4, <2>5 DEF IsAt
<1>12. \A k \in DOMAIN old : IsAt(e, c + k, old[k])
  BY <1>6 DEF HistoryFrom
<1>13. \A k \in DOMAIN (old \o SubSeq(bs, next, end - 1)) :
          IsAt(e, c + k, (old \o SubSeq(bs, next, end - 1))[k])
  BY <1>10, <1>11, <1>12, StreamAppends
<1>14. Issued(r)' = Base(e, i) + (end - 1)
  <2>1. Busy(r)' /\ phase'[r] # "forward"
    BY <1>2 DEF Busy
  <2> QED BY <1>2, <1>3, <1>6, <2>1 DEF Issued
<1>15. Len(old \o SubSeq(bs, next, end - 1)) = Len(old) + (end - next)
  BY <1>10
<1>16. comm'[r] = old \o SubSeq(bs, next, end - 1)
  BY <1>2, <1>6
<1>17. Issued(r)' = c + Len(comm'[r])
  <2>1. PICK m \in Nat, b \in Nat : m = Len(old) /\ b = Base(e, i)
    BY <1>8
  <2>2. Len(comm'[r]) = m + (end - next)
    BY <1>15, <1>16, <2>1
  <2>3. c + m = b + (next - 1)
    BY <1>9, <2>1
  <2>4. b + (end - 1) = c + (m + (end - next))
    BY <2>3
  <2> QED BY <1>14, <2>1, <2>2, <2>4
<1> QED BY <1>3, <1>6, <1>13, <1>16, <1>17 DEF HistoryFrom

LEMMA EndsHistory ==
    ASSUME TypeOK, CountInv, NEW r \in Ranks, NEW c \in Nat, HistoryFrom(c, r),
           PhaseInv(r), RebuildInv(r), Config,
           Busy(r), todo[r] = {}, EndsRound(r), comm'[r] = comm[r]
    PROVE  HistoryFrom(c, r)'
<1>1. Setting' = Setting
  BY SettingFixed
<1>2. nextBucket[r] - 1 = Launches(Setting, round[r])
  BY AllLaunched
<1>3. Issued(r) = Base(Setting, round[r]) + Launches(Setting, round[r])
  BY <1>2 DEF Issued, Busy
<1>4. Issued(r)' = Issued(r)
  <2>1. CASE round[r] % AccumSteps = 0
    <3>1. Issued(r)' = Base(Setting, round[r]) + Launches(Setting, round[r])
      BY <1>1, <2>1 DEF EndsRound, Issued, Busy
    <3> QED BY <1>3, <3>1
  <2>2. CASE round[r] % AccumSteps # 0
    <3>1. Issued(r)' = Base(Setting, round[r] + 1) + 0
      BY <1>1, <2>2 DEF EndsRound, Issued
    <3>2. Base(Setting, round[r] + 1)
            = Base(Setting, round[r]) + Launches(Setting, round[r]) + 0
      BY <2>2, IssuedType
    <3> QED BY <1>3, <3>1, <3>2, IssuedType
  <2> QED BY <2>1, <2>2
<1> QED BY <1>1, <1>4 DEF HistoryFrom

LEMMA OptimizerHistory ==
    ASSUME TypeOK, NEW r \in Ranks, NEW c \in Nat, HistoryFrom(c, r), PhaseInv(r), OptimizerStep(r)
    PROVE  HistoryFrom(c, r)'
<1>1. /\ Config /\ phase[r] = "step" /\ phase'[r] = "loss" /\ round' = round
      /\ comm'[r] = Append(comm[r], LossReduce)
  BY OptimizerEffect
<1>2. Setting' = Setting
  BY <1>1, SettingFixed
<1>3. PICK e \in Settings, i \in Rounds, old \in Seq(Seq(Params)) :
        e = Setting /\ i = round[r] /\ old = comm[r]
  BY SettingType, RankTypes
<1>4. /\ Base(e, i) \in Nat /\ Launches(e, i) \in Nat /\ i % AccumSteps = 0
  BY <1>1, <1>3, IssuedType DEF PhaseInv
<1>5. c + Len(old) = Base(e, i) + Launches(e, i)
  BY <1>1, <1>3 DEF HistoryFrom, Issued, Busy
<1>6. Issued(r)' = Base(e, i) + (Launches(e, i) + 1)
  BY <1>1, <1>2, <1>3 DEF Issued, Busy
<1>7. LossReduce \in Seq(Params)
  BY DEF LossReduce
<1>8. /\ Len(Append(old, LossReduce)) = Len(old) + 1 /\ Len(old) \in Nat
      /\ DOMAIN Append(old, LossReduce) = 1..(Len(old) + 1)
      /\ Append(old, LossReduce)[Len(old) + 1] = LossReduce
      /\ \A k \in 1..Len(old) : Append(old, LossReduce)[k] = old[k]
      /\ DOMAIN old = 1..Len(old)
  BY <1>7
<1>9. IsAt(e, c + (Len(old) + 1), LossReduce)
  <2>1. InRound(e, i, Launches(e, i) + 1) /\ Launches(e, i) + 1 \in 1..(Launches(e, i) + 1)
    BY <1>4 DEF InRound
  <2>2. Collective(e, i, Launches(e, i) + 1) = LossReduce
    BY <1>4 DEF Collective
  <2>3. c + (Len(old) + 1) = Base(e, i) + (Launches(e, i) + 1)
    BY <1>4, <1>5, <1>8
  <2> QED BY <2>1, <2>2, <2>3 DEF IsAt
<1>10. ASSUME NEW k \in DOMAIN Append(old, LossReduce)
       PROVE  IsAt(e, c + k, Append(old, LossReduce)[k])
  <2>1. CASE k = Len(old) + 1
    BY <1>8, <1>9, <2>1
  <2>2. CASE k # Len(old) + 1
    <3>1. k \in 1..Len(old)
      BY <1>8, <2>2
    <3> QED BY <1>3, <1>8, <3>1 DEF HistoryFrom
  <2> QED BY <2>1, <2>2
<1>11. Issued(r)' = c + Len(comm'[r])
  BY <1>1, <1>3, <1>4, <1>5, <1>6, <1>8, SMTT(20)
<1> QED BY <1>1, <1>2, <1>3, <1>10, <1>11 DEF HistoryFrom

LEMMA StartHistory ==
    ASSUME TypeOK, NEW r \in Ranks, NEW c \in Nat, HistoryFrom(c, r), PhaseInv(r),
           NEW z \in BOOLEAN, StartStep(r, z)
    PROVE  HistoryFrom(c, r)'
<1>1. /\ Config /\ phase[r] = "loss" /\ comm' = comm
      /\ phase'[r] = IF IsLastRound(round[r]) THEN "done" ELSE "forward"
      /\ round'[r] = IF IsLastRound(round[r]) THEN round[r] ELSE round[r] + 1
  BY StartEffect
<1>2. Setting' = Setting
  BY <1>1, SettingFixed
<1>3. Issued(r) = Base(Setting, round[r]) + (Launches(Setting, round[r]) + 1)
  BY <1>1 DEF Issued, Busy
<1>4. Issued(r)' = Issued(r)
  <2>1. CASE IsLastRound(round[r])
    <3>1. Issued(r)' = Base(Setting, round[r]) + (Launches(Setting, round[r]) + 1)
      BY <1>1, <1>2, <2>1 DEF Issued, Busy
    <3> QED BY <1>3, <3>1
  <2>2. CASE ~IsLastRound(round[r])
    <3>1. Issued(r)' = Base(Setting, round[r] + 1) + 0
      BY <1>1, <1>2, <2>2 DEF Issued
    <3>2. Base(Setting, round[r] + 1)
            = Base(Setting, round[r]) + Launches(Setting, round[r]) + 1
      BY <1>1, IssuedType DEF PhaseInv
    <3> QED BY <1>3, <3>1, <3>2, IssuedType
  <2> QED BY <2>1, <2>2
<1> QED BY <1>1, <1>2, <1>4 DEF HistoryFrom

LEMMA CompletesHistory ==
    ASSUME TypeOK, NEW r \in Ranks, NEW c \in Nat, HistoryFrom(c, r), AllReduceCompletes
    PROVE  HistoryFrom(c + 1, r)'
<1>1. /\ Config /\ UNCHANGED <<phase, round, nextBucket>>
      /\ comm[r] # <<>> /\ comm'[r] = Tail(comm[r])
  BY CompletesEffect
<1>2. Setting' = Setting
  BY <1>1, SettingFixed
<1>3. Issued(r)' = Issued(r)
  BY <1>1, <1>2 DEF Issued, Busy
<1>4. PICK old \in Seq(Seq(Params)) : old = comm[r]
  BY RankTypes
<1>5. /\ Len(old) \in Nat /\ Len(old) >= 1 /\ Len(Tail(old)) = Len(old) - 1
      /\ DOMAIN Tail(old) = 1..(Len(old) - 1) /\ DOMAIN old = 1..Len(old)
      /\ \A k \in 1..(Len(old) - 1) : Tail(old)[k] = old[k + 1]
  BY <1>1, <1>4
<1>6. ASSUME NEW k \in DOMAIN Tail(old) PROVE IsAt(Setting, (c + 1) + k, Tail(old)[k])
  <2>1. k + 1 \in DOMAIN comm[r] /\ Tail(old)[k] = comm[r][k + 1] /\ (c + 1) + k = c + (k + 1)
    BY <1>4, <1>5
  <2> QED BY <2>1 DEF HistoryFrom
<1>7. Issued(r)' = (c + 1) + Len(comm'[r])
  <2>1. Issued(r) = c + Len(old)
    BY <1>4 DEF HistoryFrom
  <2>2. PICK m \in Nat : m = Len(old)
    BY <1>5
  <2>3. Len(comm'[r]) = m - 1
    BY <1>1, <1>4, <1>5, <2>2
  <2>4. c + m = (c + 1) + (m - 1)
    OBVIOUS
  <2> QED BY <1>3, <2>1, <2>2, <2>3, <2>4
<1> QED BY <1>1, <1>2, <1>4, <1>6, <1>7 DEF HistoryFrom

LEMMA HistoryFrame ==
    ASSUME Config, NEW s, Same(s), NEW c, HistoryFrom(c, s)
    PROVE  HistoryFrom(c, s)'
<1>1. Setting' = Setting
  BY SettingFixed
<1>2. Issued(s)' = Issued(s)
  BY <1>1 DEF Same, Issued, Busy
<1> QED BY <1>1, <1>2 DEF Same, HistoryFrom

LEMMA InitHistory == Init => History
<1> SUFFICES ASSUME Init PROVE History
  OBVIOUS
<1>1. ASSUME NEW r \in Ranks PROVE HistoryFrom(0, r)
  <2>1. Issued(r) = 0
    BY DEF Init, Issued, Base
  <2>2. comm[r] = <<>>
    BY DEF Init
  <2> QED BY <2>1, <2>2 DEF HistoryFrom
<1> QED BY <1>1 DEF History

LEMMA NextHistory ==
    /\ TypeOK /\ TypeOK' /\ CountInv /\ CountInv' /\ RankInv /\ History /\ [Next]_vars
    => History'
<1> SUFFICES ASSUME TypeOK, TypeOK', CountInv, CountInv', RankInv, History, [Next]_vars
             PROVE  History'
  OBVIOUS
<1>1. PICK c \in Nat : \A r \in Ranks : HistoryFrom(c, r)
  BY DEF History
<1>2. ASSUME UNCHANGED vars PROVE History'
  <2>1. Config /\ \A s \in Ranks : Same(s)
    BY <1>2 DEF vars, loopVars, gradVars, bucketVars, flagVars, Config, Same
  <2> QED BY <1>1, <2>1, HistoryFrame DEF History
<1>3. ASSUME NEW r \in Ranks, RankStep(r) PROVE History'
  <2>1. PhaseInv(r) /\ RebuildInv(r) /\ HistoryFrom(c, r)
    BY <1>1 DEF RankInv
  <2>2. Config /\ \A s \in Ranks \ {r} : Same(s)
    BY <1>3, RankStepConfig
  <2>3. \A s \in Ranks \ {r} : HistoryFrom(c, s)'
    BY <1>1, <2>2, HistoryFrame
  <2>4. SUFFICES HistoryFrom(c, r)'
    BY <2>3 DEF History
  <2>5. CASE PrepareForBackward(r)
    BY <2>1, <2>5, PrepareHistory
  <2>6. ASSUME NEW p \in Params, MarkVariableReadyDense(r, p) PROVE HistoryFrom(c, r)'
    BY <2>1, <2>6, MarkHistory
  <2>7. CASE FinalizeBackward(r)
    <3>1. phase[r] = "finalize" /\ comm'[r] = comm[r] /\ (todo[r] = {} => EndsRound(r))
      BY <2>7, FinalizeEffect
    <3>2. todo[r] = {}
      BY <2>1, <3>1 DEF PhaseInv
    <3> QED BY <2>1, <2>2, <3>1, <3>2, EndsHistory DEF Busy
  <2>8. CASE BackwardReturns(r)
    <3>1. phase[r] = "backward" /\ comm' = comm /\ todo[r] = {} /\ EndsRound(r)
      BY <2>8, ReturnsEffect
    <3> QED BY <2>1, <2>2, <3>1, EndsHistory DEF Busy
  <2>9. CASE OptimizerStep(r)
    BY <2>1, <2>9, OptimizerHistory
  <2>10. ASSUME NEW z \in BOOLEAN, StartStep(r, z) PROVE HistoryFrom(c, r)'
    BY <2>1, <2>10, StartHistory
  <2> QED BY <1>3, <2>5, <2>6, <2>7, <2>8, <2>9, <2>10 DEF RankStep
<1>4. CASE AllReduceCompletes
  <2>1. c + 1 \in Nat /\ \A r \in Ranks : HistoryFrom(c + 1, r)'
    BY <1>1, <1>4, CompletesHistory
  <2> QED BY <2>1 DEF History
<1>5. CASE Terminated
  BY <1>2, <1>5 DEF Terminated
<1> QED BY <1>2, <1>3, <1>4, <1>5 DEF Next

(***************************************************************************)
(* A rank's place in the loop determines what it has issued, and every     *)
(* rank has issued a prefix of one history, of which all have completed    *)
(* the same number: whatever parameters are frozen, however the buckets    *)
(* were rebuilt and however far the ranks are apart.                       *)
(***************************************************************************)
THEOREM OneHistory == Spec => [](RankInv /\ History)
<1>1. Init => RankInv /\ History
  BY InitRankInv, InitHistory
<1>2. /\ TypeOK /\ TypeOK' /\ CountInv /\ CountInv' /\ RankInv /\ History /\ [Next]_vars
      => RankInv' /\ History'
  BY NextRankInv, NextHistory
<1> QED BY <1>1, <1>2, TypeCorrect, CountsCorrect, PTL DEF Spec

(***************************************************************************)
(* The k-th collectives outstanding on two streams are always the same     *)
(* one, so no all-reduce mixes the buckets of two ranks, and none waits    *)
(* behind another that its peers do not start.                             *)
(***************************************************************************)
THEOREM StreamsMatch == Spec => []CollectivesMatch
<1>1. TypeOK /\ History => CollectivesMatch
  <2> SUFFICES ASSUME TypeOK, History, NEW r \in Ranks, NEW s \in Ranks,
                      NEW k \in DOMAIN comm[r] \cap DOMAIN comm[s]
               PROVE  comm[r][k] = comm[s][k]
    BY DEF CollectivesMatch
  <2>1. PICK c \in Nat : \A q \in Ranks : HistoryFrom(c, q)
    BY DEF History
  <2>2. IsAt(Setting, c + k, comm[r][k]) /\ IsAt(Setting, c + k, comm[s][k])
    BY <2>1 DEF HistoryFrom
  <2> QED BY <2>2, SettingType, HistoryIsFunction
<1> QED BY <1>1, OneHistory, TypeCorrect, PTL

-----------------------------------------------------------------------------
(* With every parameter trainable: the streams.                            *)

LEMMA SegmentJoin ==
    ASSUME NEW S, NEW s \in Seq(S), NEW f \in Nat \ {0}, NEW n \in Nat, NEW m \in Nat,
           f <= n, n <= m, m - 1 <= Len(s)
    PROVE  /\ SubSeq(s, f, n - 1) \o SubSeq(s, n, m - 1) = SubSeq(s, f, m - 1)
           /\ Len(SubSeq(s, f, m - 1)) = m - f
<1> DEFINE u == SubSeq(s, f, n - 1)
           v == SubSeq(s, n, m - 1)
           w == SubSeq(s, f, m - 1)
<1>1. u \in Seq(S) /\ Len(u) = n - f /\ \A k \in 1..(n - f) : u[k] = s[f + k - 1]
  OBVIOUS
<1>2. v \in Seq(S) /\ Len(v) = m - n /\ \A k \in 1..(m - n) : v[k] = s[n + k - 1]
  OBVIOUS
<1>3. w \in Seq(S) /\ Len(w) = m - f /\ \A k \in 1..(m - f) : w[k] = s[f + k - 1]
  OBVIOUS
<1> HIDE DEF u, v, w
<1>4. u \o v \in Seq(S) /\ Len(u \o v) = m - f
  BY <1>1, <1>2
<1>5. ASSUME NEW k \in 1..(m - f) PROVE (u \o v)[k] = w[k]
  <2>1. CASE k <= n - f
    <3>1. (u \o v)[k] = u[k]
      BY <1>1, <1>2, <2>1
    <3> QED BY <1>1, <1>3, <2>1, <3>1
  <2>2. CASE k > n - f
    <3>1. (u \o v)[k] = v[k - (n - f)]
      BY <1>1, <1>2, <2>2, SMTT(20)
    <3>2. PICK x \in 1..(m - n) : x = k - (n - f)
      BY <2>2
    <3>3. n + x - 1 = f + k - 1
      BY <3>2
    <3>4. v[x] = s[n + x - 1] /\ w[k] = s[f + k - 1]
      BY <1>2, <1>3
    <3>5. (u \o v)[k] = v[x]
      BY <3>1, <3>2
    <3>6. s[n + x - 1] = s[f + k - 1]
      BY <3>3
    <3> QED BY <3>4, <3>5, <3>6
  <2>3. k <= n - f \/ k > n - f
    OBVIOUS
  <2> QED BY <2>1, <2>2, <2>3, Zenon
<1>6. u \o v = w
  BY <1>3, <1>4, <1>5, SeqEqual
<1> QED BY <1>3, <1>6 DEF u, v, w

LEMMA SegmentTail ==
    ASSUME NEW S, NEW s \in Seq(S), NEW f \in Nat \ {0}, NEW n \in Nat, f < n, n - 1 <= Len(s)
    PROVE  /\ Len(SubSeq(s, f, n - 1)) = n - f
           /\ Head(SubSeq(s, f, n - 1)) = s[f]
           /\ Tail(SubSeq(s, f, n - 1)) = SubSeq(s, f + 1, n - 1)
<1> DEFINE u == SubSeq(s, f, n - 1)
           v == SubSeq(s, f + 1, n - 1)
<1>1. u \in Seq(S) /\ Len(u) = n - f /\ \A k \in 1..(n - f) : u[k] = s[f + k - 1]
  OBVIOUS
<1>2. v \in Seq(S) /\ Len(v) = n - f - 1 /\ \A k \in 1..(n - f - 1) : v[k] = s[f + 1 + k - 1]
  OBVIOUS
<1> HIDE DEF u, v
<1>3. /\ u # <<>> /\ Tail(u) \in Seq(S) /\ Len(Tail(u)) = n - f - 1
      /\ \A k \in 1..(n - f - 1) : Tail(u)[k] = u[k + 1]
      /\ Head(u) = u[1]
  BY <1>1
<1>4. \A k \in 1..(n - f - 1) : Tail(u)[k] = v[k]
  <2> SUFFICES ASSUME NEW k \in 1..(n - f - 1) PROVE Tail(u)[k] = v[k]
    OBVIOUS
  <2>1. k + 1 \in 1..(n - f) /\ f + (k + 1) - 1 = f + 1 + k - 1
    OBVIOUS
  <2> QED BY <1>1, <1>2, <1>3, <2>1
<1>5. Tail(u) = v
  BY <1>2, <1>3, <1>4, SeqEqual
<1>6. Head(u) = s[f]
  BY <1>1, <1>3
<1> QED BY <1>1, <1>5, <1>6 DEF u, v

(* What lies on the stream of a rank that is in a backward round.          *)
LEMMA StreamFacts ==
    ASSUME TypeOK, NEW r \in Ranks, StreamInv(r), Busy(r)
    PROVE  /\ First(r) \in 1..nextBucket[r] /\ First(r) \in Nat \ {0}
           /\ Len(comm[r]) = nextBucket[r] - First(r)
           /\ \A k \in DOMAIN comm[r] : /\ comm[r][k] = buckets[r][First(r) + k - 1]
                                        /\ First(r) + k - 1 \in First(r)..(nextBucket[r] - 1)
           /\ \A b \in First(r)..(nextBucket[r] - 1) :
                 b - First(r) + 1 \in DOMAIN comm[r] /\ comm[r][b - First(r) + 1] = buckets[r][b]
           /\ comm[r] # <<>> => /\ First(r) < nextBucket[r]
                                /\ Head(comm[r]) = buckets[r][First(r)]
                                /\ Tail(comm[r]) = SubSeq(buckets[r], First(r) + 1, nextBucket[r] - 1)
<1>1. /\ nextBucket[r] \in 1..(Len(buckets[r]) + 1) /\ Len(buckets[r]) \in Nat
      /\ buckets[r] \in Seq(Seq(Params)) /\ comm[r] \in Seq(Seq(Params))
  BY RankTypes DEF TypeOK
<1>2. First(r) \in 1..nextBucket[r] /\ comm[r] = SubSeq(buckets[r], First(r), nextBucket[r] - 1)
  BY DEF StreamInv
<1>3. PICK bs \in Seq(Seq(Params)), f \in Nat \ {0}, n \in Nat :
        bs = buckets[r] /\ f = First(r) /\ n = nextBucket[r]
  BY <1>1, <1>2
<1>4. f <= n /\ n - 1 <= Len(bs)
  BY <1>1, <1>2, <1>3
<1>5. comm[r] = SubSeq(bs, f, n - 1)
  BY <1>2, <1>3
<1>6. /\ Len(SubSeq(bs, f, n - 1)) = n - f
      /\ DOMAIN SubSeq(bs, f, n - 1) = 1..(n - f)
      /\ \A k \in 1..(n - f) : SubSeq(bs, f, n - 1)[k] = bs[f + k - 1]
  BY <1>4
<1>7. \A k \in 1..(n - f) : f + k - 1 \in f..(n - 1)
  OBVIOUS
<1>8. ASSUME NEW b \in f..(n - 1)
      PROVE  b - f + 1 \in 1..(n - f) /\ SubSeq(bs, f, n - 1)[b - f + 1] = bs[b]
  <2>1. b - f + 1 \in 1..(n - f) /\ f + (b - f + 1) - 1 = b
    OBVIOUS
  <2> QED BY <1>6, <2>1
<1>9. comm[r] # <<>> => f < n
  <2> SUFFICES ASSUME ~(f < n) PROVE comm[r] = <<>>
    OBVIOUS
  <2>1. Len(comm[r]) = 0
    BY <1>4, <1>5, <1>6
  <2> QED BY <1>1, <2>1
<1>10. f < n => /\ Head(SubSeq(bs, f, n - 1)) = bs[f]
                /\ Tail(SubSeq(bs, f, n - 1)) = SubSeq(bs, f + 1, n - 1)
  BY <1>4, SegmentTail
<1> QED BY <1>2, <1>3, <1>5, <1>6, <1>7, <1>8, <1>9, <1>10, ZenonT(30)

LEMMA ValueFrame ==
    ASSUME Config, NEW s, Same(s), StreamInv(s), ValueInv(s)
    PROVE  StreamInv(s)' /\ ValueInv(s)'
<1>1. First(s)' = First(s) /\ (Busy(s)' <=> Busy(s))
  BY DEF Same, First, Busy
<1>2. StreamInv(s)'
  BY <1>1 DEF Same, StreamInv
<1>3. \A p : Base0(s, p)' = Base0(s, p) /\ GradValue(s, p)' = GradValue(s, p)
  BY DEF Same, Base0, GradValue
<1>4. ValueInv(s)'
  BY <1>1, <1>3 DEF Same, Config, ValueInv
<1> QED BY <1>2, <1>4

LEMMA PrepareStream ==
    ASSUME TypeOK, NEW r \in Ranks, PrepareForBackward(r), StreamInv(r)
    PROVE  StreamInv(r)' /\ comm[r] = <<>> /\ First(r)' = 1
<1>1. /\ phase[r] = "forward" /\ phase'[r] \in {"forward", "backward"}
      /\ comm'[r] = comm[r] /\ nextBucket'[r] = 1
      /\ work'[r] = IF Moves(r) THEN {} ELSE work[r]
      /\ buckets'[r] = NewBuckets(r)
  BY PrepareEffect
<1>2. comm[r] = <<>> /\ work[r] = {}
  BY <1>1 DEF StreamInv, Busy
<1>3. First(r)' = 1
  BY <1>1, <1>2 DEF First
<1>4. SubSeq(NewBuckets(r), 1, 1 - 1) = <<>> /\ 1..(1 - 1) = {}
  <2>1. NewBuckets(r) \in Seq(Seq(Params))
    BY NewBucketsType, FreshPendingType
  <2> QED BY <2>1
<1>5. work'[r] = {}
  BY <1>1, <1>2
<1> QED BY <1>1, <1>2, <1>3, <1>4, <1>5 DEF StreamInv, Busy

LEMMA MarkStream ==
    ASSUME TypeOK, NEW r \in Ranks, NEW p \in Params, MarkVariableReadyDense(r, p),
           PhaseInv(r), StreamInv(r)
    PROVE  StreamInv(r)' /\ First(r)' = First(r) /\ First(r) <= Bucket(r, p)
<1>1. phase[r] = "backward" /\ LaunchedPrefix(r) /\ ~allReady[r]
  BY DEF MarkVariableReadyDense, PhaseInv, Busy
<1>2. /\ buckets'[r] = buckets[r]
      /\ Len(buckets[r]) \in Nat
      /\ nextBucket[r] \in 1..(Len(buckets[r]) + 1)
      /\ nextBucket'[r] \in nextBucket[r]..(Len(buckets[r]) + 1)
      /\ Bucket(r, p) \in nextBucket[r]..Len(buckets[r])
      /\ phase'[r] = IF allReady'[r] THEN "finalize" ELSE "backward"
      /\ work'[r] = work[r] \cup (nextBucket[r]..(nextBucket'[r] - 1))
      /\ comm'[r] = comm[r] \o SubSeq(buckets[r], nextBucket[r], nextBucket'[r] - 1)
  BY <1>1, MarkEffect
<1>3. /\ First(r) \in 1..nextBucket[r]
      /\ comm[r] = SubSeq(buckets[r], First(r), nextBucket[r] - 1)
      /\ work[r] = 1..(nextBucket[r] - 1)
  BY <1>1 DEF StreamInv, Busy
<1>4. PICK bs \in Seq(Seq(Params)), f \in Nat \ {0}, n \in Nat, m \in Nat :
        bs = buckets[r] /\ f = First(r) /\ n = nextBucket[r] /\ m = nextBucket'[r]
  <2>1. buckets[r] \in Seq(Seq(Params))
    BY DEF TypeOK
  <2>2. First(r) \in Nat \ {0} /\ nextBucket[r] \in Nat /\ nextBucket'[r] \in Nat
    BY <1>2, <1>3, SMTT(20)
  <2> QED BY <2>1, <2>2
<1>5. f <= n /\ n <= m /\ m - 1 <= Len(bs)
  BY <1>2, <1>3, <1>4
<1>6. comm'[r] = SubSeq(bs, f, m - 1) /\ Len(comm'[r]) = m - f
  <2>1. comm'[r] = SubSeq(bs, f, n - 1) \o SubSeq(bs, n, m - 1)
    BY <1>2, <1>3, <1>4
  <2>2. SubSeq(bs, f, n - 1) \o SubSeq(bs, n, m - 1) = SubSeq(bs, f, m - 1)
    BY <1>5, SegmentJoin
  <2>3. Len(SubSeq(bs, f, m - 1)) = m - f
    BY <1>5
  <2> QED BY <2>1, <2>2, <2>3
<1>7. First(r)' = f
  <2>1. First(r)' = m - Len(comm'[r])
    BY <1>4 DEF First
  <2> QED BY <1>5, <1>6, <2>1
<1>8. work'[r] = 1..(m - 1)
  <2>1. 1..(m - 1) = 1..(n - 1) \cup n..(m - 1)
    <3>1. 1 <= n
      BY <1>5
    <3> QED BY <1>5, <3>1
  <2> QED BY <1>2, <1>3, <1>4, <2>1
<1>9. f \in 1..m
  BY <1>5
<1>10. f <= Bucket(r, p)
  BY <1>2, <1>4, <1>5
<1>11. phase'[r] \in {"backward", "finalize"}
  BY <1>2
<1> QED BY <1>2, <1>4, <1>6, <1>7, <1>8, <1>9, <1>10, <1>11 DEF StreamInv, Busy

(* Finalizing waits for everything that was launched.                      *)
LEMMA Drained ==
    ASSUME TypeOK, NEW r \in Ranks, FinalizeBackward(r), PhaseInv(r), StreamInv(r)
    PROVE  /\ comm[r] = <<>> /\ First(r) = Len(buckets[r]) + 1
           /\ Launchings(r) = Params
<1>1. phase[r] = "finalize" /\ Launchings(r) \cap InFlight(r) = {}
  BY FinalizeEffect
<1>2. nextBucket[r] = Len(buckets[r]) + 1 /\ work[r] = 1..(nextBucket[r] - 1)
  BY <1>1 DEF PhaseInv, StreamInv, Busy
<1>3. /\ IsBucketList(buckets[r]) /\ Len(buckets[r]) \in Nat
      /\ DOMAIN buckets[r] = 1..Len(buckets[r]) /\ comm[r] \in Seq(Seq(Params))
  BY RankTypes
<1>4. work[r] = DOMAIN buckets[r]
  BY <1>2, <1>3
<1>5. Launchings(r) = Params
  <2>1. ASSUME NEW p \in Params PROVE p \in Launchings(r)
    <3>1. Locator(buckets[r], p) \in DOMAIN buckets[r]
          /\ p \in ParamsIn(buckets[r][Locator(buckets[r], p)])
      BY <1>3, LocatorUnique
    <3> QED BY <1>4, <3>1 DEF Launchings
  <2>2. \A b \in DOMAIN buckets[r] : ParamsIn(buckets[r][b]) \subseteq Params
    BY <1>3, BucketSize
  <2> QED BY <1>4, <2>1, <2>2 DEF Launchings
<1>6. comm[r] = <<>>
  <2> SUFFICES ASSUME comm[r] # <<>> PROVE FALSE
    OBVIOUS
  <2>1. 1 \in DOMAIN comm[r]
    BY <1>3
  <2>2. /\ comm[r][1] = buckets[r][First(r) + 1 - 1]
        /\ First(r) + 1 - 1 \in First(r)..(nextBucket[r] - 1)
        /\ First(r) \in Nat \ {0}
    BY <1>1, <2>1, StreamFacts DEF Busy
  <2>3. First(r) + 1 - 1 = First(r)
    BY <2>2
  <2>4. First(r) \in DOMAIN buckets[r] /\ comm[r][1] = buckets[r][First(r)]
    BY <1>2, <1>3, <2>2, <2>3
  <2>5. buckets[r][First(r)] \in Seq(Params) /\ buckets[r][First(r)] # <<>>
    BY <1>3, <2>4, BucketListIs
  <2>6. buckets[r][First(r)][1] \in ParamsIn(comm[r][1]) /\ buckets[r][First(r)][1] \in Params
    <3>1. 1 \in DOMAIN buckets[r][First(r)] /\ buckets[r][First(r)][1] \in Params
      BY <2>5
    <3> QED BY <2>4, <3>1 DEF ParamsIn
  <2>7. buckets[r][First(r)][1] \in InFlight(r)
    BY <2>1, <2>6 DEF InFlight
  <2> QED BY <1>1, <1>5, <2>6, <2>7
<1>7. First(r) = Len(buckets[r]) + 1
  BY <1>2, <1>3, <1>6 DEF First
<1> QED BY <1>5, <1>6, <1>7

LEMMA FinalizeStream ==
    ASSUME TypeOK, NEW r \in Ranks, FinalizeBackward(r), PhaseInv(r), StreamInv(r)
    PROVE  StreamInv(r)'
<1>1. /\ comm[r] = <<>> /\ comm'[r] = comm[r] /\ work'[r] = {} /\ phase[r] = "finalize"
      /\ todo[r] = {} => EndsRound(r)
  BY Drained, FinalizeEffect
<1>2. phase'[r] \in {"forward", "step"}
  BY <1>1 DEF PhaseInv, EndsRound
<1> QED BY <1>1, <1>2 DEF StreamInv, Busy

LEMMA OptimizerStream ==
    ASSUME TypeOK, NEW r \in Ranks, OptimizerStep(r), StreamInv(r)
    PROVE  StreamInv(r)'
<1>1. /\ phase[r] = "step" /\ phase'[r] = "loss" /\ work' = work
      /\ comm'[r] = Append(comm[r], LossReduce)
  BY OptimizerEffect
<1>2. comm[r] = <<>> /\ work[r] = {}
  BY <1>1 DEF StreamInv, Busy
<1>3. comm'[r] = <<LossReduce>>
  BY <1>1, <1>2
<1> QED BY <1>1, <1>2, <1>3 DEF StreamInv, Busy

LEMMA StartStream ==
    ASSUME TypeOK, NEW r \in Ranks, NEW z \in BOOLEAN, StartStep(r, z), StreamInv(r)
    PROVE  StreamInv(r)' /\ comm[r] = <<>>
<1>1. /\ phase[r] = "loss" /\ phase'[r] \in {"done", "forward"}
      /\ work' = work /\ comm' = comm
      /\ \A k \in DOMAIN comm[r] : comm[r][k] # LossReduce
  BY StartEffect
<1>2. comm[r] \in {<<>>, <<LossReduce>>} /\ work[r] = {}
  BY <1>1 DEF StreamInv, Busy
<1>3. comm[r] # <<LossReduce>>
  <2>1. 1 \in DOMAIN <<LossReduce>> /\ <<LossReduce>>[1] = LossReduce
    OBVIOUS
  <2> QED BY <1>1, <2>1
<1> QED BY <1>1, <1>2, <1>3 DEF StreamInv, Busy

LEMMA CompletesStream ==
    ASSUME TypeOK, NEW r \in Ranks, AllReduceCompletes, StreamInv(r)
    PROVE  /\ StreamInv(r)' /\ Busy(r)' = Busy(r)
           /\ Busy(r) => First(r)' = First(r) + 1
           /\ ~Busy(r) => Head(comm[r]) = LossReduce
<1>1. /\ UNCHANGED <<phase, buckets, work, nextBucket>>
      /\ comm[r] # <<>> /\ comm'[r] = Tail(comm[r])
  BY CompletesEffect
<1>2. CASE Busy(r)
  <2>1. /\ First(r) \in 1..nextBucket[r] /\ First(r) \in Nat \ {0}
        /\ Len(comm[r]) = nextBucket[r] - First(r)
        /\ First(r) < nextBucket[r]
        /\ Tail(comm[r]) = SubSeq(buckets[r], First(r) + 1, nextBucket[r] - 1)
    BY <1>1, <1>2, StreamFacts
  <2>2. nextBucket[r] \in Nat
    BY DEF TypeOK
  <2>3. Len(Tail(comm[r])) = Len(comm[r]) - 1
    BY <1>1, RankTypes
  <2>4. First(r)' = First(r) + 1
    BY <1>1, <2>1, <2>2, <2>3 DEF First
  <2>5. First(r) + 1 \in 1..nextBucket[r]
    BY <2>1, <2>2
  <2>6. work[r] = 1..(nextBucket[r] - 1)
    BY <1>2 DEF StreamInv
  <2> QED BY <1>1, <1>2, <2>1, <2>4, <2>5, <2>6 DEF StreamInv, Busy
<1>3. CASE ~Busy(r)
  <2>1. phase[r] = "loss"
    BY <1>1, <1>3 DEF StreamInv, Busy, TypeOK, Phases
  <2>2. comm[r] = <<LossReduce>> /\ work[r] = {}
    BY <1>1, <1>3, <2>1 DEF StreamInv
  <2>3. Tail(<<LossReduce>>) = <<>> /\ Head(<<LossReduce>>) = LossReduce
    OBVIOUS
  <2> QED BY <1>1, <1>3, <2>1, <2>2, <2>3 DEF StreamInv, Busy
<1> QED BY <1>2, <1>3

-----------------------------------------------------------------------------
(* With every parameter trainable: the values.                             *)

LEMMA PriorFacts ==
    ASSUME NEW i \in Nat \ {0}
    PROVE  /\ i % AccumSteps # 0 => Prior(i + 1) = Prior(i) \cup {i}
           /\ i % AccumSteps = 0 => Prior(i + 1) = {} /\ Prior(i) \cup {i} = RoundsOfStep(i)
           /\ Prior(1) = {}
<1>1. PICK a \in Nat \ {0}, m \in Nat, k \in Nat :
        a = AccumSteps /\ m = i % AccumSteps /\ k = (i - 1) % AccumSteps
  <2>1. \A x \in Nat, y \in Nat \ {0} : x % y \in Nat
    OBVIOUS
  <2> QED BY <2>1, CountsAssumption
<1>2. /\ m \in 0..(a - 1) /\ k \in 0..(a - 1)
      /\ m = 0 => k = a - 1
      /\ m # 0 => m = k + 1
  <2>1. /\ i % a \in 0..(a - 1) /\ (i - 1) % a \in 0..(a - 1)
        /\ i % a = 0 => (i - 1) % a = a - 1
        /\ i % a # 0 => i % a = ((i - 1) % a) + 1
    BY Division, Zenon
  <2> QED BY <1>1, <2>1
<1>3. k <= i - 1
  <2>1. \A x \in Nat, y \in Nat \ {0} : x % y <= x
    OBVIOUS
  <2>2. (i - 1) % a <= i - 1
    BY <2>1
  <2> QED BY <1>1, <2>2
<1>4. Prior(i) = (i - k)..(i - 1)
  BY <1>1 DEF Prior
<1>5. Prior(i + 1) = (i + 1 - m)..i
  <2>1. (i + 1) - 1 = i
    OBVIOUS
  <2> QED BY <1>1, <2>1 DEF Prior
<1>6. m # 0 => (i + 1 - m)..i = (i - k)..(i - 1) \cup {i}
  BY <1>2, <1>3
<1>7. m = 0 => (i + 1 - m)..i = {} /\ (i - k)..(i - 1) \cup {i} = (i - a + 1)..i
  BY <1>2, <1>3
<1>8. RoundsOfStep(i) = (i - a + 1)..i
  BY <1>1 DEF RoundsOfStep
<1>9. Prior(1) = {}
  <2>1. 0 % a = 0
    OBVIOUS
  <2>2. (1 - 0)..(1 - 1) = {} /\ 1 - 1 = 0
    OBVIOUS
  <2> QED BY <1>1, <2>1, <2>2 DEF Prior
<1> QED BY <1>1, <1>4, <1>5, <1>6, <1>7, <1>8, <1>9

LEMMA ValueFacts ==
    ASSUME NEW i \in Nat \ {0}
    PROVE  /\ i % AccumSteps # 0 => After(i) = Before(i + 1)
           /\ i % AccumSteps = 0 => /\ Before(i + 1) = Zero
                                    /\ After(i) = [avg |-> RoundsOfStep(i), loc |-> {}]
           /\ Before(1) = Zero
           /\ Plus(Before(i), i) = Alone(i)
           /\ Average({Alone(i)}) = After(i)
<1>1. Plus(Before(i), i) = Alone(i)
  BY DEF Plus, Before, Alone
<1>2. Average({Alone(i)}) = After(i)
  <2>1. (CHOOSE x \in {Alone(i)} : TRUE) = Alone(i)
    OBVIOUS
  <2>2. JunkRound \notin Alone(i).loc
    BY DEF Alone, JunkRound
  <2>3. Average({Alone(i)}) = [avg |-> Alone(i).avg \cup Alone(i).loc, loc |-> {}]
    BY <2>1, <2>2 DEF Average
  <2> QED BY <2>3 DEF Alone, After
<1> QED BY <1>1, <1>2, PriorFacts DEF After, Before, Zero

LEMMA AccumulatedIs ==
    ASSUME NEW r, NEW p
    PROVE  Accumulated(r, p) = Plus(Base0(r, p), round[r])
BY DEF Accumulated, Base0

LEMMA PrepareValue ==
    ASSUME TypeOK, NEW r \in Ranks, PrepareForBackward(r), ValueInv(r), trainable = Params
    PROVE  ValueInv(r)'
<1>1. /\ Config /\ phase[r] = "forward"
      /\ phase'[r] = IF forwards[r] = 1 THEN "backward" ELSE "forward"
      /\ todo'[r] = IF forwards[r] = 1 THEN trainable ELSE todo[r]
      /\ round'[r] = round[r] /\ own'[r] = own[r]
      /\ \A p \in Params :
            /\ overwrite'[r][p] = (overwrite[r][p] \/ (asView /\ grad[r][p] = "null"))
            /\ grad'[r][p] = IF asView THEN "view" ELSE grad[r][p]
            /\ mem'[r][p] = IF asView /\ grad[r][p] = "own" THEN own[r][p]
                            ELSE IF Moves(r) /\ grad[r][p] # "view" THEN Junk
                            ELSE mem[r][p]
  BY PrepareEffect
<1>2. asView' = asView
  BY <1>1 DEF Config
<1>3. ASSUME NEW p \in Params PROVE Base0(r, p)' = Before(round[r])
  <2>1. Base0(r, p) = Before(round[r])
    BY <1>1 DEF ValueInv
  <2>2. /\ asView => grad[r][p] # "own"
        /\ ~asView => grad[r][p] # "view"
        /\ grad[r][p] \in {"null", "view", "own"}
    BY DEF ValueInv, TypeOK
  <2>3. CASE asView /\ grad[r][p] = "null"
    <3>1. overwrite'[r][p]
      BY <1>1, <2>3
    <3> QED BY <2>1, <2>3, <3>1 DEF Base0
  <2>4. CASE asView /\ grad[r][p] # "null"
    <3>1. grad[r][p] = "view" /\ grad'[r][p] = "view" /\ mem'[r][p] = mem[r][p]
      BY <1>1, <2>2, <2>4
    <3>2. overwrite'[r][p] <=> overwrite[r][p]
      BY <1>1, <2>4
    <3> QED BY <2>1, <3>1, <3>2 DEF Base0, GradValue
  <2>5. CASE ~asView
    <3>1. grad'[r][p] = grad[r][p] /\ own'[r][p] = own[r][p] /\ grad[r][p] # "view"
      BY <1>1, <2>2, <2>5
    <3>2. overwrite'[r][p] <=> overwrite[r][p]
      BY <1>1, <2>5
    <3> QED BY <2>1, <3>1, <3>2 DEF Base0, GradValue
  <2> QED BY <2>3, <2>4, <2>5
<1>4. ASSUME NEW p \in Params
      PROVE  IF asView THEN grad'[r][p] # "own" /\ grad'[r][p] = "view" ELSE grad'[r][p] # "view"
  BY <1>1 DEF ValueInv
<1>5. phase'[r] = "backward" => todo'[r] = Params
  BY <1>1
<1>6. phase'[r] \in {"forward", "backward"}
  BY <1>1
<1> QED BY <1>1, <1>2, <1>3, <1>4, <1>5, <1>6 DEF ValueInv, Busy

LEMMA MarkValue ==
    ASSUME TypeOK, NEW r \in Ranks, NEW p \in Params, MarkVariableReadyDense(r, p),
           PhaseInv(r), StreamInv(r), ValueInv(r)
    PROVE  ValueInv(r)'
<1>1. phase[r] = "backward" /\ LaunchedPrefix(r) /\ ~allReady[r]
  BY DEF MarkVariableReadyDense, PhaseInv, Busy
<1>2. /\ Config /\ buckets'[r] = buckets[r] /\ round'[r] = round[r]
      /\ p \in todo[r] /\ todo'[r] = todo[r] \ {p}
      /\ phase'[r] = IF allReady'[r] THEN "finalize" ELSE "backward"
      /\ \A q \in Params :
            /\ overwrite'[r][q] = IF q = p THEN FALSE ELSE overwrite[r][q]
            /\ grad'[r][q] = IF q = p /\ grad[r][p] = "null" THEN "own" ELSE grad[r][q]
            /\ mem'[r][q] = IF q = p THEN Accumulated(r, p) ELSE mem[r][q]
            /\ q # p => own'[r][q] = own[r][q]
  <2>1. /\ Config /\ buckets'[r] = buckets[r] /\ round'[r] = round[r]
        /\ p \in todo[r] /\ todo'[r] = todo[r] \ {p}
        /\ phase'[r] = IF allReady'[r] THEN "finalize" ELSE "backward"
    BY <1>1, MarkEffect
  <2>2. MarkedValues(r, p)
    BY <1>1, MarkEffect
  <2> QED BY <2>1, <2>2 DEF MarkedValues
<1>3. First(r)' = First(r) /\ First(r) <= Bucket(r, p)
  BY MarkStream
<1>4. /\ asView' = asView /\ round[r] \in Nat \ {0} /\ First(r) \in Nat
      /\ Bucket(r, p) \in Nat
  <2>1. First(r) \in Nat \ {0}
    BY <1>1, StreamFacts DEF Busy
  <2>2. Bucket(r, p) \in 1..Len(buckets[r])
    BY MarkFacts
  <2> QED BY <1>2, <2>1, <2>2, RankTypes DEF Config
<1>5. Busy(r) /\ phase'[r] \in {"backward", "finalize"}
  BY <1>1, <1>2 DEF Busy
<1>6. \A q \in Params :
         /\ IF asView THEN grad[r][q] = "view" ELSE grad[r][q] # "view"
         /\ IF q \in todo[r] THEN Base0(r, q) = Before(round[r])
            ELSE /\ grad[r][q] # "null" /\ ~overwrite[r][q]
                 /\ mem[r][q] = IF Locator(buckets[r], q) < First(r)
                                THEN After(round[r]) ELSE Alone(round[r])
  BY <1>5 DEF ValueInv
<1>7. ASSUME NEW q \in Params
      PROVE  IF asView THEN grad'[r][q] # "own" /\ grad'[r][q] = "view" ELSE grad'[r][q] # "view"
  <2>1. asView => grad[r][q] = "view"
    BY <1>6
  <2>2. ~asView => grad[r][q] # "view"
    BY <1>6
  <2>3. grad'[r][q] = IF q = p /\ grad[r][p] = "null" THEN "own" ELSE grad[r][q]
    BY <1>2
  <2> QED BY <2>1, <2>2, <2>3
<1>8. ASSUME NEW q \in Params, q \in todo'[r] PROVE Base0(r, q)' = Before(round[r])
  <2>1. q \in todo[r] /\ q # p
    BY <1>2, <1>8
  <2>2. /\ overwrite'[r][q] = overwrite[r][q] /\ grad'[r][q] = grad[r][q]
        /\ mem'[r][q] = mem[r][q] /\ own'[r][q] = own[r][q]
    BY <1>2, <2>1
  <2>3. Base0(r, q)' = Base0(r, q)
    BY <2>2 DEF Base0, GradValue
  <2> QED BY <1>6, <2>1, <2>3
<1>9. ASSUME NEW q \in Params, q \notin todo'[r]
      PROVE  /\ grad'[r][q] # "null" /\ ~overwrite'[r][q]
             /\ mem'[r][q] = IF Locator(buckets[r], q) < First(r)
                             THEN After(round[r]) ELSE Alone(round[r])
  <2>1. CASE q = p
    <3>1. mem'[r][p] = Alone(round[r])
      <4>1. mem'[r][p] = Plus(Base0(r, p), round[r])
        BY <1>2, AccumulatedIs
      <4>2. Base0(r, p) = Before(round[r])
        BY <1>2, <1>6
      <4> QED BY <1>4, <4>1, <4>2, ValueFacts
    <3>2. ~(Locator(buckets[r], p) < First(r))
      BY <1>3, <1>4 DEF Bucket
    <3>3. grad'[r][p] # "null" /\ ~overwrite'[r][p]
      BY <1>2
    <3> QED BY <2>1, <3>1, <3>2, <3>3
  <2>2. CASE q # p
    <3>1. q \notin todo[r]
      BY <1>2, <1>9, <2>2
    <3>2. /\ overwrite'[r][q] = overwrite[r][q] /\ grad'[r][q] = grad[r][q]
          /\ mem'[r][q] = mem[r][q]
      BY <1>2, <2>2
    <3> QED BY <1>6, <3>1, <3>2
  <2> QED BY <2>1, <2>2
<1>10. ASSUME NEW q \in Params
       PROVE  IF q \in todo'[r] THEN Base0(r, q)' = Before(round'[r])
              ELSE /\ grad'[r][q] # "null" /\ ~overwrite'[r][q]
                   /\ mem'[r][q] = IF Locator(buckets'[r], q) < First(r)'
                                   THEN After(round'[r]) ELSE Alone(round'[r])
  BY <1>2, <1>3, <1>8, <1>9
<1> QED BY <1>4, <1>5, <1>7, <1>10 DEF ValueInv, Busy

LEMMA FinalizeValue ==
    ASSUME TypeOK, NEW r \in Ranks, FinalizeBackward(r), PhaseInv(r), StreamInv(r), ValueInv(r)
    PROVE  ValueInv(r)'
<1>1. /\ Config /\ phase[r] = "finalize"
      /\ todo[r] = {} => EndsRound(r)
      /\ grad'[r] = grad[r] /\ overwrite'[r] = overwrite[r] /\ mem'[r] = mem[r]
      /\ \A p \in Params :
            own'[r][p] = IF ~asView /\ p \in Launchings(r) THEN mem[r][p] ELSE own[r][p]
  BY FinalizeEffect
<1>2. Launchings(r) = Params /\ First(r) = Len(buckets[r]) + 1
  BY Drained
<1>3. todo[r] = {} /\ EndsRound(r)
  BY <1>1 DEF PhaseInv
<1>4. /\ asView' = asView /\ round[r] \in Nat \ {0} /\ IsBucketList(buckets[r])
      /\ DOMAIN buckets[r] = 1..Len(buckets[r]) /\ Len(buckets[r]) \in Nat
  BY <1>1, RankTypes DEF Config
<1>5. \/ phase'[r] = "step" /\ round'[r] = round[r]
      \/ phase'[r] = "forward" /\ round'[r] = round[r] + 1 /\ round[r] % AccumSteps # 0
  BY <1>3 DEF EndsRound
<1>6. ASSUME NEW p \in Params
      PROVE  /\ IF asView THEN grad[r][p] = "view" ELSE grad[r][p] # "view"
             /\ grad[r][p] # "null" /\ ~overwrite[r][p] /\ mem[r][p] = After(round[r])
  <2>1. /\ IF asView THEN grad[r][p] = "view" ELSE grad[r][p] # "view"
        /\ grad[r][p] # "null" /\ ~overwrite[r][p]
        /\ mem[r][p] = IF Locator(buckets[r], p) < First(r)
                       THEN After(round[r]) ELSE Alone(round[r])
    BY <1>1, <1>3 DEF ValueInv, Busy
  <2>2. Locator(buckets[r], p) \in 1..Len(buckets[r])
    BY <1>4, LocatorUnique
  <2>3. Locator(buckets[r], p) < First(r)
    BY <1>2, <1>4, <2>2
  <2> QED BY <2>1, <2>3
<1>7. ASSUME NEW p \in Params
      PROVE  GradValue(r, p)' = After(round[r]) /\ Base0(r, p)' = After(round[r])
  <2>1. CASE asView
    <3>1. grad'[r][p] = "view" /\ mem'[r][p] = After(round[r]) /\ ~overwrite'[r][p]
      BY <1>1, <1>6, <2>1
    <3> QED BY <3>1 DEF GradValue, Base0
  <2>2. CASE ~asView
    <3>1. /\ grad'[r][p] # "view" /\ grad'[r][p] # "null" /\ ~overwrite'[r][p]
          /\ own'[r][p] = After(round[r])
      BY <1>1, <1>2, <1>6, <2>2
    <3> QED BY <3>1 DEF GradValue, Base0
  <2> QED BY <2>1, <2>2
<1>8. phase'[r] = "forward" => After(round[r]) = Before(round'[r])
  BY <1>4, <1>5, ValueFacts
<1>9. ASSUME NEW p \in Params
      PROVE  IF asView THEN grad'[r][p] # "own" ELSE grad'[r][p] # "view"
  BY <1>1, <1>6
<1> QED BY <1>4, <1>5, <1>7, <1>8, <1>9 DEF ValueInv, Busy

LEMMA OptimizerValue ==
    ASSUME TypeOK, NEW r \in Ranks, OptimizerStep(r), ValueInv(r)
    PROVE  ValueInv(r)'
<1>1. phase'[r] = "loss" /\ grad' = grad /\ Config
  BY OptimizerEffect
<1> QED BY <1>1 DEF ValueInv, Busy, Config

LEMMA StartValue ==
    ASSUME TypeOK, NEW r \in Ranks, NEW z \in BOOLEAN, StartStep(r, z), PhaseInv(r),
           ValueInv(r), trainable = Params
    PROVE  ValueInv(r)'
<1>1. /\ Config /\ phase[r] = "loss" /\ overwrite' = overwrite
      /\ phase'[r] = IF IsLastRound(round[r]) THEN "done" ELSE "forward"
      /\ round'[r] = IF IsLastRound(round[r]) THEN round[r] ELSE round[r] + 1
      /\ \A p \in Params :
            /\ grad'[r][p] = grad[r][p] \/ grad'[r][p] = "null"
            /\ phase'[r] = "forward" /\ trainable = Params /\ grad'[r][p] # "null"
                 => IF grad[r][p] = "view" THEN mem'[r][p] = Zero
                    ELSE grad[r][p] = "own" => own'[r][p] = Zero
  BY StartEffect
<1>2. round[r] % AccumSteps = 0 /\ round[r] \in Nat \ {0}
  BY <1>1, RankTypes DEF PhaseInv
<1>3. ASSUME phase'[r] = "forward", NEW p \in Params PROVE Base0(r, p)' = Before(round'[r])
  <2>1. Before(round'[r]) = Zero
    BY <1>1, <1>2, <1>3, ValueFacts
  <2>2. CASE grad'[r][p] = "null"
    BY <2>1, <2>2 DEF Base0
  <2>3. CASE grad'[r][p] # "null"
    <3>1. grad'[r][p] = grad[r][p] /\ grad[r][p] \in {"view", "own"}
      BY <1>1, <2>3 DEF TypeOK
    <3>2. GradValue(r, p)' = Zero
      BY <1>1, <1>3, <2>3, <3>1 DEF GradValue
    <3> QED BY <2>1, <3>2 DEF Base0
  <2> QED BY <2>2, <2>3
<1>4. ASSUME NEW p \in Params
      PROVE  IF asView THEN grad'[r][p] # "own" ELSE grad'[r][p] # "view"
  <2>1. IF asView THEN grad[r][p] # "own" ELSE grad[r][p] # "view"
    BY DEF ValueInv
  <2>2. grad'[r][p] = grad[r][p] \/ grad'[r][p] = "null"
    BY <1>1
  <2> QED BY <2>1, <2>2
<1>5. phase'[r] \in {"done", "forward"} /\ asView' = asView
  BY <1>1 DEF Config
<1> QED BY <1>3, <1>4, <1>5 DEF ValueInv, Busy

(* The head of a stream is the next of the history to complete.            *)
LEMMA HeadPlace ==
    ASSUME TypeOK, CountInv, NEW s \in Ranks, PhaseInv(s), RebuildInv(s), StreamInv(s), Busy(s),
           comm[s] # <<>>, NEW c \in Nat, HistoryFrom(c, s)
    PROVE  /\ InRound(Setting, round[s], First(s))
           /\ Base(Setting, round[s]) + First(s) = c + 1
<1>1. /\ First(s) \in Nat \ {0} /\ First(s) < nextBucket[s]
      /\ Len(comm[s]) = nextBucket[s] - First(s)
  BY StreamFacts
<1>2. /\ nextBucket[s] \in 1..(Len(buckets[s]) + 1) /\ Len(buckets[s]) \in Nat
      /\ round[s] \in Rounds /\ round[s] \in Nat \ {0}
      /\ IsBucketList(buckets[s])
      /\ Setting \in Settings /\ Setting.trainable = trainable
  BY RankTypes, SettingType
<1>3. nextBucket[s] - 1 <= Launches(Setting, round[s])
  <2>1. buckets[s] = BucketsOf(Setting, round[s])
    BY RoundBuckets
  <2>2. Waits(buckets[s], pending[s], todo[s] \cup (Params \ Setting.trainable))
    BY <1>2, WaitsNow DEF Out
  <2>3. \A b \in 1..(nextBucket[s] - 1) : pending[s][b] = 0
    BY DEF PhaseInv, LaunchedPrefix
  <2>4. nextBucket[s] - 1 \in 0..Len(buckets[s])
    BY <1>2
  <2> QED BY <1>2, <2>1, <2>2, <2>3, <2>4, CompleteAreTrainable
<1>4. PICK f \in Nat \ {0}, n \in Nat, l \in Nat, b \in Nat :
        /\ f = First(s) /\ n = nextBucket[s]
        /\ l = Launches(Setting, round[s]) /\ b = Base(Setting, round[s])
  BY <1>1, <1>2, IssuedType
<1>5. f < n /\ n - 1 <= l
  BY <1>1, <1>3, <1>4
<1>6. InRound(Setting, round[s], First(s))
  <2>1. f \in 1..(l + 1) /\ f # l + 1
    BY <1>5
  <2> QED BY <1>2, <1>4, <2>1 DEF InRound
<1>7. b + (n - 1) = c + (n - f)
  BY <1>1, <1>4 DEF HistoryFrom, Issued, Busy
<1>8. b + f = c + 1
  BY <1>7
<1> QED BY <1>4, <1>6, <1>8

LEMMA CompletesValue ==
    ASSUME TypeOK, CountInv, RankInv, History, AllReduceCompletes,
           \A s \in Ranks : StreamInv(s) /\ ValueInv(s), NEW r \in Ranks
    PROVE  ValueInv(r)'
<1>1. /\ Config
      /\ UNCHANGED <<phase, round, todo, grad, own, overwrite, buckets>>
      /\ \A s \in Ranks : Head(comm[r]) = Head(comm[s]) /\ comm[s] # <<>>
      /\ \A p \in Params :
            mem'[r][p] = IF p \in ParamsIn(Head(comm[r]))
                         THEN Average({mem[s][p] : s \in Ranks}) ELSE mem[r][p]
  BY CompletesEffect
<1>2. asView' = asView /\ StreamInv(r) /\ ValueInv(r)
  BY <1>1 DEF Config
<1>3. CASE ~Busy(r)
  <2>1. ParamsIn(Head(comm[r])) = {}
    <3>1. Head(comm[r]) = LossReduce
      BY <1>2, <1>3, CompletesStream
    <3> QED BY <3>1 DEF ParamsIn, LossReduce
  <2>2. \A p \in Params : mem'[r][p] = mem[r][p]
    BY <1>1, <2>1
  <2>3. \A p \in Params : Base0(r, p)' = Base0(r, p) /\ GradValue(r, p)' = GradValue(r, p)
    BY <1>1, <2>2 DEF Base0, GradValue
  <2>4. ~Busy(r)'
    BY <1>1, <1>3 DEF Busy
  <2> QED BY <1>1, <1>2, <1>3, <2>3, <2>4 DEF ValueInv
<1>4. CASE Busy(r)
  <2>1. PICK c \in Nat : \A s \in Ranks : HistoryFrom(c, s)
    BY DEF History
  <2>2. ASSUME NEW s \in Ranks, Busy(s)
        PROVE  /\ First(s) \in DOMAIN buckets[s] /\ First(s) \in Nat \ {0}
               /\ pending[s][First(s)] = 0
               /\ Head(comm[s]) = buckets[s][First(s)] /\ Head(comm[s]) # LossReduce
    <3>1. /\ First(s) \in Nat \ {0} /\ First(s) < nextBucket[s]
          /\ Head(comm[s]) = buckets[s][First(s)]
      BY <1>1, <2>2, StreamFacts
    <3>2. /\ IsBucketList(buckets[s]) /\ Len(buckets[s]) \in Nat
          /\ DOMAIN buckets[s] = 1..Len(buckets[s])
          /\ nextBucket[s] \in 1..(Len(buckets[s]) + 1)
      BY RankTypes
    <3>3. First(s) \in DOMAIN buckets[s] /\ First(s) \in 1..(nextBucket[s] - 1)
      BY <3>1, <3>2
    <3>4. pending[s][First(s)] = 0
      BY <2>2, <3>3 DEF RankInv, PhaseInv, LaunchedPrefix
    <3>5. Head(comm[s]) # LossReduce
      <4>1. buckets[s][First(s)] \in Seq(Params) \ {<<>>}
        BY <3>2, <3>3, BucketListIs
      <4> QED BY <3>1, <4>1 DEF LossReduce
    <3> QED BY <3>1, <3>3, <3>4, <3>5
  <2>3. ASSUME NEW s \in Ranks PROVE Busy(s)
    <3>1. Head(comm[s]) # LossReduce
      BY <1>1, <1>4, <2>2
    <3> QED BY <3>1, CompletesStream
  <2>4. ASSUME NEW s \in Ranks
        PROVE  /\ round[s] = round[r] /\ First(s) = First(r) /\ buckets[s] = buckets[r]
    <3>1. /\ InRound(Setting, round[s], First(s))
          /\ Base(Setting, round[s]) + First(s) = c + 1
      BY <1>1, <2>1, <2>3, HeadPlace DEF RankInv
    <3>2. /\ InRound(Setting, round[r], First(r))
          /\ Base(Setting, round[r]) + First(r) = c + 1
      BY <1>1, <1>4, <2>1, HeadPlace DEF RankInv
    <3>3. round[s] = round[r] /\ First(s) = First(r)
      BY <3>1, <3>2, SettingType, PlaceUnique
    <3>4. buckets[s] = BucketsOf(Setting, round[s]) /\ buckets[r] = BucketsOf(Setting, round[r])
      BY <1>4, <2>3, RoundBuckets DEF RankInv
    <3> QED BY <3>3, <3>4
  <2>5. /\ IsBucketList(buckets[r]) /\ First(r) \in DOMAIN buckets[r] /\ First(r) \in Nat \ {0}
        /\ Head(comm[r]) = buckets[r][First(r)] /\ round[r] \in Nat \ {0}
        /\ DOMAIN buckets[r] = 1..Len(buckets[r])
    BY <1>4, <2>2, RankTypes
  <2>6. ASSUME NEW p \in Params
        PROVE  p \in ParamsIn(Head(comm[r])) <=> Locator(buckets[r], p) = First(r)
    BY <2>5, LocatorUnique
  <2>7. ASSUME NEW p \in Params, p \in ParamsIn(Head(comm[r])), NEW s \in Ranks
        PROVE  p \notin todo[s] /\ mem[s][p] = Alone(round[r])
    <3>1. Waits(buckets[s], pending[s], Out(s))
      BY <2>3, WaitsNow
    <3>2. p \in ParamsIn(buckets[s][First(s)]) /\ IsBucketList(buckets[s])
          /\ First(s) \in DOMAIN buckets[s] /\ pending[s][First(s)] = 0
      BY <2>2, <2>3, <2>4, <2>5, <2>7
    <3>3. p \notin todo[s]
      BY <3>1, <3>2, Waiting DEF Out
    <3>4. ~(Locator(buckets[s], p) < First(s))
      <4>1. Locator(buckets[s], p) = First(r)
        BY <2>4, <2>6, <2>7
      <4> QED BY <2>4, <2>5, <4>1
    <3>5. mem[s][p] = Alone(round[s])
      BY <2>3, <3>3, <3>4 DEF ValueInv
    <3> QED BY <2>4, <3>3, <3>5
  <2>8. ASSUME NEW p \in Params, p \in ParamsIn(Head(comm[r]))
        PROVE  mem'[r][p] = After(round[r])
    <3>1. {mem[s][p] : s \in Ranks} = {Alone(round[r])}
      BY <2>7, <2>8
    <3> QED BY <1>1, <2>5, <2>8, <3>1, ValueFacts
  <2>9. First(r)' = First(r) + 1 /\ Busy(r)'
    BY <1>2, <1>4, CompletesStream
  <2>10. ASSUME NEW p \in Params
         PROVE  IF p \in todo'[r] THEN Base0(r, p)' = Before(round'[r])
                ELSE /\ grad'[r][p] # "null" /\ ~overwrite'[r][p]
                     /\ mem'[r][p] = IF Locator(buckets'[r], p) < First(r)'
                                     THEN After(round'[r]) ELSE Alone(round'[r])
    <3>1. /\ IF p \in todo[r] THEN Base0(r, p) = Before(round[r])
             ELSE /\ grad[r][p] # "null" /\ ~overwrite[r][p]
                  /\ mem[r][p] = IF Locator(buckets[r], p) < First(r)
                                 THEN After(round[r]) ELSE Alone(round[r])
      BY <1>2, <1>4 DEF ValueInv
    <3>2. Locator(buckets[r], p) \in Nat
      BY <2>5, LocatorUnique
    <3>3. CASE p \in ParamsIn(Head(comm[r]))
      <4>1. p \notin todo[r] /\ mem'[r][p] = After(round[r]) /\ Locator(buckets[r], p) = First(r)
        BY <2>6, <2>7, <2>8, <3>3
      <4>2. Locator(buckets[r], p) < First(r) + 1
        BY <2>5, <4>1
      <4> QED BY <1>1, <2>9, <3>1, <4>1, <4>2
    <3>4. CASE p \notin ParamsIn(Head(comm[r]))
      <4>1. mem'[r][p] = mem[r][p] /\ Locator(buckets[r], p) # First(r)
        BY <1>1, <2>6, <3>4
      <4>2. Locator(buckets[r], p) < First(r) + 1 <=> Locator(buckets[r], p) < First(r)
        BY <2>5, <3>2, <4>1
      <4>3. Base0(r, p)' = Base0(r, p)
        BY <1>1, <4>1 DEF Base0, GradValue
      <4> QED BY <1>1, <2>9, <3>1, <4>1, <4>2, <4>3
    <3> QED BY <3>3, <3>4
  <2>11. \A p \in Params :
            IF asView THEN grad[r][p] = "view" ELSE grad[r][p] # "view"
    BY <1>2, <1>4 DEF ValueInv
  <2>12. phase'[r] \in {"backward", "finalize"}
    BY <1>1, <1>4 DEF Busy
  <2> QED BY <1>1, <1>2, <2>10, <2>11, <2>12 DEF ValueInv
<1> QED BY <1>3, <1>4

LEMMA InitAllTrainable == Init => AllTrainableInv
<1> SUFFICES ASSUME Init, NEW r \in Ranks PROVE StreamInv(r) /\ ValueInv(r)
  BY DEF AllTrainableInv
<1>1. StreamInv(r)
  BY DEF Init, StreamInv, Busy
<1>2. Zero = Before(1)
  <2>1. 1 \in Nat \ {0}
    OBVIOUS
  <2> QED BY <2>1, ValueFacts
<1>3. ValueInv(r)
  BY <1>2 DEF Init, ValueInv, Busy, Base0
<1> QED BY <1>1, <1>3

LEMMA NextAllTrainable ==
    /\ TypeOK /\ CountInv /\ RankInv /\ History /\ AllTrainableInv /\ [Next]_vars
    => AllTrainableInv'
<1> SUFFICES ASSUME TypeOK, CountInv, RankInv, History, AllTrainableInv, [Next]_vars,
                    trainable' = Params
             PROVE  \A r \in Ranks : StreamInv(r)' /\ ValueInv(r)'
  BY DEF AllTrainableInv
<1>0. ASSUME trainable = Params PROVE \A r \in Ranks : StreamInv(r) /\ ValueInv(r)
  BY <1>0 DEF AllTrainableInv
<1>1. CASE UNCHANGED vars
  <2>1. Config /\ \A s \in Ranks : Same(s)
    BY <1>1 DEF vars, loopVars, gradVars, bucketVars, flagVars, Config, Same
  <2>2. trainable = Params
    BY <2>1 DEF Config
  <2> QED BY <1>0, <2>1, <2>2, ValueFrame
<1>2. ASSUME NEW r \in Ranks, RankStep(r)
      PROVE  \A s \in Ranks : StreamInv(s)' /\ ValueInv(s)'
  <2>1. Config /\ \A s \in Ranks \ {r} : Same(s)
    BY <1>2, RankStepConfig
  <2>2. trainable = Params
    BY <2>1 DEF Config
  <2>3. StreamInv(r) /\ ValueInv(r) /\ PhaseInv(r)
    BY <1>0, <2>2 DEF RankInv
  <2>4. \A s \in Ranks \ {r} : StreamInv(s)' /\ ValueInv(s)'
    BY <1>0, <2>1, <2>2, ValueFrame
  <2>5. SUFFICES StreamInv(r)' /\ ValueInv(r)'
    BY <2>4
  <2>6. CASE PrepareForBackward(r)
    BY <2>2, <2>3, <2>6, PrepareStream, PrepareValue
  <2>7. ASSUME NEW p \in Params, MarkVariableReadyDense(r, p)
        PROVE  StreamInv(r)' /\ ValueInv(r)'
    BY <2>3, <2>7, MarkStream, MarkValue
  <2>8. CASE FinalizeBackward(r)
    BY <2>3, <2>8, FinalizeStream, FinalizeValue
  <2>9. ~BackwardReturns(r)
    BY <2>2, <2>3 DEF PhaseInv, BackwardReturns
  <2>10. CASE OptimizerStep(r)
    BY <2>3, <2>10, OptimizerStream, OptimizerValue
  <2>11. ASSUME NEW z \in BOOLEAN, StartStep(r, z)
         PROVE  StreamInv(r)' /\ ValueInv(r)'
    BY <2>2, <2>3, <2>11, StartStream, StartValue
  <2> QED BY <1>2, <2>6, <2>7, <2>8, <2>9, <2>10, <2>11 DEF RankStep
<1>3. CASE AllReduceCompletes
  <2>1. trainable = Params
    BY <1>3, CompletesEffect DEF Config
  <2>2. \A r \in Ranks : StreamInv(r) /\ ValueInv(r)
    BY <1>0, <2>1
  <2> QED BY <1>3, <2>2, CompletesStream, CompletesValue
<1>4. CASE Terminated
  BY <1>1, <1>4 DEF Terminated
<1> QED BY <1>1, <1>2, <1>3, <1>4 DEF Next

(***************************************************************************)
(* The inductive invariant behind the next two theorems: without frozen    *)
(* parameters, what a gradient, its slice and its bucket hold follows from *)
(* the place of the rank in the loop and from whether the parameter's hook *)
(* has fired and its bucket has completed.                                 *)
(***************************************************************************)
THEOREM ValuesCorrect == Spec => []AllTrainableInv
<1>1. Init => AllTrainableInv
  BY InitAllTrainable
<1>2. TypeOK /\ CountInv /\ RankInv /\ History /\ AllTrainableInv /\ [Next]_vars => AllTrainableInv'
  BY NextAllTrainable
<1> QED BY <1>1, <1>2, TypeCorrect, CountsCorrect, OneHistory, PTL DEF Spec

(***************************************************************************)
(* Without frozen parameters, when a rank's optimizer reads a gradient, it *)
(* is the average over all ranks of exactly the rounds of the step,        *)
(* whether gradients are kept in the buckets or copied to and from them.   *)
(***************************************************************************)
THEOREM GradsAveraged == Spec => []StepGradsAveragedUnlessFrozen
<1>1. TypeOK /\ RankInv /\ AllTrainableInv => StepGradsAveragedUnlessFrozen
  <2> SUFFICES ASSUME TypeOK, RankInv, AllTrainableInv, trainable = Params,
                      NEW r \in Ranks, phase[r] = "step", NEW p \in trainable
               PROVE  GradValue(r, p) = [avg |-> RoundsOfStep(round[r]), loc |-> {}]
    BY DEF StepGradsAveragedUnlessFrozen, StepGradsAveraged
  <2>1. GradValue(r, p) = After(round[r])
    BY DEF AllTrainableInv, ValueInv
  <2>2. round[r] % AccumSteps = 0 /\ round[r] \in Nat \ {0}
    BY RankTypes DEF RankInv, PhaseInv
  <2> QED BY <2>1, <2>2, ValueFacts
<1> QED BY <1>1, TypeCorrect, OneHistory, ValuesCorrect, PTL

(***************************************************************************)
(* FinalizeBucketDense reduces in place: without frozen parameters nothing *)
(* writes a gradient of a bucket between its launch and its completion.    *)
(***************************************************************************)
THEOREM SlicesStable == Spec => StableWhileInFlight
<1> DEFINE Stable == \A r \in Ranks : \A p \in InFlight(r) \cap InFlight(r)' : mem'[r][p] = mem[r][p]
<1>1. ASSUME TypeOK, RankInv, AllTrainableInv, [Next]_vars, trainable = Params
      PROVE  Stable
  <2>0. \A r \in Ranks : StreamInv(r) /\ ValueInv(r) /\ PhaseInv(r)
    BY <1>1 DEF AllTrainableInv, RankInv
  <2> SUFFICES ASSUME NEW q \in Ranks, NEW p \in InFlight(q), p \in InFlight(q)'
               PROVE  mem'[q][p] = mem[q][p]
    OBVIOUS
  <2>1. /\ IsBucketList(buckets[q]) /\ comm[q] \in Seq(Seq(Params)) /\ comm[q] # <<>>
    BY <1>1, RankTypes DEF InFlight
  <2>2. PICK k \in DOMAIN comm[q] : p \in ParamsIn(comm[q][k])
    BY DEF InFlight
  <2>3. p \in Params
    BY <2>1, <2>2 DEF ParamsIn
  <2>4. Busy(q) => /\ Locator(buckets[q], p) \in First(q)..(nextBucket[q] - 1)
                   /\ First(q) \in Nat \ {0} /\ Head(comm[q]) = buckets[q][First(q)]
                   /\ First(q) \in DOMAIN buckets[q]
    <3> SUFFICES ASSUME Busy(q)
                 PROVE  /\ Locator(buckets[q], p) \in First(q)..(nextBucket[q] - 1)
                        /\ First(q) \in Nat \ {0} /\ Head(comm[q]) = buckets[q][First(q)]
                        /\ First(q) \in DOMAIN buckets[q]
      OBVIOUS
    <3>1. /\ First(q) \in Nat \ {0} /\ First(q) < nextBucket[q]
          /\ comm[q][k] = buckets[q][First(q) + k - 1]
          /\ First(q) + k - 1 \in First(q)..(nextBucket[q] - 1)
          /\ Head(comm[q]) = buckets[q][First(q)]
      BY <1>1, <2>0, <2>1, StreamFacts
    <3>2. /\ DOMAIN buckets[q] = 1..Len(buckets[q]) /\ Len(buckets[q]) \in Nat
          /\ nextBucket[q] \in 1..(Len(buckets[q]) + 1)
      BY <1>1, RankTypes
    <3>3. First(q) + k - 1 \in DOMAIN buckets[q] /\ First(q) \in DOMAIN buckets[q]
      BY <3>1, <3>2
    <3>4. Locator(buckets[q], p) = First(q) + k - 1
      BY <2>1, <2>2, <2>3, <3>1, <3>3, LocatorUnique
    <3> QED BY <3>1, <3>3, <3>4
  <2>5. CASE UNCHANGED vars
    BY <2>5 DEF vars
  <2>6. ASSUME NEW r \in Ranks, RankStep(r) PROVE mem'[q][p] = mem[q][p]
    <3>1. CASE q # r
      BY <1>1, <2>6, <3>1, RankStepConfig DEF Same
    <3>2. CASE q = r
      <4>1. ~PrepareForBackward(r)
        BY <1>1, <2>0, <2>1, <3>2, PrepareStream
      <4>2. ASSUME NEW x \in Params, MarkVariableReadyDense(r, x) PROVE mem'[q][p] = mem[q][p]
        <5>1. LaunchedPrefix(r) /\ ~allReady[r] /\ Busy(r)
          BY <2>0, <4>2 DEF MarkVariableReadyDense, PhaseInv, Busy
        <5>2. MarkedValues(r, x) /\ Bucket(r, x) \in nextBucket[r]..Len(buckets[r])
              /\ nextBucket[r] \in 1..(Len(buckets[r]) + 1) /\ Len(buckets[r]) \in Nat
          BY <1>1, <4>2, <5>1, MarkEffect
        <5>3. p # x
          BY <2>4, <3>2, <5>1, <5>2 DEF Bucket
        <5> QED BY <2>3, <3>2, <5>2, <5>3 DEF MarkedValues
      <4>3. ASSUME FinalizeBackward(r) PROVE mem'[q][p] = mem[q][p]
        BY <1>1, <3>2, <4>3, FinalizeEffect
      <4>4. ASSUME BackwardReturns(r) PROVE mem'[q][p] = mem[q][p]
        BY <1>1, <4>4, ReturnsEffect
      <4>5. ASSUME OptimizerStep(r) PROVE mem'[q][p] = mem[q][p]
        BY <1>1, <4>5, OptimizerEffect
      <4>6. \A z \in BOOLEAN : ~StartStep(r, z)
        BY <1>1, <2>0, <2>1, <3>2, StartStream
      <4> QED BY <2>6, <4>1, <4>2, <4>3, <4>4, <4>5, <4>6 DEF RankStep
    <3> QED BY <3>1, <3>2
  <2>7. CASE AllReduceCompletes
    <3>1. /\ comm'[q] = Tail(comm[q]) /\ buckets' = buckets /\ nextBucket' = nextBucket
          /\ mem'[q][p] = IF p \in ParamsIn(Head(comm[q]))
                          THEN Average({mem[s][p] : s \in Ranks}) ELSE mem[q][p]
      BY <1>1, <2>3, <2>7, CompletesEffect
    <3>2. CASE ~Busy(q)
      <4>1. Head(comm[q]) = LossReduce
        BY <1>1, <2>0, <2>7, <3>2, CompletesStream
      <4>2. p \notin ParamsIn(Head(comm[q]))
        BY <4>1 DEF ParamsIn, LossReduce
      <4> QED BY <3>1, <4>2
    <3>3. CASE Busy(q)
      <4>1. PICK m \in DOMAIN Tail(comm[q]) : p \in ParamsIn(Tail(comm[q])[m])
        BY <3>1 DEF InFlight
      <4>2. m + 1 \in DOMAIN comm[q] /\ Tail(comm[q])[m] = comm[q][m + 1] /\ m \in Nat \ {0}
        BY <2>1, <4>1
      <4>3. /\ comm[q][m + 1] = buckets[q][First(q) + (m + 1) - 1]
            /\ First(q) + (m + 1) - 1 \in First(q)..(nextBucket[q] - 1)
            /\ First(q) \in Nat \ {0}
        BY <1>1, <2>0, <3>3, <4>2, StreamFacts
      <4>4. /\ DOMAIN buckets[q] = 1..Len(buckets[q]) /\ Len(buckets[q]) \in Nat
            /\ nextBucket[q] \in 1..(Len(buckets[q]) + 1)
        BY <1>1, RankTypes
      <4>5. First(q) + (m + 1) - 1 \in DOMAIN buckets[q] /\ First(q) + (m + 1) - 1 # First(q)
        BY <4>2, <4>3, <4>4
      <4>6. Locator(buckets[q], p) = First(q) + (m + 1) - 1
        BY <2>1, <2>3, <4>1, <4>2, <4>3, <4>5, LocatorUnique
      <4>7. p \notin ParamsIn(buckets[q][First(q)])
        BY <2>1, <2>3, <2>4, <3>3, <4>5, <4>6, LocatorUnique
      <4> QED BY <2>4, <3>1, <3>3, <4>7
    <3> QED BY <3>2, <3>3
  <2>8. CASE Terminated
    BY <2>5, <2>8 DEF Terminated
  <2> QED BY <1>1, <2>5, <2>6, <2>7, <2>8 DEF Next
<1>2. TypeOK /\ RankInv /\ AllTrainableInv /\ [Next]_vars => [trainable = Params => Stable]_vars
  BY <1>1
<1> QED BY <1>2, TypeCorrect, OneHistory, ValuesCorrect, PTL DEF Spec, StableWhileInFlight
=============================================================================
