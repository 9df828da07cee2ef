---------------------------- MODULE ReducerProofs ----------------------------
(***************************************************************************)
(* Proofs about Reducer, for every number of ranks, parameters and rounds, *)
(* every bucket assignment and every engine order.                         *)
(***************************************************************************)
EXTENDS Reducer, TLAPS, FiniteSetTheorems

(* A non-empty set of naturals has a least element.                        *)
LEMMA LeastNat ==
    ASSUME NEW T \in SUBSET Nat, T # {}
    PROVE  \E x \in T : \A y \in T : x <= y
<1> DEFINE I == {0..x : x \in T}
           R == StrictSubsetOrdering(Nat)
           F == FiniteSubsetsOf(Nat)
<1>1. I \subseteq F
  <2>1. ASSUME NEW x \in T PROVE 0..x \in F
    <3>1. x \in Int /\ 0 \in Int
      OBVIOUS
    <3>2. IsFiniteSet(0..x)
      BY <3>1, FS_Interval
    <3>3. 0..x \in SUBSET Nat
      OBVIOUS
    <3> QED BY <3>2, <3>3 DEF FiniteSubsetsOf
  <2> HIDE DEF F
  <2> QED BY <2>1
<1>2. I # {}
  OBVIOUS
<1>3. IsWellFoundedOn(R, F)
  BY FS_StrictSubsetOrderingWellFounded
<1> HIDE DEF F
<1>4. PICK s \in I : \A u \in I : <<u, s>> \notin R
  <2> HIDE DEF I, R
  <2> QED BY <1>1, <1>2, <1>3, WFMin
<1>5. PICK x \in T : s = 0..x
  OBVIOUS
<1>6. ASSUME NEW y \in T PROVE x <= y
  <2>1. SUFFICES ASSUME y < x PROVE FALSE
    OBVIOUS
  <2>2. <<0..y, 0..x>> \in R
    <3>1. 0..y \subseteq 0..x
      BY <2>1
    <3>2. x \in 0..x /\ x \notin 0..y
      BY <2>1
    <3> QED BY <3>1, <3>2 DEF StrictSubsetOrdering
  <2> QED BY <2>2, <1>4, <1>5
<1> QED BY <1>6

(* MarkBucketReady's loop stops at the first bucket that is not ready.     *)
LEMMA LaunchEndStops ==
    ASSUME NEW n \in Nat, NEW pend \in [1..n -> Nat],
           NEW next \in 1..(n + 1), NEW b \in 1..n, b <= next
    PROVE  LET e == LaunchEnd(pend, next, b, n) IN
           /\ e \in next..(n + 1)
           /\ \A c \in next..(e - 1) : pend[c] = 0
           /\ e <= n => pend[e] > 0
<1> DEFINE T == {c \in next..(n + 1) : c = n + 1 \/ pend[c] > 0}
           Stops(e) == /\ \A c \in next..(e - 1) : pend[c] = 0
                       /\ e <= n => ~(pend[e] = 0)
<1>1. T \in SUBSET Nat /\ n + 1 \in T
  OBVIOUS
<1>2. PICK x \in T : \A y \in T : x <= y
  <2> HIDE DEF T
  <2> QED BY <1>1, LeastNat
<1>3. x \in next..(n + 1) /\ Stops(x)
  <2>1. ASSUME NEW c \in next..(x - 1) PROVE pend[c] = 0
    <3>1. c \notin T
      BY <1>2
    <3>2. c \in 1..n /\ pend[c] \in Nat
      BY <1>2
    <3> QED BY <3>1, <3>2
  <2> QED BY <2>1
<1>4. LaunchEnd(pend, next, b, n) = CHOOSE e \in next..(n + 1) : Stops(e)
  BY SMTT(30) DEF LaunchEnd, IsReady
<1> DEFINE e == CHOOSE e \in next..(n + 1) : Stops(e)
<1>5. e \in next..(n + 1) /\ Stops(e)
  <2> HIDE DEF Stops
  <2> QED BY <1>3
<1>6. e <= n => pend[e] \in Nat
  BY <1>5
<1> QED BY SMTT(30), <1>4, <1>5, <1>6

(* A bucket list, told by the parameters each bucket holds.               *)
LEMMA BucketListIs ==
    ASSUME NEW bs, IsBucketList(bs)
    PROVE  /\ bs \in Seq(Seq(Params) \ {<<>>})
           /\ \A b \in DOMAIN bs : \A i, j \in DOMAIN bs[b] : bs[b][i] = bs[b][j] => i = j
           /\ \A p \in Params : \E b \in DOMAIN bs :
                  \A c \in DOMAIN bs : p \in ParamsIn(bs[c]) <=> c = b
<1>1. bs \in Seq(Seq(Params) \ {<<>>})
  BY DEF IsBucketList, IsPartition, Params
<1>2. \A t \in Params : \E b \in DOMAIN bs : \E i \in DOMAIN bs[b] :
          \A c \in DOMAIN bs : \A j \in DOMAIN bs[c] : bs[c][j] = t <=> c = b /\ j = i
  BY DEF IsBucketList, IsPartition, Params
<1>3. ASSUME NEW b \in DOMAIN bs, NEW i \in DOMAIN bs[b], NEW j \in DOMAIN bs[b], bs[b][i] = bs[b][j]
      PROVE  i = j
  <2>1. bs[b] \in Seq(Params)
    BY <1>1
  <2>2. bs[b][i] \in Params
    BY <2>1
  <2> QED BY <1>2, <1>3, <2>2
<1>4. ASSUME NEW p \in Params
      PROVE  \E b \in DOMAIN bs : \A c \in DOMAIN bs : p \in ParamsIn(bs[c]) <=> c = b
  <2>1. PICK b \in DOMAIN bs : \E i \in DOMAIN bs[b] :
            \A c \in DOMAIN bs : \A j \in DOMAIN bs[c] : bs[c][j] = p <=> c = b /\ j = i
    BY <1>2
  <2>2. PICK i \in DOMAIN bs[b] :
            \A c \in DOMAIN bs : \A j \in DOMAIN bs[c] : bs[c][j] = p <=> c = b /\ j = i
    BY <2>1
  <2> QED BY <2>2 DEF ParamsIn
<1> QED BY <1>1, <1>3, <1>4

(* A bucket has as many parameters as entries.                             *)
LEMMA BucketSize ==
    ASSUME NEW bs, IsBucketList(bs), NEW b \in DOMAIN bs
    PROVE  /\ IsFiniteSet(ParamsIn(bs[b]))
           /\ Cardinality(ParamsIn(bs[b])) = Len(bs[b])
           /\ ParamsIn(bs[b]) \subseteq Params
           /\ Len(bs[b]) \in Nat
<1>1. bs[b] \in Seq(Params)
  BY BucketListIs
<1>2. \A i, j \in DOMAIN bs[b] : bs[b][i] = bs[b][j] => i = j
  BY BucketListIs
<1> DEFINE s == bs[b]
           n == Len(s)
<1>3. n \in Nat /\ DOMAIN s = 1..n
  BY <1>1
<1>4. s \in [1..n -> ParamsIn(s)]
  BY <1>1, <1>3 DEF ParamsIn
<1>5. s \in Bijection(1..n, ParamsIn(s))
  BY <1>2, <1>3, <1>4 DEF Bijection, Injection, Surjection, IsInjective, ParamsIn
<1>6. ExistsBijection(1..n, ParamsIn(s))
  BY <1>5 DEF ExistsBijection
<1>7. IsFiniteSet(ParamsIn(s)) /\ Cardinality(ParamsIn(s)) = n
  <2> HIDE DEF s, n
  <2>1. IsFiniteSet(1..n) /\ Cardinality(1..n) = n
    BY <1>3, FS_Interval
  <2> QED BY <2>1, <1>6, FS_Bijection
<1>8. ParamsIn(s) \subseteq Params
  BY <1>1 DEF ParamsIn
<1> QED BY <1>3, <1>7, <1>8

(* locators_ sends a parameter to the one bucket that holds it.            *)
LEMMA LocatorUnique ==
    ASSUME NEW bs, IsBucketList(bs), NEW p \in Params
    PROVE  /\ Locator(bs, p) \in DOMAIN bs
           /\ \A c \in DOMAIN bs : p \in ParamsIn(bs[c]) <=> c = Locator(bs, p)
<1>1. PICK b \in DOMAIN bs : \A c \in DOMAIN bs : p \in ParamsIn(bs[c]) <=> c = b
  BY BucketListIs
<1>2. Locator(bs, p) = b
  BY <1>1 DEF Locator
<1> QED BY <1>1, <1>2

(* The all-reduce of well-formed slices is well-formed.                    *)
LEMMA AverageType ==
    ASSUME NEW slices \in SUBSET Value, slices # {}
    PROVE  Average(slices) \in Value
<1>1. Junk \in Value
  BY DEF Junk, Value
<1>2. CASE \A u, v \in slices : u = v
  <2> DEFINE v == CHOOSE x \in slices : TRUE
  <2>1. v \in Value
    OBVIOUS
  <2>2. JunkRound \notin v.loc => [avg |-> v.avg \cup v.loc, loc |-> {}] \in Value
    BY <2>1 DEF Value
  <2> QED BY <1>1, <1>2, <2>2 DEF Average
<1>3. CASE ~ \A u, v \in slices : u = v
  BY <1>1, <1>3 DEF Average
<1> QED BY <1>2, <1>3

(* Recording a parameter that is not recorded yet: no order is longer than *)
(* the list of parameters.                                                 *)
LEMMA RecordReady ==
    ASSUME NEW order \in ReadyOrders, NEW p \in Params, p \notin ParamsIn(order)
    PROVE  Append(order, p) \in ReadyOrders
<1>1. PICK n \in 0..NumParams : order \in [1..n -> Params]
  BY DEF ReadyOrders
<1>2. \A i, j \in 1..n : order[i] = order[j] => i = j
  BY <1>1 DEF ReadyOrders
<1>3. n + 1 \in Nat /\ NumParams \in Nat
  BY <1>1, CountsAssumption
<1> DEFINE f == Append(order, p)
<1>4. f \in Seq(Params) /\ Len(f) = n + 1 /\ f[n + 1] = p
      /\ \A i \in 1..n : f[i] = order[i]
  <2>1. order \in Seq(Params) /\ Len(order) = n
    BY <1>1
  <2> QED BY <1>1, <2>1
<1>5. \A i \in 1..n : order[i] # p
  BY <1>1 DEF ParamsIn
<1>6. f \in [1..(n + 1) -> Params]
  <2> HIDE DEF f
  <2>1. f \in [1..Len(f) -> Params]
    BY <1>4
  <2> QED BY <1>4, <2>1
<1>7. \A i, j \in 1..(n + 1) : f[i] = f[j] => i = j
  <2> HIDE DEF f
  <2>1. \A i \in 1..(n + 1) : i \in 1..n \/ i = n + 1
    BY <1>3
  <2> QED BY <1>1, <1>2, <1>4, <1>5, <2>1
<1> HIDE DEF f
<1>8. f \in Injection(1..(n + 1), Params)
  BY <1>6, <1>7, CountsAssumption DEF Injection, IsInjective
<1>9. IsFiniteSet(Params) /\ Cardinality(Params) = NumParams
  BY FS_Interval, CountsAssumption DEF Params
<1>10. Cardinality(1..(n + 1)) = n + 1
  BY <1>3, FS_Interval
<1>11. n + 1 <= NumParams
  BY <1>8, <1>9, <1>10, FS_Injection
<1>12. f \in UNION {[1..m -> Params] : m \in 0..NumParams}
  BY <1>3, <1>6, <1>11
<1> QED BY <1>6, <1>7, <1>12 DEF ReadyOrders, f

(* A function on an initial segment is a sequence.                         *)
LEMMA SegmentIsSeq ==
    ASSUME NEW S, NEW n \in Nat, NEW f \in [1..n -> S]
    PROVE  f \in Seq(S) /\ Len(f) = n
OBVIOUS

LEMMA SomeRounds == AccumSteps * Steps \in Nat /\ AccumSteps * Steps >= 1
<1>1. \A m, n \in Nat \ {0} : m * n \in Nat /\ m * n >= 1
  OBVIOUS
<1> QED BY <1>1, CountsAssumption

(* Fresh counts for a bucket list.                                         *)
LEMMA FreshPendingType ==
    ASSUME NEW bs, IsBucketList(bs), NEW old
    PROVE  /\ FreshPending(bs, old) \in [DOMAIN bs -> Nat]
           /\ FreshPending(bs, old) \in Seq(Nat)
           /\ bs \in Seq(Seq(Params))
           /\ Len(bs) \in Nat /\ DOMAIN bs = 1..Len(bs)
<1>1. bs \in Seq(Seq(Params))
  BY BucketListIs
<1>2. DOMAIN bs = 1..Len(bs) /\ Len(bs) \in Nat
  BY <1>1
<1>3. \A b \in DOMAIN bs : Len(bs[b]) \in Nat
  BY BucketSize
<1>4. FreshPending(bs, old) \in [DOMAIN bs -> Nat]
  BY <1>3 DEF FreshPending
<1>5. FreshPending(bs, old) \in Seq(Nat)
  BY <1>2, <1>4, SegmentIsSeq
<1> QED BY <1>1, <1>2, <1>4, <1>5

(* What PrepareForBackward makes the buckets is a bucket list.             *)
LEMMA RebuiltType ==
    ASSUME TypeOK, NEW r \in Ranks
    PROVE  /\ IsBucketList(buckets[r])
           /\ IsBucketList(Rebuilt[readyOrder[r]])
BY BucketsAssumption DEF TypeOK

LEMMA InitTypeOK == Init => TypeOK
<1> SUFFICES ASSUME Init PROVE TypeOK
  OBVIOUS
<1> USE CountsAssumption, BucketsAssumption DEF Init
<1>1. round \in [Ranks -> Rounds]
  BY SomeRounds DEF Rounds
<1>7. /\ engineOrder \in EngineOrders
      /\ trainable \in TrainableSets
      /\ asView \in BOOLEAN
      /\ phase \in [Ranks -> Phases]
      /\ forwards \in [Ranks -> 0..ForwardsPerBackward]
      /\ \A r \in Ranks : phase[r] = "forward" => forwards[r] > 0
      /\ todo \in [Ranks -> SUBSET trainable]
      /\ grad \in [Ranks -> [Params -> {"null", "view", "own"}]]
      /\ overwrite \in [Ranks -> [Params -> BOOLEAN]]
      /\ needRebuild \in [Ranks -> BOOLEAN]
      /\ hasRebuilt \in [Ranks -> BOOLEAN]
      /\ allReady \in [Ranks -> BOOLEAN]
  BY DEF Phases
<1>2. own \in [Ranks -> [Params -> Value]] /\ mem \in [Ranks -> [Params -> Value]]
  BY DEF Value, Zero, Junk
<1>3. /\ buckets \in [Ranks -> Seq(Seq(Params))]
      /\ \A r \in Ranks : IsBucketList(buckets[r])
      /\ pending \in [Ranks -> Seq(Nat)]
      /\ \A r \in Ranks : pending[r] \in [DOMAIN buckets[r] -> Nat]
      /\ nextBucket \in [Ranks -> Nat]
      /\ \A r \in Ranks : nextBucket[r] \in 1..(Len(buckets[r]) + 1)
  BY FreshPendingType DEF FreshPending
<1>4. work \in [Ranks -> SUBSET Nat] /\ \A r \in Ranks : work[r] \subseteq DOMAIN buckets[r]
  OBVIOUS
<1>5. readyOrder \in [Ranks -> ReadyOrders]
  <2>1. \A S : <<>> \in [1..0 -> S]
    OBVIOUS
  <2>2. <<>> \in UNION {[1..n -> Params] : n \in 0..NumParams}
    <3>1. <<>> \in [1..0 -> Params] /\ 0 \in 0..NumParams
      BY <2>1
    <3> QED BY ONLY <3>1
  <2>3. \A i, j \in DOMAIN <<>> : <<>>[i] = <<>>[j] => i = j
    OBVIOUS
  <2>4. <<>> \in ReadyOrders
    BY <2>2, <2>3 DEF ReadyOrders
  <2> QED BY <2>4
<1>6. comm \in [Ranks -> Seq(Seq(Params))]
  OBVIOUS
<1> QED BY <1>1, <1>2, <1>3, <1>4, <1>5, <1>6, <1>7 DEF TypeOK

LEMMA PrepareForBackwardType ==
    ASSUME TypeOK, NEW r \in Ranks, PrepareForBackward(r)
    PROVE  TypeOK'
<1> DEFINE rebuilds == needRebuild[r] /\ ~hasRebuilt[r]
           moves    == rebuilds /\ readyOrder[r] # <<>>
           bs       == IF moves THEN Rebuilt[readyOrder[r]] ELSE buckets[r]
<1>1. IsBucketList(bs)
  BY RebuiltType
<1>2. /\ FreshPending(bs, pending[r]) \in [DOMAIN bs -> Nat]
      /\ FreshPending(bs, pending[r]) \in Seq(Nat)
      /\ bs \in Seq(Seq(Params))
      /\ Len(bs) \in Nat /\ DOMAIN bs = 1..Len(bs)
  <2> HIDE DEF bs
  <2> QED BY <1>1, FreshPendingType
<1>3. /\ buckets' = [buckets EXCEPT ![r] = bs]
      /\ pending' = [pending EXCEPT ![r] = FreshPending(bs, @)]
      /\ nextBucket' = [nextBucket EXCEPT ![r] = 1]
  BY DEF PrepareForBackward
<1>4. /\ buckets' \in [Ranks -> Seq(Seq(Params))]
      /\ \A s \in Ranks : IsBucketList(buckets'[s])
      /\ pending' \in [Ranks -> Seq(Nat)]
      /\ \A s \in Ranks : pending'[s] \in [DOMAIN buckets'[s] -> Nat]
      /\ nextBucket' \in [Ranks -> Nat]
      /\ \A s \in Ranks : nextBucket'[s] \in 1..(Len(buckets'[s]) + 1)
  <2> HIDE DEF bs
  <2> QED BY <1>1, <1>2, <1>3 DEF TypeOK
<1>5. work' \in [Ranks -> SUBSET Nat] /\ \A s \in Ranks : work'[s] \subseteq DOMAIN buckets'[s]
  <2>1. CASE moves
    <3>1. work' = [work EXCEPT ![r] = {}]
      BY <2>1 DEF PrepareForBackward
    <3> HIDE DEF bs
    <3> QED BY <1>3, <3>1 DEF TypeOK
  <2>2. CASE ~moves
    <3>1. work' = work /\ buckets' = buckets
      BY <1>3, <2>2 DEF PrepareForBackward, TypeOK
    <3> QED BY <3>1 DEF TypeOK
  <2> QED BY <2>1, <2>2
<1>6. readyOrder' \in [Ranks -> ReadyOrders]
  <2>1. <<>> \in UNION {[1..n -> Params] : n \in 0..NumParams}
    BY CountsAssumption
  <2>2. \A i, j \in DOMAIN <<>> : <<>>[i] = <<>>[j] => i = j
    OBVIOUS
  <2>3. <<>> \in ReadyOrders
    BY <2>1, <2>2 DEF ReadyOrders
  <2> QED BY <2>3 DEF PrepareForBackward, TypeOK
<1>7. mem' \in [Ranks -> [Params -> Value]]
  <2>1. Junk \in Value
    BY DEF Junk, Value
  <2> QED BY <2>1 DEF PrepareForBackward, TypeOK
<1>8. /\ grad' \in [Ranks -> [Params -> {"null", "view", "own"}]]
      /\ overwrite' \in [Ranks -> [Params -> BOOLEAN]]
  BY DEF PrepareForBackward, TypeOK
<1>9. /\ needRebuild' \in [Ranks -> BOOLEAN]
      /\ hasRebuilt' \in [Ranks -> BOOLEAN]
  BY DEF PrepareForBackward, TypeOK
<1>10. phase' \in [Ranks -> Phases] /\ todo' \in [Ranks -> SUBSET trainable]
  <2>1. CASE forwards[r] = 1
    <3>1. /\ phase' = [phase EXCEPT ![r] = "backward"]
          /\ todo' = [todo EXCEPT ![r] = trainable]
      BY <2>1 DEF PrepareForBackward
    <3> QED BY <3>1 DEF TypeOK, Phases
  <2>2. CASE forwards[r] # 1
    BY <2>2 DEF PrepareForBackward, TypeOK
  <2> QED BY <2>1, <2>2
<1>11. /\ forwards' \in [Ranks -> 0..ForwardsPerBackward]
       /\ \A s \in Ranks : phase'[s] = "forward" => forwards'[s] > 0
  <2>1. /\ phase[r] = "forward" /\ forwards' = [forwards EXCEPT ![r] = @ - 1]
        /\ forwards[r] = 1 => phase' = [phase EXCEPT ![r] = "backward"]
        /\ forwards[r] # 1 => phase' = phase
    BY DEF PrepareForBackward
  <2>2. forwards[r] \in 1..ForwardsPerBackward
    BY <2>1, CountsAssumption DEF TypeOK
  <2>3. phase \in [Ranks -> Phases] /\ forwards \in [Ranks -> 0..ForwardsPerBackward]
        /\ \A s \in Ranks : phase[s] = "forward" => forwards[s] > 0
    BY DEF TypeOK
  <2> QED BY <2>1, <2>2, <2>3, CountsAssumption
<1>12. UNCHANGED <<engineOrder, trainable, asView, round, own, allReady, comm>>
  BY DEF PrepareForBackward
<1> QED BY <1>4, <1>5, <1>6, <1>7, <1>8, <1>9, <1>10, <1>11, <1>12 DEF TypeOK

(* What a rank accumulates is well-formed.                                 *)
LEMMA AccumulatedType ==
    ASSUME TypeOK, NEW r \in Ranks, NEW p \in Params
    PROVE  Accumulated(r, p) \in Value
<1>1. mem[r][p] \in Value /\ own[r][p] \in Value /\ round[r] \in Rounds
  BY DEF TypeOK
<1>2. Zero \in Value
  BY DEF Zero, Value
<1>3. \A v \in Value : Plus(v, round[r]) \in Value
  BY <1>1 DEF Plus, Value
<1> QED BY <1>1, <1>2, <1>3 DEF Accumulated, GradValue

(* The bucket MarkVariableReadyDense counts in, the counts after it and    *)
(* the next bucket to launch.                                              *)
Bucket(r, p)  == Locator(buckets[r], p)
Counts(r, p)  == [pending[r] EXCEPT ![Bucket(r, p)] = @ - 1]
NextOne(r, p) ==
    IF IsReady(Counts(r, p), Bucket(r, p))
    THEN LaunchEnd(Counts(r, p), nextBucket[r], Bucket(r, p), Len(buckets[r]))
    ELSE nextBucket[r]

LEMMA MarkFacts ==
    ASSUME TypeOK, NEW r \in Ranks, NEW p \in Params, MarkVariableReadyDense(r, p)
    PROVE  LET b == Bucket(r, p)
               n == Len(buckets[r])
               pend == Counts(r, p)
               end == NextOne(r, p)
           IN
           /\ p \in todo[r] /\ p \in trainable /\ phase[r] = "backward"
           /\ n \in Nat /\ DOMAIN buckets[r] = 1..n
           /\ b \in 1..n /\ pending[r][b] > 0
           /\ pend \in [1..n -> Nat] /\ pend \in Seq(Nat)
           /\ nextBucket[r] \in 1..(n + 1)
           /\ end \in nextBucket[r]..(n + 1)
           /\ pending' = [pending EXCEPT ![r] = pend]
           /\ nextBucket' = [nextBucket EXCEPT ![r] = end]
           /\ work' = [work EXCEPT ![r] = @ \cup (nextBucket[r]..(end - 1))]
           /\ comm' = [comm EXCEPT ![r] = @ \o Launched(buckets[r], nextBucket[r], end)]
           /\ todo' = [todo EXCEPT ![r] = @ \ {p}]
           /\ buckets' = buckets
<1> DEFINE b == Bucket(r, p)
           n == Len(buckets[r])
           pend == Counts(r, p)
           end == NextOne(r, p)
<1>1. /\ p \in todo[r] /\ phase[r] = "backward" /\ pending[r][b] > 0
      /\ pending' = [pending EXCEPT ![r] = pend]
      /\ nextBucket' = [nextBucket EXCEPT ![r] = end]
      /\ work' = [work EXCEPT ![r] = @ \cup (nextBucket[r]..(end - 1))]
      /\ comm' = [comm EXCEPT ![r] = @ \o Launched(buckets[r], nextBucket[r], end)]
      /\ todo' = [todo EXCEPT ![r] = @ \ {p}]
      /\ buckets' = buckets
  BY DEF MarkVariableReadyDense, Bucket, Counts, NextOne
<1> USE DEF Bucket, Counts, NextOne
<1>2. p \in trainable
  BY <1>1 DEF TypeOK
<1>3. IsBucketList(buckets[r]) /\ buckets[r] \in Seq(Seq(Params))
  BY DEF TypeOK
<1>4. n \in Nat /\ DOMAIN buckets[r] = 1..n
  BY <1>3
<1>5. b \in 1..n
  BY <1>3, <1>4, LocatorUnique
<1>6. pending[r] \in [1..n -> Nat]
  BY <1>4 DEF TypeOK
<1>7. pend \in [1..n -> Nat]
  BY <1>1, <1>5, <1>6
<1>8. pend \in Seq(Nat)
  BY <1>4, <1>7, SegmentIsSeq
<1>9. nextBucket[r] \in 1..(n + 1)
  BY DEF TypeOK
<1>10. end \in nextBucket[r]..(n + 1)
  <2>1. CASE IsReady(pend, b) /\ b <= nextBucket[r]
    BY <2>1, <1>4, <1>5, <1>7, <1>9, LaunchEndStops
  <2>2. CASE IsReady(pend, b) /\ b > nextBucket[r]
    BY <2>2, <1>4, <1>9 DEF LaunchEnd
  <2>3. CASE ~IsReady(pend, b)
    BY <2>3, <1>4, <1>9
  <2> QED BY <2>1, <2>2, <2>3, <1>4, <1>5, <1>9
<1> QED BY <1>1, <1>2, <1>4, <1>5, <1>7, <1>8, <1>9, <1>10

LEMMA MarkType ==
    ASSUME TypeOK, NEW r \in Ranks, NEW p \in Params, MarkVariableReadyDense(r, p)
    PROVE  TypeOK'
<1> DEFINE bs   == buckets[r]
           b    == Bucket(r, p)
           pend == Counts(r, p)
           n    == Len(bs)
           end  == NextOne(r, p)
<1>1. /\ p \in todo[r] /\ p \in trainable /\ phase[r] = "backward"
      /\ n \in Nat /\ DOMAIN buckets[r] = 1..n
      /\ b \in 1..n /\ pending[r][b] > 0
      /\ pend \in [1..n -> Nat] /\ pend \in Seq(Nat)
      /\ nextBucket[r] \in 1..(n + 1)
      /\ end \in nextBucket[r]..(n + 1)
      /\ pending' = [pending EXCEPT ![r] = pend]
      /\ nextBucket' = [nextBucket EXCEPT ![r] = end]
      /\ work' = [work EXCEPT ![r] = @ \cup (nextBucket[r]..(end - 1))]
      /\ comm' = [comm EXCEPT ![r] = @ \o Launched(buckets[r], nextBucket[r], end)]
      /\ todo' = [todo EXCEPT ![r] = @ \ {p}]
      /\ buckets' = buckets
  BY MarkFacts
<1> HIDE DEF b, pend, n, end
<1>2. /\ buckets' \in [Ranks -> Seq(Seq(Params))]
      /\ \A s \in Ranks : IsBucketList(buckets'[s])
      /\ pending' \in [Ranks -> Seq(Nat)]
      /\ \A s \in Ranks : pending'[s] \in [DOMAIN buckets'[s] -> Nat]
  BY <1>1 DEF TypeOK
<1>3. /\ nextBucket' \in [Ranks -> Nat]
      /\ \A s \in Ranks : nextBucket'[s] \in 1..(Len(buckets'[s]) + 1)
  <2>1. nextBucket \in [Ranks -> Nat]
        /\ \A s \in Ranks : nextBucket[s] \in 1..(Len(buckets[s]) + 1)
    BY DEF TypeOK
  <2>2. end \in Nat /\ end \in 1..(Len(buckets[r]) + 1)
    BY <1>1 DEF n
  <2> QED BY <1>1, <2>1, <2>2
<1>4. work' \in [Ranks -> SUBSET Nat] /\ \A s \in Ranks : work'[s] \subseteq DOMAIN buckets'[s]
  <2>1. nextBucket[r]..(end - 1) \subseteq 1..n
    BY <1>1
  <2>2. work'[r] = work[r] \cup (nextBucket[r]..(end - 1))
        /\ \A s \in Ranks \ {r} : work'[s] = work[s]
    BY <1>1 DEF TypeOK
  <2>3. work[r] \subseteq 1..n /\ 1..n \subseteq Nat
    <3>1. work[r] \subseteq DOMAIN buckets[r]
      BY DEF TypeOK
    <3> QED BY <1>1, <3>1
  <2>4. \A s \in Ranks : work'[s] \subseteq DOMAIN buckets'[s] /\ work'[s] \in SUBSET Nat
    BY <1>1, <2>1, <2>2, <2>3 DEF TypeOK
  <2>5. work' = [s \in Ranks |-> work'[s]]
    BY <1>1 DEF TypeOK
  <2> QED BY <2>4, <2>5
<1>5. todo' \in [Ranks -> SUBSET trainable]
  BY <1>1 DEF TypeOK
<1>6. comm' \in [Ranks -> Seq(Seq(Params))]
  <2>1. bs \in Seq(Seq(Params)) /\ comm[r] \in Seq(Seq(Params))
    BY DEF TypeOK
  <2>2. SubSeq(bs, nextBucket[r], end - 1) \in Seq(Seq(Params))
    <3>1. nextBucket[r] \in 1..(Len(bs) + 1) /\ end - 1 \in (nextBucket[r] - 1)..Len(bs)
      BY <1>1 DEF n
    <3> HIDE DEF bs
    <3> QED BY <2>1, <3>1
  <2>3. comm[r] \o Launched(bs, nextBucket[r], end) \in Seq(Seq(Params))
    BY <2>1, <2>2 DEF Launched
  <2> QED BY <1>1, <2>3 DEF TypeOK
<1>7. readyOrder' \in [Ranks -> ReadyOrders]
  <2>1. readyOrder' = [readyOrder EXCEPT ![r] =
            IF hasRebuilt[r] \/ p \in ParamsIn(readyOrder[r])
            THEN readyOrder[r] ELSE Append(readyOrder[r], p)]
    BY DEF MarkVariableReadyDense
  <2>2. readyOrder \in [Ranks -> ReadyOrders]
    BY DEF TypeOK
  <2>3. p \notin ParamsIn(readyOrder[r]) => Append(readyOrder[r], p) \in ReadyOrders
    BY <1>1, <2>2, RecordReady
  <2> QED BY <2>1, <2>2, <2>3
<1>8. own' \in [Ranks -> [Params -> Value]] /\ mem' \in [Ranks -> [Params -> Value]]
  <2>1. Accumulated(r, p) \in Value
    BY AccumulatedType
  <2>2. /\ own' = [own EXCEPT ![r][p] = IF grad[r][p] = "view" THEN @ ELSE Accumulated(r, p)]
        /\ mem' = [mem EXCEPT ![r][p] = Accumulated(r, p)]
    BY DEF MarkVariableReadyDense
  <2> QED BY <2>1, <2>2 DEF TypeOK
<1>9. /\ grad' \in [Ranks -> [Params -> {"null", "view", "own"}]]
      /\ overwrite' \in [Ranks -> [Params -> BOOLEAN]]
  <2>1. /\ overwrite' = [overwrite EXCEPT ![r][p] = FALSE]
        /\ grad' = [grad EXCEPT ![r][p] = IF @ = "null" THEN "own" ELSE @]
    BY DEF MarkVariableReadyDense
  <2> QED BY <2>1 DEF TypeOK
<1>10. PICK all, rebuild \in BOOLEAN :
          /\ allReady' = [allReady EXCEPT ![r] = all]
          /\ needRebuild' = [needRebuild EXCEPT ![r] = rebuild]
          /\ phase' = [phase EXCEPT ![r] = IF all THEN "finalize" ELSE @]
  <2> DEFINE order == IF hasRebuilt[r] \/ p \in ParamsIn(readyOrder[r])
                      THEN readyOrder[r] ELSE Append(readyOrder[r], p)
             A == allReady[r] \/ (IsReady(pend, b) /\ b <= nextBucket[r] /\ end = n + 1)
             B == needRebuild[r] \/ (A /\ ~allReady[r] /\ ~hasRebuilt[r] /\ order # <<>>)
  <2>1. /\ allReady' = [allReady EXCEPT ![r] = A]
        /\ needRebuild' = [needRebuild EXCEPT ![r] = B]
        /\ phase' = [phase EXCEPT ![r] = IF A THEN "finalize" ELSE @]
    BY DEF MarkVariableReadyDense, b, pend, n, end, Bucket, Counts, NextOne
  <2>2. A \in BOOLEAN /\ B \in BOOLEAN
    BY DEF TypeOK
  <2> QED BY <2>1, <2>2
<1>11. /\ allReady' \in [Ranks -> BOOLEAN] /\ needRebuild' \in [Ranks -> BOOLEAN]
       /\ phase' \in [Ranks -> Phases]
       /\ \A s \in Ranks : phase'[s] = "forward" => phase[s] = "forward"
  BY <1>10 DEF TypeOK, Phases
<1>12. UNCHANGED <<engineOrder, trainable, asView, round, forwards, hasRebuilt>>
  BY DEF MarkVariableReadyDense
<1> QED BY <1>2, <1>3, <1>4, <1>5, <1>6, <1>7, <1>8, <1>9, <1>11, <1>12 DEF TypeOK

(* The next round is a round, unless this one ends the run.                *)
LEMMA EndRoundType ==
    ASSUME TypeOK, NEW r \in Ranks, EndRound(r)
    PROVE  /\ phase' \in [Ranks -> Phases]
           /\ round' \in [Ranks -> Rounds]
           /\ forwards' \in [Ranks -> 0..ForwardsPerBackward]
           /\ \A s \in Ranks : phase'[s] = "forward" => forwards'[s] > 0
<1>1. CASE round[r] % AccumSteps = 0
  BY <1>1 DEF EndRound, TypeOK, Phases
<1>2. CASE round[r] % AccumSteps # 0
  <2>1. /\ phase' = [phase EXCEPT ![r] = "forward"]
        /\ round' = [round EXCEPT ![r] = @ + 1]
        /\ forwards' = [forwards EXCEPT ![r] = ForwardsPerBackward]
    BY <1>2 DEF EndRound
  <2>2. round[r] # AccumSteps * Steps
    <3>1. \A m, n \in Nat \ {0} : (m * n) % m = 0
      <4> SUFFICES ASSUME NEW m \in Nat \ {0}, NEW n \in Nat \ {0}
                   PROVE  (m * n) % m = 0
        OBVIOUS
      <4>1. \E q \in Int : m * n = m * q
        OBVIOUS
      <4> QED BY <4>1
    <3> QED BY <1>2, <3>1, CountsAssumption
  <2>3. round[r] + 1 \in Rounds
    BY <2>2, SomeRounds DEF TypeOK, Rounds
  <2>4. /\ phase' \in [Ranks -> Phases] /\ round' \in [Ranks -> Rounds]
    BY <2>1, <2>3 DEF TypeOK, Phases
  <2>5. /\ forwards' \in [Ranks -> 0..ForwardsPerBackward]
        /\ \A s \in Ranks : phase'[s] = "forward" => forwards'[s] > 0
    BY <2>1, CountsAssumption DEF TypeOK
  <2> QED BY <2>4, <2>5
<1> QED BY <1>1, <1>2

LEMMA FinalizeType ==
    ASSUME TypeOK, NEW r \in Ranks, FinalizeBackward(r)
    PROVE  TypeOK'
<1>1. /\ phase' \in [Ranks -> Phases]
      /\ round' \in [Ranks -> Rounds]
      /\ forwards' \in [Ranks -> 0..ForwardsPerBackward]
      /\ \A s \in Ranks : phase'[s] = "forward" => forwards'[s] > 0
  <2>1. CASE todo[r] = {}
    BY <2>1, EndRoundType DEF FinalizeBackward
  <2>2. CASE todo[r] # {}
    BY <2>2 DEF FinalizeBackward, TypeOK, Phases
  <2> QED BY <2>1, <2>2
<1>2. own' \in [Ranks -> [Params -> Value]]
  BY DEF FinalizeBackward, TypeOK
<1>3. work' \in [Ranks -> SUBSET Nat] /\ \A s \in Ranks : work'[s] \subseteq DOMAIN buckets'[s]
  BY DEF FinalizeBackward, TypeOK
<1>4. allReady' \in [Ranks -> BOOLEAN]
  BY DEF FinalizeBackward, TypeOK
<1>5. UNCHANGED <<engineOrder, trainable, asView, todo, grad, overwrite, mem, buckets, pending,
                  nextBucket, readyOrder, needRebuild, hasRebuilt, comm>>
  BY DEF FinalizeBackward
<1> QED BY <1>1, <1>2, <1>3, <1>4, <1>5 DEF TypeOK

LEMMA ReturnsType ==
    ASSUME TypeOK, NEW r \in Ranks, BackwardReturns(r)
    PROVE  TypeOK'
<1>1. UNCHANGED <<engineOrder, trainable, asView, todo, gradVars, mem, bucketVars, flagVars, comm>>
  BY DEF BackwardReturns
<1>2. EndRound(r)
  BY DEF BackwardReturns
<1> QED BY <1>1, <1>2, EndRoundType DEF TypeOK, gradVars, bucketVars, flagVars

LEMMA OptimizerStepType ==
    ASSUME TypeOK, NEW r \in Ranks, OptimizerStep(r)
    PROVE  TypeOK'
<1>1. phase' \in [Ranks -> Phases] /\ \A s \in Ranks : phase'[s] = "forward" => phase[s] = "forward"
  BY DEF OptimizerStep, TypeOK, Phases
<1>2. comm' \in [Ranks -> Seq(Seq(Params))]
  <2>1. LossReduce \in Seq(Params)
    BY DEF LossReduce
  <2> QED BY <2>1 DEF OptimizerStep, TypeOK
<1>3. UNCHANGED <<engineOrder, trainable, asView, round, forwards, todo, gradVars, mem, bucketVars, flagVars>>
  BY DEF OptimizerStep
<1> QED BY <1>1, <1>2, <1>3 DEF TypeOK, gradVars, bucketVars, flagVars

LEMMA StartStepType ==
    ASSUME TypeOK, NEW r \in Ranks, NEW z \in BOOLEAN, StartStep(r, z)
    PROVE  TypeOK'
<1>1. UNCHANGED <<engineOrder, trainable, asView, todo, overwrite, bucketVars, flagVars, comm>>
  BY DEF StartStep
<1>2. CASE IsLastRound(round[r])
  <2>1. /\ phase' = [phase EXCEPT ![r] = "done"]
        /\ UNCHANGED <<round, forwards, grad, own, mem>>
    BY <1>2 DEF StartStep
  <2>2. phase' \in [Ranks -> Phases] /\ \A s \in Ranks : phase'[s] = "forward" => phase[s] = "forward"
    BY <2>1 DEF TypeOK, Phases
  <2> QED BY <1>1, <2>1, <2>2 DEF TypeOK, bucketVars, flagVars
<1>3. CASE ~IsLastRound(round[r])
  <2>1. /\ phase' = [phase EXCEPT ![r] = "forward"]
        /\ round' = [round EXCEPT ![r] = @ + 1]
        /\ forwards' = [forwards EXCEPT ![r] = ForwardsPerBackward]
    BY <1>3 DEF StartStep
  <2>2. round[r] + 1 \in Rounds
    BY <1>3, SomeRounds DEF TypeOK, Rounds, IsLastRound
  <2>3. phase' \in [Ranks -> Phases] /\ round' \in [Ranks -> Rounds]
    BY <2>1, <2>2 DEF TypeOK, Phases
  <2>4. /\ forwards' \in [Ranks -> 0..ForwardsPerBackward]
        /\ \A s \in Ranks : phase'[s] = "forward" => forwards'[s] > 0
    BY <2>1, CountsAssumption DEF TypeOK
  <2>5. /\ grad' \in [Ranks -> [Params -> {"null", "view", "own"}]]
        /\ own' \in [Ranks -> [Params -> Value]]
        /\ mem' \in [Ranks -> [Params -> Value]]
    <3>1. CASE z
      <4>1. /\ grad' = [grad EXCEPT ![r] =
                   [p \in Params |-> IF p \in trainable THEN "null" ELSE @[p]]]
            /\ UNCHANGED <<own, mem>>
        BY <1>3, <3>1 DEF StartStep
      <4> QED BY <4>1 DEF TypeOK
    <3>2. CASE ~z
      <4>1. /\ own' = [own EXCEPT ![r] =
                   [p \in Params |-> IF p \in trainable /\ grad[r][p] = "own"
                                     THEN Zero ELSE @[p]]]
            /\ mem' = [mem EXCEPT ![r] =
                   [p \in Params |-> IF p \in trainable /\ grad[r][p] = "view"
                                     THEN Zero ELSE @[p]]]
            /\ UNCHANGED grad
        BY <1>3, <3>2 DEF StartStep
      <4>2. Zero \in Value
        BY DEF Zero, Value
      <4> QED BY <4>1, <4>2 DEF TypeOK
    <3> QED BY <3>1, <3>2
  <2> QED BY <1>1, <2>3, <2>4, <2>5 DEF TypeOK, bucketVars, flagVars
<1> QED BY <1>2, <1>3

LEMMA CompletesType ==
    ASSUME TypeOK, AllReduceCompletes
    PROVE  TypeOK'
<1>1. UNCHANGED <<engineOrder, trainable, asView, loopVars, gradVars, bucketVars, flagVars>>
  BY DEF AllReduceCompletes
<1>2. comm' \in [Ranks -> Seq(Seq(Params))]
  BY DEF AllReduceCompletes, TypeOK
<1>3. mem' \in [Ranks -> [Params -> Value]]
  <2>1. ASSUME NEW p \in Params
        PROVE  Average({mem[s][p] : s \in Ranks}) \in Value
    <3>1. {mem[s][p] : s \in Ranks} \in SUBSET Value
      BY DEF TypeOK
    <3>2. {mem[s][p] : s \in Ranks} # {}
      BY CountsAssumption
    <3> QED BY <3>1, <3>2, AverageType
  <2>2. mem' = [r \in Ranks |-> [p \in Params |->
                   IF p \in ParamsIn(Head(comm[r]))
                   THEN Average({mem[s][p] : s \in Ranks}) ELSE mem[r][p]]]
    BY DEF AllReduceCompletes
  <2> QED BY <2>1, <2>2 DEF TypeOK
<1> QED BY <1>1, <1>2, <1>3 DEF TypeOK, loopVars, gradVars, bucketVars, flagVars

LEMMA NextTypeOK == TypeOK /\ [Next]_vars => TypeOK'
<1> SUFFICES ASSUME TypeOK, [Next]_vars PROVE TypeOK'
  OBVIOUS
<1>1. CASE UNCHANGED vars
  BY <1>1 DEF TypeOK, vars, loopVars, gradVars, bucketVars, flagVars
<1>2. CASE \E r \in Ranks : RankStep(r)
  BY <1>2, PrepareForBackwardType, MarkType, FinalizeType, ReturnsType,
     OptimizerStepType, StartStepType DEF RankStep
<1>3. CASE AllReduceCompletes
  BY <1>3, CompletesType
<1>4. CASE Terminated
  BY <1>1, <1>4 DEF Terminated
<1> QED BY <1>1, <1>2, <1>3, <1>4 DEF Next

(***************************************************************************)
(* Every variable of every rank keeps its type: the counts of a rank fit   *)
(* its bucket list, which always gives each parameter exactly one bucket,  *)
(* and no bucket beyond the last is ever launched.                         *)
(***************************************************************************)
THEOREM TypeCorrect == Spec => []TypeOK
<1>1. Init => TypeOK
  BY InitTypeOK
<1>2. TypeOK /\ [Next]_vars => TypeOK'
  BY NextTypeOK
<1> QED BY <1>1, <1>2, PTL DEF Spec

-----------------------------------------------------------------------------
(* The counts of a bucket's outstanding gradients.                         *)

LEMMA InitCountInv == Init => CountInv
BY DEF Init, CountInv

LEMMA CountsUnchanged ==
    ASSUME CountInv, UNCHANGED <<buckets, pending, todo, trainable>>,
           \A s \in Ranks : phase'[s] \in {"backward", "finalize"}
                              => phase[s] \in {"backward", "finalize"}
    PROVE  CountInv'
BY DEF CountInv, Outstanding

LEMMA PrepareForBackwardCounts ==
    ASSUME TypeOK, CountInv, NEW r \in Ranks, PrepareForBackward(r)
    PROVE  CountInv'
<1> DEFINE rebuilds == needRebuild[r] /\ ~hasRebuilt[r]
           moves    == rebuilds /\ readyOrder[r] # <<>>
           bs       == IF moves THEN Rebuilt[readyOrder[r]] ELSE buckets[r]
<1>1. IsBucketList(bs)
  BY RebuiltType
<1>2. /\ buckets' = [buckets EXCEPT ![r] = bs]
      /\ pending' = [pending EXCEPT ![r] = FreshPending(bs, @)]
      /\ trainable' = trainable
  BY DEF PrepareForBackward
<1> HIDE DEF bs
<1>3. SUFFICES ASSUME NEW s \in Ranks, phase'[s] \in {"backward", "finalize"},
                      NEW b \in DOMAIN buckets'[s]
               PROVE  pending'[s][b] = Cardinality(Outstanding(s, b)')
  BY DEF CountInv
<1>4. CASE s = r
  <2>1. forwards[r] = 1
    <3>1. phase[r] = "forward" /\ (forwards[r] # 1 => phase' = phase)
      BY DEF PrepareForBackward
    <3> QED BY <1>3, <1>4, <3>1
  <2>2. todo'[r] = trainable
    BY <2>1 DEF PrepareForBackward, TypeOK
  <2>3. buckets'[r] = bs /\ pending'[r][b] = Len(bs[b])
    BY <1>2, <1>3, <1>4 DEF TypeOK, FreshPending
  <2>4. b \in DOMAIN bs
    BY <1>4, <2>3
  <2>5. ParamsIn(bs[b]) \subseteq Params /\ Cardinality(ParamsIn(bs[b])) = Len(bs[b])
    BY <1>1, <2>4, BucketSize
  <2>6. Outstanding(s, b)' = ParamsIn(bs[b])
    BY <1>2, <1>4, <2>2, <2>3, <2>5 DEF Outstanding
  <2> QED BY <1>4, <2>3, <2>5, <2>6
<1>5. CASE s # r
  <2>1. /\ buckets'[s] = buckets[s] /\ pending'[s] = pending[s]
        /\ todo'[s] = todo[s] /\ phase'[s] = phase[s]
    BY SMTT(30), <1>2, <1>5 DEF PrepareForBackward, TypeOK
  <2> QED BY <1>2, <1>3, <2>1 DEF CountInv, Outstanding
<1> QED BY <1>4, <1>5

LEMMA MarkCounts ==
    ASSUME TypeOK, CountInv, NEW r \in Ranks, NEW p \in Params, MarkVariableReadyDense(r, p)
    PROVE  CountInv'
<1>1. /\ p \in todo[r] /\ p \in trainable /\ phase[r] = "backward"
      /\ DOMAIN buckets[r] = 1..Len(buckets[r])
      /\ Bucket(r, p) \in DOMAIN buckets[r]
      /\ pending' = [pending EXCEPT ![r] = Counts(r, p)]
      /\ todo' = [todo EXCEPT ![r] = @ \ {p}]
      /\ buckets' = buckets /\ trainable' = trainable
  BY MarkFacts DEF MarkVariableReadyDense
<1>2. \A s \in Ranks \ {r} : phase'[s] = phase[s] /\ pending'[s] = pending[s] /\ todo'[s] = todo[s]
  BY <1>1 DEF MarkVariableReadyDense, TypeOK
<1>3. SUFFICES ASSUME NEW b \in DOMAIN buckets[r]
               PROVE  pending'[r][b] = Cardinality(Outstanding(r, b)')
  <2>1. ASSUME NEW s \in Ranks \ {r}, phase'[s] \in {"backward", "finalize"},
               NEW c \in DOMAIN buckets'[s]
        PROVE  pending'[s][c] = Cardinality(Outstanding(s, c)')
    BY <1>1, <1>2, <2>1 DEF CountInv, Outstanding
  <2> QED BY <1>1, <2>1 DEF CountInv
<1>4. todo'[r] = todo[r] \ {p} /\ pending'[r] = Counts(r, p)
  BY <1>1 DEF TypeOK
<1>5. Outstanding(r, b)' = Outstanding(r, b) \ {p}
  BY <1>1, <1>4 DEF Outstanding
<1>6. pending[r][b] = Cardinality(Outstanding(r, b))
  BY <1>1 DEF CountInv
<1>7. IsBucketList(buckets[r])
  BY DEF TypeOK
<1>8. IsFiniteSet(Outstanding(r, b))
  <2>1. IsFiniteSet(ParamsIn(buckets[r][b]))
    BY <1>7, BucketSize
  <2> QED BY <2>1, FS_Intersection DEF Outstanding
<1>9. p \in ParamsIn(buckets[r][b]) <=> b = Bucket(r, p)
  BY <1>7, LocatorUnique DEF Bucket
<1>10. pending[r] \in [DOMAIN buckets[r] -> Nat]
  BY DEF TypeOK
<1>11. CASE b = Bucket(r, p)
  <2>1. p \in Outstanding(r, b)
    BY <1>1, <1>9, <1>11 DEF Outstanding
  <2>2. Cardinality(Outstanding(r, b) \ {p}) = Cardinality(Outstanding(r, b)) - 1
    BY <1>8, <2>1, FS_RemoveElement
  <2> QED BY <1>4, <1>5, <1>6, <1>10, <1>11, <2>2 DEF Counts
<1>12. CASE b # Bucket(r, p)
  <2>1. Outstanding(r, b)' = Outstanding(r, b)
    BY <1>5, <1>9, <1>12 DEF Outstanding
  <2> QED BY <1>4, <1>6, <1>10, <1>12, <2>1 DEF Counts
<1> QED BY <1>11, <1>12

LEMMA NextCountInv == TypeOK /\ CountInv /\ [Next]_vars => CountInv'
<1> SUFFICES ASSUME TypeOK, CountInv, [Next]_vars PROVE CountInv'
  OBVIOUS
<1> DEFINE Stays == /\ UNCHANGED <<buckets, pending, todo, trainable>>
                    /\ \A s \in Ranks : phase'[s] \in {"backward", "finalize"}
                                           => phase[s] \in {"backward", "finalize"}
<1>0. Stays => CountInv'
  BY CountsUnchanged
<1> HIDE DEF Stays
<1>1. CASE UNCHANGED vars
  <2>1. Stays
    BY <1>1 DEF vars, loopVars, bucketVars, Stays
  <2> QED BY <1>0, <2>1
<1>2. ASSUME NEW r \in Ranks, RankStep(r) PROVE CountInv'
  <2>1. CASE PrepareForBackward(r)
    BY <2>1, PrepareForBackwardCounts
  <2>2. ASSUME NEW p \in Params, MarkVariableReadyDense(r, p) PROVE CountInv'
    BY <2>2, MarkCounts
  <2>3. CASE FinalizeBackward(r)
    <3>1. UNCHANGED <<buckets, pending, todo, trainable>> /\ phase[r] = "finalize"
      BY <2>3 DEF FinalizeBackward
    <3>2. \A s \in Ranks \ {r} : phase'[s] = phase[s]
      BY <2>3 DEF FinalizeBackward, EndRound, TypeOK
    <3> QED BY <1>0, <3>1, <3>2 DEF Stays
  <2>4. CASE BackwardReturns(r)
    <3>1. UNCHANGED <<buckets, pending, todo, trainable>> /\ phase[r] = "backward"
      BY <2>4 DEF BackwardReturns, bucketVars
    <3>2. \A s \in Ranks \ {r} : phase'[s] = phase[s]
      BY <2>4 DEF BackwardReturns, EndRound, TypeOK
    <3> QED BY <1>0, <3>1, <3>2 DEF Stays
  <2>5. CASE OptimizerStep(r)
    <3>1. UNCHANGED <<buckets, pending, todo, trainable>> /\ phase' = [phase EXCEPT ![r] = "loss"]
      BY <2>5 DEF OptimizerStep, bucketVars
    <3>2. Stays
      BY <3>1 DEF Stays, TypeOK
    <3> QED BY <1>0, <3>2
  <2>6. ASSUME NEW z \in BOOLEAN, StartStep(r, z) PROVE CountInv'
    <3>1. UNCHANGED <<buckets, pending, todo, trainable>>
      BY <2>6 DEF StartStep, bucketVars
    <3>2. \/ phase' = [phase EXCEPT ![r] = "done"]
          \/ phase' = [phase EXCEPT ![r] = "forward"]
      BY <2>6 DEF StartStep
    <3>3. Stays
      BY <3>1, <3>2 DEF Stays, TypeOK
    <3> QED BY <1>0, <3>3
  <2> QED BY <1>2, <2>1, <2>2, <2>3, <2>4, <2>5, <2>6 DEF RankStep
<1>3. CASE AllReduceCompletes
  <2>1. Stays
    BY <1>3 DEF AllReduceCompletes, loopVars, bucketVars, Stays
  <2> QED BY <1>0, <2>1
<1>4. CASE Terminated
  BY <1>1, <1>4 DEF Terminated
<1> QED BY <1>1, <1>2, <1>3, <1>4 DEF Next

THEOREM CountsCorrect == Spec => []CountInv
<1>1. Init => CountInv
  BY InitCountInv
<1>2. TypeOK /\ CountInv /\ [Next]_vars => CountInv'
  BY NextCountInv
<1> QED BY <1>1, <1>2, TypeCorrect, PTL DEF Spec

(***************************************************************************)
(* CHECK(bucket.pending > 0) in MarkVariableReadyDense cannot fail: the    *)
(* parameter being marked is itself still counted in its bucket.           *)
(***************************************************************************)
THEOREM ChecksHold == Spec => []NoCheckFailure
<1>1. TypeOK /\ CountInv => NoCheckFailure
  <2> SUFFICES ASSUME TypeOK, CountInv,
                      NEW r \in Ranks, phase[r] = "backward", NEW p \in todo[r]
               PROVE  pending[r][Locator(buckets[r], p)] > 0
    BY DEF NoCheckFailure
  <2> DEFINE b == Locator(buckets[r], p)
  <2>1. IsBucketList(buckets[r]) /\ p \in Params
    BY CountsAssumption DEF TypeOK
  <2>2. b \in DOMAIN buckets[r] /\ p \in ParamsIn(buckets[r][b])
    BY <2>1, LocatorUnique
  <2> HIDE DEF b
  <2>3. p \in Outstanding(r, b)
    BY <2>2 DEF Outstanding
  <2>4. IsFiniteSet(Outstanding(r, b))
    <3>1. IsFiniteSet(ParamsIn(buckets[r][b]))
      BY <2>1, <2>2, BucketSize
    <3> QED BY <3>1, FS_Intersection DEF Outstanding
  <2>5. Cardinality(Outstanding(r, b)) # 0 /\ Cardinality(Outstanding(r, b)) \in Nat
    BY <2>3, <2>4, FS_EmptySet, FS_CardinalityType
  <2>6. pending[r][b] = Cardinality(Outstanding(r, b))
    BY <2>2 DEF CountInv
  <2> QED BY <2>5, <2>6 DEF b
<1> QED BY <1>1, TypeCorrect, CountsCorrect, PTL
=============================================================================
