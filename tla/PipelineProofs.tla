--------------------------- MODULE PipelineProofs ---------------------------
(***************************************************************************)
(* Proofs about Pipeline, for every number of stages, chunks per stage,    *)
(* micro-batches and steps, and every capacity of the transport: what      *)
(* arrives is what was wanted, and the stages together implement           *)
(* PipelineDataflow.                                                       *)
(*                                                                         *)
(* A task of an iteration is named by its id <<iteration, forward,         *)
(* micro-batch, chunk>>, and so is the message that it sends.              *)
(***************************************************************************)
EXTENDS Pipeline, TLAPS, SequenceTheorems, WellFoundedInduction, FiniteSetTheorems

AllIds == (1..Iterations) \X BOOLEAN \X (0..(conf.mbs - 1)) \X (0..(Chunks - 1))

Total     == conf.mbs + Chunks - 1
StepOf(x) == IF x[2] THEN x[3] + x[4] ELSE Total + ((Total - 1 - x[4]) - x[3])
At(x)     == x[4] % conf.stages
TaskOf(x) == Task(StepOf(x), x[3], x[4], x[2], conf.stages)
RunOp(x)  == [op |-> "run", task |-> TaskOf(x)]
SendOp(x) == [op |-> "send", task |-> TaskOf(x)]

(* Whether a task sends or receives, and the ids before and after it.      *)
Passes(x)  == IF x[2] THEN x[4] < Chunks - 1 ELSE x[4] > 0
Accepts(x) == IF x[2] THEN x[4] > 0 ELSE x[4] < Chunks - 1
Onward(x)  == <<x[1], x[2], x[3], IF x[2] THEN x[4] + 1 ELSE x[4] - 1>>
Back(x)    == <<x[1], x[2], x[3], IF x[2] THEN x[4] - 1 ELSE x[4] + 1>>

(* The order of all tasks: by iteration, step and chunk.                   *)
Ahead(x, y) ==
    \/ x[1] < y[1]
    \/ x[1] = y[1] /\ StepOf(x) < StepOf(y)
    \/ x[1] = y[1] /\ StepOf(x) = StepOf(y) /\ x[4] < y[4]

(* What has run and what has been sent, from where the stages are.         *)
HasRun(x) ==
    x[1] < iter[At(x)] \/ (x[1] = iter[At(x)] /\ RunOp(x) \notin ops[At(x)])
HasSent(x) ==
    x[1] < iter[At(x)] \/ (x[1] = iter[At(x)] /\ SendOp(x) \notin ops[At(x)])

(* Sent from s to d and not received.                                      *)
Underway(s, d) ==
    {x \in AllIds : /\ Passes(x) /\ At(x) = s /\ At(Onward(x)) = d
                    /\ HasSent(x) /\ ~HasRun(Onward(x))}

(* A sequence that lists a set in order.                                   *)
Lists(q, S) ==
    /\ \A k \in DOMAIN q : q[k] \in S
    /\ \A x \in S : \E k \in DOMAIN q : q[k] = x
    /\ \A j, k \in DOMAIN q : j < k => Ahead(q[j], q[k])

Types ==
    /\ conf \in Confs
    /\ iter \in [Stages -> 1..Iterations]
    /\ DOMAIN ops = Stages
    /\ chan \in [Stages -> [Stages -> Seq(AllIds)]]

(* A stage does its operations in order, so those left are the last ones.  *)
OpsInv ==
    \A s \in Stages :
        /\ ops[s] \subseteq OpsOfStage(conf, s)
        /\ \A o \in ops[s] : \A q \in OpsOfStage(conf, s) : Precedes(o, q) => q \in ops[s]

(* What has run is known from where the stages are, and each task ran on   *)
(* what it wanted.                                                         *)
RanInv ==
    /\ \A e \in ran : e \in AllIds \X (AllIds \cup {NoMessage}) /\ e[2] = Wanted(e[1])
    /\ \A x \in AllIds : HasRun(x) <=> \E e \in ran : e[1] = x

(* Nothing is received before it is sent.                                  *)
CausalInv == \A x \in AllIds : Passes(x) /\ HasRun(Onward(x)) => HasSent(x)

(* A channel holds what is under way on it, in order.                      *)
ChanInv ==
    \A s, d \in Stages : Lists(chan[s][d], Underway(s, d)) /\ Len(chan[s][d]) <= conf.capacity

IInv == Types /\ OpsInv /\ RanInv /\ CausalInv /\ ChanInv

-----------------------------------------------------------------------------
(* Chunks, stages and the digits of a chunk.                               *)
LEMMA Division ==
    ASSUME NEW n \in Nat \ {0}, NEW c \in Nat
    PROVE  c = (c \div n) * n + (c % n) /\ c % n \in 0..n-1 /\ c \div n \in Nat
OBVIOUS

LEMMA Digits ==
    ASSUME NEW n \in Nat \ {0}, NEW q \in Nat, NEW a \in 0..n-1
    PROVE  (q * n + a) \div n = q /\ (q * n + a) % n = a
OBVIOUS

LEMMA NextResidue ==
    ASSUME NEW n \in Nat \ {0, 1}, NEW c \in Nat
    PROVE  (c + 1) % n = IF c % n = n - 1 THEN 0 ELSE (c % n) + 1
<1>1. PICK q \in Nat, a \in 0..n-1 : c = q * n + a /\ a = c % n
  BY Division
<1>2. CASE a = n - 1
  <2>1. c + 1 = (q + 1) * n + 0 /\ q + 1 \in Nat
    BY <1>1, <1>2
  <2>2. ((q + 1) * n + 0) % n = 0
    BY <2>1, Digits
  <2>3. (c + 1) % n = 0
    BY <2>1, <2>2
  <2> QED BY <1>1, <1>2, <2>3
<1>3. CASE a # n - 1
  <2>1. c + 1 = q * n + (a + 1) /\ a + 1 \in 0..n-1
    BY <1>1, <1>3
  <2>2. (c + 1) % n = a + 1
    BY <2>1, Digits
  <2> QED BY <1>1, <1>3, <2>2
<1> QED BY <1>2, <1>3

(* The chunks of a stage are in the order of their local numbers.          *)
LEMMA LocalOrder ==
    ASSUME NEW n \in Nat \ {0}, NEW c \in Nat, NEW d \in Nat, c % n = d % n
    PROVE  (c \div n) < (d \div n) <=> c < d
<1>1. /\ c = (c \div n) * n + (c % n) /\ c \div n \in Nat
      /\ d = (d \div n) * n + (d % n) /\ d \div n \in Nat /\ d % n \in Nat
  <2>1. c = (c \div n) * n + (c % n) /\ c \div n \in Nat
    BY Division
  <2>2. d = (d \div n) * n + (d % n) /\ d \div n \in Nat /\ d % n \in 0..n-1
    BY Division
  <2> QED BY <2>1, <2>2
<1> DEFINE p == c \div n
           q == d \div n
<1>2. ASSUME NEW x \in Nat, NEW y \in Nat, x < y PROVE x * n < y * n
  <2>1. y - x - 1 \in Nat /\ y * n = (y - x - 1) * n + x * n + n
    BY <1>2
  <2>2. (y - x - 1) * n \in Nat
    BY <2>1
  <2> QED BY <2>1, <2>2
<1>3. CASE p < q
  BY <1>1, <1>2, <1>3
<1>4. CASE p = q
  BY <1>1, <1>4
<1>5. CASE q < p
  BY <1>1, <1>2, <1>5
<1> QED BY <1>1, <1>3, <1>4, <1>5

-----------------------------------------------------------------------------
(* What the configuration and an id are made of.                           *)
LEMMA Shape ==
    ASSUME conf \in Confs
    PROVE  /\ conf.stages \in Nat \ {0, 1} /\ conf.mbs \in Nat \ {0} /\ conf.capacity \in Nat
           /\ conf.vpp \in Nat \ {0} /\ Chunks \in Nat \ {0} /\ Total \in Nat
           /\ Iterations \in Nat \ {0}
<1>1. /\ conf.stages \in Nat \ {0, 1} /\ conf.mbs \in Nat \ {0} /\ conf.capacity \in Nat
      /\ conf.vpp \in Nat \ {0} /\ Iterations \in Nat \ {0}
  BY PipelineAssumption
<1>2. ASSUME NEW a \in Nat \ {0}, NEW b \in Nat \ {0} PROVE a * b \in Nat \ {0}
  OBVIOUS
<1>3. Chunks \in Nat \ {0}
  BY <1>1, <1>2 DEF Chunks
<1> QED BY <1>1, <1>3 DEF Total

LEMMA IdParts ==
    ASSUME conf \in Confs, NEW x \in AllIds
    PROVE  /\ x = <<x[1], x[2], x[3], x[4]>>
           /\ x[1] \in 1..Iterations /\ x[2] \in BOOLEAN
           /\ x[3] \in 0..(conf.mbs - 1) /\ x[4] \in 0..(Chunks - 1)
           /\ x[4] \in Nat /\ At(x) \in Stages
           /\ StepOf(x) \in Nat
           /\ x[2] => StepOf(x) = x[3] + x[4] /\ StepOf(x) < Total
           /\ ~x[2] => StepOf(x) = Total + ((Total - 1 - x[4]) - x[3]) /\ StepOf(x) >= Total
<1>1. /\ x = <<x[1], x[2], x[3], x[4]>>
      /\ x[1] \in 1..Iterations /\ x[2] \in BOOLEAN
      /\ x[3] \in 0..(conf.mbs - 1) /\ x[4] \in 0..(Chunks - 1)
  BY DEF AllIds
<1>2. x[4] \in Nat
  BY <1>1, Shape
<1>3. At(x) \in Stages
  BY <1>2, Shape, Division DEF At, Stages
<1> DEFINE K == Chunks
<1>4. /\ K \in Nat \ {0} /\ conf.mbs \in Nat \ {0} /\ x[4] \in 0..(K - 1)
      /\ Total = conf.mbs + K - 1
  BY <1>1, Shape DEF Total
<1> HIDE DEF K
<1>5. x[2] => StepOf(x) = x[3] + x[4] /\ StepOf(x) < Total /\ StepOf(x) \in Nat
  BY <1>1, <1>4 DEF StepOf
<1>6. ~x[2] => /\ StepOf(x) = Total + ((Total - 1 - x[4]) - x[3]) /\ StepOf(x) >= Total
               /\ StepOf(x) \in Nat
  BY <1>1, <1>4 DEF StepOf
<1> QED BY <1>1, <1>2, <1>3, <1>5, <1>6

LEMMA IdIntro ==
    ASSUME NEW i \in 1..Iterations, NEW f \in BOOLEAN,
           NEW mb \in 0..(conf.mbs - 1), NEW c \in 0..(Chunks - 1)
    PROVE  <<i, f, mb, c>> \in AllIds
BY DEF AllIds

LEMMA TaskFields ==
    ASSUME NEW x
    PROVE  /\ TaskOf(x).step = StepOf(x) /\ TaskOf(x).mb = x[3]
           /\ TaskOf(x).chunk = x[4] /\ TaskOf(x).forward = x[2]
           /\ TaskOf(x).stage = At(x) /\ TaskOf(x).local = x[4] \div conf.stages
BY DEF TaskOf, Task, StageOf, LocalOf, At

(* The tasks of a stage are its ids of any one iteration.                  *)
LEMMA ProgramIsIds ==
    ASSUME conf \in Confs, NEW s \in Stages, NEW i \in 1..Iterations, NEW t
    PROVE  t \in GPipeProgram(conf.mbs, conf.stages, conf.vpp, s)
              <=> \E x \in AllIds : x[1] = i /\ At(x) = s /\ t = TaskOf(x)
<1> DEFINE n == conf.mbs
           K == Chunks
           total == n + K - 1
           T == GPipeTasks(n, conf.stages, conf.vpp)
<1>1. /\ n \in Nat \ {0} /\ K \in Nat \ {0} /\ Total = total
      /\ K = conf.stages * conf.vpp
  BY Shape DEF Total, Chunks
<1>2. t \in T <=>
        \/ \E a \in 0..(total - 1), b \in 0..(n - 1) :
               a - b \in 0..(K - 1) /\ t = Task(a, b, a - b, TRUE, conf.stages)
        \/ \E a \in 0..(total - 1), b \in 0..(n - 1) :
               /\ (total - 1 - a) - b \in 0..(K - 1)
               /\ t = Task(a + total, b, (total - 1 - a) - b, FALSE, conf.stages)
  <2> DEFINE waves == (0..(total - 1)) \X (0..(n - 1))
  <2>1. T = {Task(w[1], w[2], w[1] - w[2], TRUE, conf.stages) :
                 w \in {v \in waves : v[1] - v[2] \in 0..(K - 1)}}
            \cup
            {Task(w[1] + total, w[2], (total - 1 - w[1]) - w[2], FALSE, conf.stages) :
                 w \in {v \in waves : (total - 1 - v[1]) - v[2] \in 0..(K - 1)}}
    BY <1>1, Zenon DEF GPipeTasks, BackwardChunk
  <2> HIDE DEF T, K
  <2> DEFINE there == {v \in waves : v[1] - v[2] \in 0..(K - 1)}
             back  == {v \in waves : (total - 1 - v[1]) - v[2] \in 0..(K - 1)}
  <2>2. t \in T <=>
          \/ \E w \in there : t = Task(w[1], w[2], w[1] - w[2], TRUE, conf.stages)
          \/ \E w \in back :
                 t = Task(w[1] + total, w[2], (total - 1 - w[1]) - w[2], FALSE, conf.stages)
    <3> HIDE DEF waves, total
    <3> QED BY <2>1, Zenon
  <2>3. \A a \in 0..(total - 1), b \in 0..(n - 1) :
           /\ a - b \in 0..(K - 1) => <<a, b>> \in there
           /\ (total - 1 - a) - b \in 0..(K - 1) => <<a, b>> \in back
    OBVIOUS
  <2>4. ASSUME NEW w \in there
        PROVE  w[1] \in 0..(total - 1) /\ w[2] \in 0..(n - 1) /\ w[1] - w[2] \in 0..(K - 1)
    OBVIOUS
  <2>5. ASSUME NEW w \in back
        PROVE  /\ w[1] \in 0..(total - 1) /\ w[2] \in 0..(n - 1)
               /\ (total - 1 - w[1]) - w[2] \in 0..(K - 1)
    OBVIOUS
  <2>6. ASSUME NEW a \in 0..(total - 1), NEW b \in 0..(n - 1), a - b \in 0..(K - 1),
               t = Task(a, b, a - b, TRUE, conf.stages)
        PROVE  \E w \in there : t = Task(w[1], w[2], w[1] - w[2], TRUE, conf.stages)
    <3>1. <<a, b>> \in there
      BY <2>3, <2>6
    <3> HIDE DEF there
    <3> QED BY <2>6, <3>1
  <2>7. ASSUME NEW a \in 0..(total - 1), NEW b \in 0..(n - 1), (total - 1 - a) - b \in 0..(K - 1),
               t = Task(a + total, b, (total - 1 - a) - b, FALSE, conf.stages)
        PROVE  \E w \in back :
                 t = Task(w[1] + total, w[2], (total - 1 - w[1]) - w[2], FALSE, conf.stages)
    <3>1. <<a, b>> \in back
      BY <2>3, <2>7
    <3> HIDE DEF back
    <3> QED BY <2>7, <3>1
  <2> HIDE DEF there, back, waves, total
  <2> QED BY <2>2, <2>4, <2>5, <2>6, <2>7
<1> HIDE DEF K, T
<1>3. ASSUME NEW a \in 0..(total - 1), NEW b \in 0..(n - 1), a - b \in 0..(K - 1),
             t = Task(a, b, a - b, TRUE, conf.stages)
      PROVE  \E x \in AllIds : x[1] = i /\ t = TaskOf(x)
  <2> DEFINE x == <<i, TRUE, b, a - b>>
  <2>1. x \in AllIds
    BY <1>3, IdIntro DEF K
  <2>2. StepOf(x) = a
    BY <1>1 DEF StepOf
  <2>3. TaskOf(x) = t
    BY <1>3, <2>2 DEF TaskOf
  <2> QED BY <2>1, <2>3
<1>4. ASSUME NEW a \in 0..(total - 1), NEW b \in 0..(n - 1), (total - 1 - a) - b \in 0..(K - 1),
             t = Task(a + total, b, (total - 1 - a) - b, FALSE, conf.stages)
      PROVE  \E x \in AllIds : x[1] = i /\ t = TaskOf(x)
  <2> DEFINE x == <<i, FALSE, b, (total - 1 - a) - b>>
  <2>1. x \in AllIds
    BY <1>4, IdIntro DEF K
  <2>2. StepOf(x) = a + total
    BY <1>1 DEF StepOf
  <2>3. TaskOf(x) = t
    BY <1>4, <2>2 DEF TaskOf
  <2> QED BY <2>1, <2>3
<1>5. ASSUME NEW x \in AllIds, x[1] = i, t = TaskOf(x)
      PROVE  t \in T
  <2>1. /\ x[2] \in BOOLEAN /\ x[3] \in 0..(n - 1) /\ x[4] \in 0..(K - 1)
        /\ t = Task(StepOf(x), x[3], x[4], x[2], conf.stages)
        /\ x[2] => StepOf(x) = x[3] + x[4]
        /\ ~x[2] => StepOf(x) = Total + ((Total - 1 - x[4]) - x[3])
    BY <1>5, IdParts DEF TaskOf, K
  <2>2. CASE x[2]
    <3> DEFINE a == x[3] + x[4]
    <3>1. a \in 0..(total - 1) /\ a - x[3] = x[4]
      BY <1>1, <2>1
    <3>2. t = Task(a, x[3], a - x[3], TRUE, conf.stages)
      BY <2>1, <2>2, <3>1
    <3> HIDE DEF a
    <3> QED BY <1>2, <2>1, <3>1, <3>2
  <2>3. CASE ~x[2]
    <3> DEFINE a == (total - 1 - x[4]) - x[3]
    <3>1. a \in 0..(total - 1) /\ (total - 1 - a) - x[3] = x[4] /\ StepOf(x) = a + total
      BY <1>1, <2>1, <2>3
    <3>2. t = Task(a + total, x[3], (total - 1 - a) - x[3], FALSE, conf.stages)
      BY <2>1, <2>3, <3>1
    <3> HIDE DEF a
    <3> QED BY <1>2, <2>1, <3>1, <3>2
  <2> QED BY <2>1, <2>2, <2>3
<1>6. t \in T <=> \E x \in AllIds : x[1] = i /\ t = TaskOf(x)
  BY <1>2, <1>3, <1>4, <1>5
<1> QED BY <1>6, TaskFields DEF GPipeProgram, T
-----------------------------------------------------------------------------
(* The order of the tasks.                                                 *)
LEMMA SameStepSameWay ==
    ASSUME conf \in Confs, NEW x \in AllIds, NEW y \in AllIds, StepOf(x) = StepOf(y)
    PROVE  x[2] = y[2] /\ (x[4] = y[4] => x[3] = y[3])
<1>1. /\ x[2] \in BOOLEAN /\ x[3] \in Nat /\ x[4] \in Nat
      /\ x[2] => StepOf(x) = x[3] + x[4] /\ StepOf(x) < Total
      /\ ~x[2] => StepOf(x) = Total + ((Total - 1 - x[4]) - x[3]) /\ StepOf(x) >= Total
  BY IdParts, Shape
<1>2. /\ y[2] \in BOOLEAN /\ y[3] \in Nat /\ y[4] \in Nat
      /\ y[2] => StepOf(y) = y[3] + y[4] /\ StepOf(y) < Total
      /\ ~y[2] => StepOf(y) = Total + ((Total - 1 - y[4]) - y[3]) /\ StepOf(y) >= Total
  BY IdParts, Shape
<1>3. Total \in Nat /\ StepOf(x) \in Nat
  BY Shape, IdParts
<1> QED BY <1>1, <1>2, <1>3

LEMMA AheadOrder ==
    ASSUME conf \in Confs, NEW x \in AllIds, NEW y \in AllIds
    PROVE  /\ ~Ahead(x, x)
           /\ x = y \/ Ahead(x, y) \/ Ahead(y, x)
           /\ ~(Ahead(x, y) /\ Ahead(y, x))
<1>1. x[1] \in Nat /\ y[1] \in Nat /\ x[4] \in Nat /\ y[4] \in Nat
  BY IdParts
<1>2. StepOf(x) \in Nat /\ StepOf(y) \in Nat
  BY IdParts
<1>3. x = <<x[1], x[2], x[3], x[4]>> /\ y = <<y[1], y[2], y[3], y[4]>>
  BY IdParts
<1>4. x[1] = y[1] /\ StepOf(x) = StepOf(y) /\ x[4] = y[4] => x = y
  <2>1. SUFFICES ASSUME x[1] = y[1], StepOf(x) = StepOf(y), x[4] = y[4] PROVE x = y
    OBVIOUS
  <2>2. x[2] = y[2] /\ x[3] = y[3]
    BY <2>1, SameStepSameWay
  <2> QED BY <2>1, <2>2, <1>3, Zenon
<1> QED BY <1>1, <1>2, <1>4 DEF Ahead

LEMMA AheadTransitive ==
    ASSUME conf \in Confs, NEW x \in AllIds, NEW y \in AllIds, NEW z \in AllIds,
           Ahead(x, y), Ahead(y, z)
    PROVE  Ahead(x, z)
<1>1. x[1] \in Nat /\ y[1] \in Nat /\ z[1] \in Nat
  BY IdParts
<1>2. x[4] \in Nat /\ y[4] \in Nat /\ z[4] \in Nat
  BY IdParts
<1>3. StepOf(x) \in Nat /\ StepOf(y) \in Nat /\ StepOf(z) \in Nat
  BY IdParts
<1> QED BY <1>1, <1>2, <1>3 DEF Ahead

(* On a stage it is the order of the schedule.                             *)
LEMMA BeforeIsAhead ==
    ASSUME conf \in Confs, NEW x \in AllIds, NEW y \in AllIds, x[1] = y[1], At(x) = At(y)
    PROVE  /\ Before(TaskOf(x), TaskOf(y)) <=> Ahead(x, y)
           /\ TaskOf(x) = TaskOf(y) <=> x = y
<1>1. x[4] \in Nat /\ y[4] \in Nat /\ x[1] \in Nat /\ conf.stages \in Nat \ {0}
  BY IdParts, Shape
<1>2. (x[4] \div conf.stages) < (y[4] \div conf.stages) <=> x[4] < y[4]
  BY <1>1, LocalOrder DEF At
<1>3. Before(TaskOf(x), TaskOf(y)) <=> Ahead(x, y)
  BY <1>1, <1>2, TaskFields DEF Before, Ahead
<1>4. ASSUME TaskOf(x) = TaskOf(y) PROVE x = y
  <2>1. StepOf(x) = StepOf(y) /\ x[4] = y[4]
    BY <1>4, TaskFields
  <2>2. ~Ahead(x, y) /\ ~Ahead(y, x)
    BY <2>1, <1>1 , IdParts DEF Ahead
  <2> QED BY <2>2, AheadOrder
<1> QED BY <1>3, <1>4

-----------------------------------------------------------------------------
(* Where a result goes, and where an input comes from.                     *)
LEMMA OnwardIs ==
    ASSUME conf \in Confs, NEW x \in AllIds, Passes(x)
    PROVE  /\ Onward(x) \in AllIds /\ Accepts(Onward(x)) /\ Back(Onward(x)) = x
           /\ Onward(x)[1] = x[1] /\ At(Onward(x)) \in Stages
           /\ At(Onward(x)) = Target(At(x), TaskOf(x))
<1>1. /\ x = <<x[1], x[2], x[3], x[4]>>
      /\ x[1] \in 1..Iterations /\ x[2] \in BOOLEAN
      /\ x[3] \in 0..(conf.mbs - 1) /\ x[4] \in 0..(Chunks - 1)
  BY IdParts
<1> DEFINE K == Chunks
           c == IF x[2] THEN x[4] + 1 ELSE x[4] - 1
<1>2. K \in Nat \ {0} /\ conf.stages \in Nat \ {0, 1}
  BY Shape
<1>3. c \in 0..(K - 1) /\ (IF x[2] THEN c > 0 /\ c - 1 = x[4] ELSE c < K - 1 /\ c + 1 = x[4])
  <2>1. x[4] \in 0..(K - 1) /\ (IF x[2] THEN x[4] < K - 1 ELSE x[4] > 0)
    BY <1>1 DEF Passes
  <2> HIDE DEF K
  <2> QED BY <1>2, <2>1
<1> DEFINE y == <<x[1], x[2], x[3], c>>
<1>4. Onward(x) = y
  BY DEF Onward
<1>5. y \in AllIds
  BY <1>1, <1>3, IdIntro
<1>6. Accepts(y)
  BY <1>3 DEF Accepts
<1>7. Back(y) = x
  <2>1. (IF x[2] THEN c - 1 ELSE c + 1) = x[4]
    BY <1>3
  <2>2. Back(y) = <<x[1], x[2], x[3], IF x[2] THEN c - 1 ELSE c + 1>>
    BY DEF Back
  <2> QED BY <1>1, <2>1, <2>2, Zenon
<1>8. At(y) = Target(At(x), TaskOf(x))
  <2>1. At(y) = c % conf.stages /\ At(x) = x[4] % conf.stages
    BY DEF At
  <2>2. x[4] \in Nat /\ c \in Nat
    BY <1>1, <1>2, <1>3
  <2>3. CASE x[2]
    <3>1. c % conf.stages = IF x[4] % conf.stages = conf.stages - 1 THEN 0 ELSE (x[4] % conf.stages) + 1
      BY <1>2, <2>2, <2>3, NextResidue
    <3>2. Target(At(x), TaskOf(x)) = NextStage(At(x))
      BY <2>3, TaskFields DEF Target
    <3> QED BY <2>1, <3>1, <3>2 DEF NextStage
  <2>4. CASE ~x[2]
    <3>1. x[4] = c + 1
      BY <1>3, <2>4
    <3>2. (c + 1) % conf.stages = IF c % conf.stages = conf.stages - 1 THEN 0 ELSE (c % conf.stages) + 1
      BY <1>2, <2>2, NextResidue
    <3>3. c % conf.stages \in 0..(conf.stages - 1)
      BY <1>2, <2>2, Division
    <3>4. Target(At(x), TaskOf(x)) = PrevStage(At(x))
      BY <2>4, TaskFields DEF Target
    <3> HIDE DEF c
    <3> QED BY <1>2, <2>1, <3>1, <3>2, <3>3, <3>4 DEF PrevStage
  <2> QED BY <2>3, <2>4
<1>9. At(y) \in Stages
  BY <1>5, IdParts
<1> QED BY <1>4, <1>5, <1>6, <1>7, <1>8, <1>9

LEMMA BackIs ==
    ASSUME conf \in Confs, NEW z \in AllIds, Accepts(z)
    PROVE  /\ Back(z) \in AllIds /\ Passes(Back(z)) /\ Onward(Back(z)) = z
           /\ Back(z)[1] = z[1] /\ At(Back(z)) \in Stages
           /\ At(Back(z)) = Source(At(z), TaskOf(z))
<1>1. /\ z = <<z[1], z[2], z[3], z[4]>>
      /\ z[1] \in 1..Iterations /\ z[2] \in BOOLEAN
      /\ z[3] \in 0..(conf.mbs - 1) /\ z[4] \in 0..(Chunks - 1)
  BY IdParts
<1> DEFINE K == Chunks
           c == IF z[2] THEN z[4] - 1 ELSE z[4] + 1
<1>2. K \in Nat \ {0} /\ conf.stages \in Nat \ {0, 1}
  BY Shape
<1>3. c \in 0..(K - 1) /\ (IF z[2] THEN c < K - 1 /\ c + 1 = z[4] ELSE c > 0 /\ c - 1 = z[4])
  <2>1. z[4] \in 0..(K - 1) /\ (IF z[2] THEN z[4] > 0 ELSE z[4] < K - 1)
    BY <1>1 DEF Accepts
  <2> HIDE DEF K
  <2> QED BY <1>2, <2>1
<1> DEFINE y == <<z[1], z[2], z[3], c>>
<1>4. Back(z) = y
  BY DEF Back
<1>5. y \in AllIds
  BY <1>1, <1>3, IdIntro
<1>6. Passes(y)
  BY <1>3 DEF Passes
<1>7. Onward(y) = z
  <2>1. (IF z[2] THEN c + 1 ELSE c - 1) = z[4]
    BY <1>3
  <2>2. Onward(y) = <<z[1], z[2], z[3], IF z[2] THEN c + 1 ELSE c - 1>>
    BY DEF Onward
  <2> QED BY <1>1, <2>1, <2>2, Zenon
<1>8. At(y) = Source(At(z), TaskOf(z))
  <2>1. At(z) = Target(At(y), TaskOf(y)) /\ At(y) \in 0..(conf.stages - 1)
    BY <1>5, <1>6, <1>7, OnwardIs, IdParts DEF Stages
  <2>2. y[2] = z[2]
    OBVIOUS
  <2>3. Source(At(z), TaskOf(z)) = IF z[2] THEN PrevStage(At(z)) ELSE NextStage(At(z))
    BY TaskFields DEF Source
  <2>4. At(z) = IF z[2] THEN NextStage(At(y)) ELSE PrevStage(At(y))
    BY <2>1, <2>2, TaskFields DEF Target
  <2> HIDE DEF y
  <2> QED BY <1>1, <1>2, <2>1, <2>3, <2>4 DEF PrevStage, NextStage
<1>9. At(y) \in Stages
  BY <1>5, IdParts
<1> QED BY <1>4, <1>5, <1>6, <1>7, <1>8, <1>9

LEMMA OnwardSteps ==
    ASSUME conf \in Confs, NEW x \in AllIds, Passes(x)
    PROVE  /\ Onward(x)[2] = x[2] /\ StepOf(Onward(x)) = StepOf(x) + 1
           /\ Onward(x)[4] = IF x[2] THEN x[4] + 1 ELSE x[4] - 1
<1>1. x[2] \in BOOLEAN /\ x[3] \in Nat /\ x[4] \in Nat /\ Total \in Nat
  BY IdParts, Shape
<1>2. Onward(x)[2] = x[2] /\ Onward(x)[3] = x[3] /\ Onward(x)[4] = IF x[2] THEN x[4] + 1 ELSE x[4] - 1
  BY DEF Onward
<1> QED BY <1>1, <1>2 DEF StepOf

(* Results are wanted in the order in which they are produced.             *)
LEMMA OnwardAhead ==
    ASSUME conf \in Confs, NEW x \in AllIds, NEW y \in AllIds, Passes(x), Passes(y)
    PROVE  Ahead(Onward(x), Onward(y)) <=> Ahead(x, y)
<1>1. /\ Onward(x)[1] = x[1] /\ StepOf(Onward(x)) = StepOf(x) + 1
      /\ Onward(x)[4] = IF x[2] THEN x[4] + 1 ELSE x[4] - 1
  BY OnwardSteps DEF Onward
<1>2. /\ Onward(y)[1] = y[1] /\ StepOf(Onward(y)) = StepOf(y) + 1
      /\ Onward(y)[4] = IF y[2] THEN y[4] + 1 ELSE y[4] - 1
  BY OnwardSteps DEF Onward
<1>3. StepOf(x) = StepOf(y) => x[2] = y[2]
  BY SameStepSameWay
<1>4. StepOf(x) \in Nat /\ StepOf(y) \in Nat
  BY IdParts
<1>5. x[4] \in Nat /\ y[4] \in Nat /\ x[1] \in Nat /\ y[1] \in Nat
  BY IdParts
<1> QED BY <1>1, <1>2, <1>3, <1>4, <1>5 DEF Ahead
-----------------------------------------------------------------------------
(* A non-empty set of naturals has a least element.                        *)
LEMMA LeastNat ==
    ASSUME NEW T \in SUBSET Nat, T # {}
    PROVE  \E n \in T : \A m \in T : n <= m
<1> DEFINE R == OpToRel(<, Nat)
<1>1. \A m, n \in Nat : m < n => <<m, n>> \in R
  BY DEF OpToRel
<1>2. PICK n \in T : \A m \in T : <<m, n>> \notin R
  <2> HIDE DEF R
  <2> QED BY NatLessThanWellFounded, WFMin DEF R
<1> HIDE DEF R
<1>3. ASSUME NEW m \in T PROVE n <= m
  <2>1. m \in Nat /\ n \in Nat /\ ~(m < n)
    BY <1>1, <1>2, <1>3
  <2> QED BY <2>1
<1> QED BY <1>3

(* The operations of a stage in an iteration.                              *)
LEMMA StageOps ==
    ASSUME conf \in Confs, NEW s \in Stages, NEW i \in 1..Iterations, NEW o
    PROVE  o \in OpsOfStage(conf, s)
              <=> \E x \in AllIds : /\ x[1] = i /\ At(x) = s
                                    /\ o = RunOp(x) \/ (Passes(x) /\ o = SendOp(x))
<1> DEFINE program == GPipeProgram(conf.mbs, conf.stages, conf.vpp, s)
<1>1. o \in OpsOfStage(conf, s) <=>
        \E t \in program : \/ o = [op |-> "run", task |-> t]
                           \/ Sends(conf, t) /\ o = [op |-> "send", task |-> t]
  <2> HIDE DEF program
  <2> QED BY DEF OpsOfStage, program
<1>2. \A t : t \in program <=> \E x \in AllIds : x[1] = i /\ At(x) = s /\ t = TaskOf(x)
  BY ProgramIsIds
<1>3. \A x \in AllIds : Sends(conf, TaskOf(x)) = Passes(x)
  BY TaskFields DEF Sends, Passes, Chunks
<1> HIDE DEF program
<1> QED BY <1>1, <1>2, <1>3 DEF RunOp, SendOp

LEMMA OpsDiffer ==
    ASSUME conf \in Confs, NEW x \in AllIds, NEW y \in AllIds, x[1] = y[1], At(x) = At(y)
    PROVE  /\ RunOp(x) # SendOp(y) /\ SendOp(x) # RunOp(y)
           /\ RunOp(x) = RunOp(y) <=> x = y
           /\ SendOp(x) = SendOp(y) <=> x = y
BY BeforeIsAhead DEF RunOp, SendOp

LEMMA PrecedesIs ==
    ASSUME conf \in Confs, NEW x \in AllIds, NEW y \in AllIds, x[1] = y[1], At(x) = At(y)
    PROVE  /\ Precedes(RunOp(x), RunOp(y)) <=> Ahead(x, y)
           /\ Precedes(SendOp(x), SendOp(y)) <=> Ahead(x, y)
           /\ Precedes(RunOp(x), SendOp(y)) <=> Ahead(x, y) \/ x = y
           /\ Precedes(SendOp(x), RunOp(y)) <=> Ahead(x, y)
BY BeforeIsAhead DEF RunOp, SendOp, Precedes

(* Every set of ids has a first one.                                       *)
LEMMA FirstId ==
    ASSUME conf \in Confs, NEW X \in SUBSET AllIds, X # {}, NEW i \in Nat, \A x \in X : x[1] = i
    PROVE  \E x \in X : \A y \in X : y = x \/ Ahead(x, y)
<1> DEFINE T == {StepOf(x) : x \in X}
<1>1. T \in SUBSET Nat /\ T # {}
  BY IdParts
<1>2. PICK n \in T : \A m \in T : n <= m
  <2> HIDE DEF T
  <2> QED BY <1>1, LeastNat
<1> DEFINE Y == {x \in X : StepOf(x) = n}
           C == {x[4] : x \in Y}
<1>3. C \in SUBSET Nat /\ C # {}
  BY IdParts
<1>4. PICK c \in C : \A d \in C : c <= d
  BY <1>3, LeastNat
<1>5. PICK x \in Y : x[4] = c
  OBVIOUS
<1>6. ASSUME NEW y \in X PROVE y = x \/ Ahead(x, y)
  <2>1. StepOf(x) = n /\ StepOf(y) \in Nat /\ n <= StepOf(y) /\ n \in Nat
    BY <1>1, <1>2, <1>5, IdParts
  <2>2. StepOf(y) = n => x[4] <= y[4] /\ x[4] \in Nat /\ y[4] \in Nat
    BY <1>4, <1>5, IdParts
  <2>3. x \in AllIds /\ y \in AllIds /\ x[1] = y[1]
    BY <1>5
  <2>4. ~Ahead(y, x) \/ (StepOf(y) = n /\ y[4] < x[4]) \/ StepOf(y) < n \/ y[1] < x[1]
    BY <2>1 DEF Ahead
  <2>5. ~Ahead(y, x)
    BY <2>1, <2>2, <2>3, <2>4
  <2> QED BY <2>3, <2>5, AheadOrder
<1> QED BY <1>5, <1>6
-----------------------------------------------------------------------------
(* What a stage has done of its operations, it has done in order.          *)
LEMMA StageOrder ==
    ASSUME Types, OpsInv, NEW x \in AllIds, NEW y \in AllIds, At(x) = At(y)
    PROVE  /\ HasRun(x) /\ Ahead(y, x) => HasRun(y) /\ (Passes(y) => HasSent(y))
           /\ Passes(x) /\ HasSent(x) => HasRun(x)
<1> DEFINE s == At(x)
<1>1. /\ conf \in Confs /\ s \in Stages /\ iter[s] \in 1..Iterations
      /\ x[1] \in 1..Iterations /\ y[1] \in 1..Iterations
  BY IdParts DEF Types
<1>2. ASSUME x[1] = iter[s], y[1] = x[1], RunOp(y) \in ops[s] \/ SendOp(y) \in ops[s],
             Ahead(y, x)
      PROVE  RunOp(x) \in ops[s]
  <2>1. RunOp(x) \in OpsOfStage(conf, s)
    BY <1>1, StageOps
  <2>2. Precedes(RunOp(y), RunOp(x)) /\ Precedes(SendOp(y), RunOp(x))
    BY <1>1, <1>2, PrecedesIs
  <2> HIDE DEF s
  <2> QED BY <1>1, <1>2, <2>1, <2>2 DEF OpsInv
<1>3. ASSUME x[1] = iter[s], Passes(x), RunOp(x) \in ops[s]
      PROVE  SendOp(x) \in ops[s]
  <2>1. SendOp(x) \in OpsOfStage(conf, s)
    BY <1>1, <1>3, StageOps
  <2>2. Precedes(RunOp(x), SendOp(x))
    BY <1>1, PrecedesIs
  <2> HIDE DEF s
  <2> QED BY <1>1, <1>3, <2>1, <2>2 DEF OpsInv
<1>4. ASSUME HasRun(x), Ahead(y, x) PROVE HasRun(y) /\ (Passes(y) => HasSent(y))
  <2>1. y[1] < x[1] \/ y[1] = x[1]
    BY <1>4 DEF Ahead
  <2>2. x[1] < iter[s] \/ (x[1] = iter[s] /\ RunOp(x) \notin ops[s])
    BY <1>4 DEF HasRun
  <2>3. y[1] < iter[s] \/ (y[1] = iter[s] /\ RunOp(y) \notin ops[s] /\ SendOp(y) \notin ops[s])
    <3> HIDE DEF s
    <3> QED BY <1>1, <1>2, <1>4, <2>1, <2>2
  <2> QED BY <2>3 DEF HasRun, HasSent
<1>5. ASSUME Passes(x), HasSent(x) PROVE HasRun(x)
  BY <1>3, <1>5 DEF HasSent, HasRun
<1> QED BY <1>4, <1>5

(* The task whose turn it is on a stage.                                   *)
Turn(s, x) ==
    /\ x \in AllIds /\ x[1] = iter[s] /\ At(x) = s
    /\ \A y \in AllIds :
          At(y) = s /\ Ahead(y, x) => HasRun(y) /\ (Passes(y) => HasSent(y))
RunTurn(s, x)  == Turn(s, x) /\ NextOp(s) = RunOp(x) /\ ~HasRun(x)
SendTurn(s, x) ==
    Turn(s, x) /\ NextOp(s) = SendOp(x) /\ Passes(x) /\ HasRun(x) /\ ~HasSent(x)

LEMMA NextOpIs ==
    ASSUME Types, OpsInv, NEW s \in Stages, ops[s] # {}
    PROVE  /\ NextOp(s) \in ops[s]
           /\ \A q \in ops[s] \ {NextOp(s)} : Precedes(NextOp(s), q)
           /\ \E x \in AllIds : /\ x[1] = iter[s] /\ At(x) = s
                                /\ NextOp(s) = RunOp(x) \/ (Passes(x) /\ NextOp(s) = SendOp(x))
<1>1. conf \in Confs /\ iter[s] \in 1..Iterations /\ ops[s] \subseteq OpsOfStage(conf, s)
  BY DEF Types, OpsInv
<1> DEFINE X == {x \in AllIds : /\ x[1] = iter[s] /\ At(x) = s
                                /\ RunOp(x) \in ops[s] \/ (Passes(x) /\ SendOp(x) \in ops[s])}
<1>2. ASSUME NEW q \in ops[s]
      PROVE  \E y \in X : q = RunOp(y) \/ (Passes(y) /\ q = SendOp(y))
  <2>1. PICK y \in AllIds : /\ y[1] = iter[s] /\ At(y) = s
                            /\ q = RunOp(y) \/ (Passes(y) /\ q = SendOp(y))
    BY <1>1, <1>2, StageOps
  <2> QED BY <2>1
<1>3. PICK x \in X : \A y \in X : y = x \/ Ahead(x, y)
  <2>1. X \in SUBSET AllIds /\ (\A y \in X : y[1] = iter[s]) /\ iter[s] \in Nat
    BY <1>1
  <2>2. X # {}
    BY <1>2
  <2> HIDE DEF X
  <2> QED BY <1>1, <2>1, <2>2, FirstId
<1> DEFINE o == IF RunOp(x) \in ops[s] THEN RunOp(x) ELSE SendOp(x)
<1>4. o \in ops[s] /\ x \in AllIds /\ x[1] = iter[s] /\ At(x) = s
  OBVIOUS
<1>5. ASSUME NEW q \in ops[s] \ {o} PROVE Precedes(o, q)
  <2>1. PICK y \in X : q = RunOp(y) \/ (Passes(y) /\ q = SendOp(y))
    BY <1>2
  <2>2. y \in AllIds /\ y[1] = x[1] /\ At(y) = At(x)
    BY <1>4
  <2>3. CASE Ahead(x, y)
    BY <1>1, <1>4, <2>1, <2>2, <2>3, PrecedesIs
  <2>4. CASE y = x
    <3>1. RunOp(x) \in ops[s] /\ q = SendOp(x)
      BY <1>4, <1>5, <2>1, <2>4
    <3> QED BY <1>1, <1>4, <3>1, PrecedesIs
  <2> QED BY <1>3, <2>3, <2>4
<1>6. NextOp(s) \in ops[s] /\ \A q \in ops[s] \ {NextOp(s)} : Precedes(NextOp(s), q)
  <2> HIDE DEF o
  <2> QED BY <1>4, <1>5 DEF NextOp
<1> QED BY <1>1, <1>6, StageOps

LEMMA WhoseTurn ==
    ASSUME Types, OpsInv, NEW s \in Stages, ops[s] # {}
    PROVE  \E x \in AllIds : RunTurn(s, x) \/ SendTurn(s, x)
<1> DEFINE n == NextOp(s)
<1>1. PICK x \in AllIds : x[1] = iter[s] /\ At(x) = s /\ (n = RunOp(x) \/ (Passes(x) /\ n = SendOp(x)))
  BY NextOpIs
<1>2. n \in ops[s] /\ \A q \in ops[s] \ {n} : Precedes(n, q)
  BY NextOpIs
<1>3. conf \in Confs /\ iter[s] \in Nat
  BY DEF Types
<1> HIDE DEF n
<1>4. ASSUME NEW y \in AllIds, At(y) = s, Ahead(y, x) PROVE HasRun(y) /\ HasSent(y)
  <2>1. y[1] < iter[s] \/ y[1] = iter[s]
    BY <1>1, <1>4 DEF Ahead
  <2>2. CASE y[1] < iter[s]
    BY <1>4, <2>2 DEF HasRun, HasSent
  <2>3. CASE y[1] = iter[s]
    <3>1. ~Ahead(x, y) /\ x # y
      BY <1>3, <1>4, AheadOrder
    <3>2. ~Precedes(n, RunOp(y)) /\ ~Precedes(n, SendOp(y)) /\ n # RunOp(y) /\ n # SendOp(y)
      BY <1>1, <1>3, <1>4, <2>3, <3>1, PrecedesIs, OpsDiffer
    <3>3. RunOp(y) \notin ops[s] /\ SendOp(y) \notin ops[s]
      BY <1>2, <3>2
    <3> QED BY <1>4, <2>3, <3>3 DEF HasRun, HasSent
  <2> QED BY <2>1, <2>2, <2>3
<1>5. Turn(s, x)
  BY <1>1, <1>4 DEF Turn
<1>6. CASE n = RunOp(x)
  <2>1. ~HasRun(x)
    BY <1>1, <1>2, <1>3, <1>6 DEF HasRun
  <2> QED BY <1>5, <1>6, <2>1 DEF RunTurn, n
<1>7. CASE Passes(x) /\ n = SendOp(x)
  <2>1. ~HasSent(x)
    BY <1>1, <1>2, <1>3, <1>7 DEF HasSent
  <2>2. RunOp(x) # n /\ ~Precedes(n, RunOp(x))
    BY <1>3, <1>7, OpsDiffer, PrecedesIs, AheadOrder
  <2>3. HasRun(x)
    BY <1>1, <1>2, <2>2 DEF HasRun
  <2> QED BY <1>5, <1>7, <2>1, <2>3 DEF SendTurn, n
<1> QED BY <1>1, <1>6, <1>7

LEMMA TurnToRun ==
    ASSUME Types, OpsInv, NEW s \in Stages, ToRun(s)
    PROVE  \E x \in AllIds : RunTurn(s, x) /\ NextOp(s).task = TaskOf(x)
<1>1. ops[s] # {} /\ NextOp(s).op = "run"
  BY DEF ToRun
<1>2. PICK x \in AllIds : RunTurn(s, x) \/ SendTurn(s, x)
  BY <1>1, WhoseTurn
<1> QED BY <1>1, <1>2 DEF RunTurn, SendTurn, RunOp, SendOp

LEMMA TurnToSend ==
    ASSUME Types, OpsInv, NEW s \in Stages, ToSend(s)
    PROVE  \E x \in AllIds : SendTurn(s, x) /\ NextOp(s).task = TaskOf(x)
<1>1. ops[s] # {} /\ NextOp(s).op = "send"
  BY DEF ToSend
<1>2. PICK x \in AllIds : RunTurn(s, x) \/ SendTurn(s, x)
  BY <1>1, WhoseTurn
<1> QED BY <1>1, <1>2 DEF RunTurn, SendTurn, RunOp, SendOp
-----------------------------------------------------------------------------
(* What a step changes.  The ids, their places and their operations are    *)
(* those of the configuration, which no step changes.                      *)
LEMMA Frame ==
    ASSUME conf' = conf
    PROVE  /\ AllIds' = AllIds /\ Stages' = Stages /\ Chunks' = Chunks
           /\ \A s : OpsOfStage(conf, s)' = OpsOfStage(conf, s)
           /\ \A x : /\ At(x)' = At(x) /\ Passes(x)' = Passes(x)
                     /\ RunOp(x)' = RunOp(x) /\ SendOp(x)' = SendOp(x)
                     /\ Wanted(x)' = Wanted(x) /\ StepOf(x)' = StepOf(x)
           /\ \A x, y : Ahead(x, y)' = Ahead(x, y)
<1>1. Chunks' = Chunks /\ Stages' = Stages
  BY DEF Chunks, Stages
<1>2. AllIds' = AllIds /\ Total' = Total
  BY <1>1 DEF AllIds, Total
<1>3. \A x : StepOf(x)' = StepOf(x)
  BY <1>2 DEF StepOf
<1>4. \A x : At(x)' = At(x) /\ Passes(x)' = Passes(x) /\ Wanted(x)' = Wanted(x)
  BY <1>1 DEF At, Passes, Wanted
<1>5. \A x : TaskOf(x)' = TaskOf(x)
  BY <1>3 DEF TaskOf
<1>6. \A x : RunOp(x)' = RunOp(x) /\ SendOp(x)' = SendOp(x)
  BY <1>5 DEF RunOp, SendOp
<1>7. \A x, y : Ahead(x, y)' = Ahead(x, y)
  BY <1>3 DEF Ahead
<1>8. \A s : OpsOfStage(conf, s)' = OpsOfStage(conf, s)
  OBVIOUS
<1> QED BY <1>1, <1>2, <1>3, <1>4, <1>6, <1>7, <1>8

(* The step makes the tasks of R run and the results of S be sent.         *)
Makes(R, S) ==
    /\ conf' = conf
    /\ \A y \in AllIds : HasRun(y)' <=> HasRun(y) \/ y \in R
    /\ \A y \in AllIds : Passes(y) => (HasSent(y)' <=> HasSent(y) \/ y \in S)

(* The same of the tasks of one stage, and the order of its operations.    *)
MakesAt(s, R, S) ==
    /\ \A y \in AllIds : At(y) = s => (HasRun(y)' <=> HasRun(y) \/ y \in R)
    /\ \A y \in AllIds : At(y) = s /\ Passes(y) => (HasSent(y)' <=> HasSent(y) \/ y \in S)
    /\ ops'[s] \subseteq OpsOfStage(conf, s)
    /\ \A o \in ops'[s] : \A q \in OpsOfStage(conf, s) : Precedes(o, q) => q \in ops'[s]

LEMMA OpsAsymmetric ==
    ASSUME conf \in Confs, NEW s \in Stages, NEW i \in 1..Iterations,
           NEW o \in OpsOfStage(conf, s), NEW q \in OpsOfStage(conf, s), Precedes(o, q)
    PROVE  ~Precedes(q, o)
<1>1. PICK x \in AllIds : /\ x[1] = i /\ At(x) = s
                          /\ o = RunOp(x) \/ (Passes(x) /\ o = SendOp(x))
  BY StageOps
<1>2. PICK y \in AllIds : /\ y[1] = i /\ At(y) = s
                          /\ q = RunOp(y) \/ (Passes(y) /\ q = SendOp(y))
  BY StageOps
<1>3. ~(Ahead(x, y) /\ Ahead(y, x)) /\ ~Ahead(x, x)
  BY AheadOrder
<1> QED BY <1>1, <1>2, <1>3, PrecedesIs

LEMMA RestOrdered ==
    ASSUME Types, OpsInv, NEW s \in Stages, ops[s] # {}, NEW o \in Rest(s),
           NEW q \in OpsOfStage(conf, s), Precedes(o, q)
    PROVE  q \in Rest(s)
<1>1. o \in ops[s] /\ NextOp(s) \in ops[s] /\ ops[s] \subseteq OpsOfStage(conf, s) /\ q \in ops[s]
  BY NextOpIs DEF Rest, OpsInv
<1>2. Precedes(NextOp(s), o)
  BY NextOpIs DEF Rest
<1>3. conf \in Confs /\ iter[s] \in 1..Iterations
  BY DEF Types
<1>4. q # NextOp(s)
  BY <1>1, <1>2, <1>3, OpsAsymmetric
<1> QED BY <1>1, <1>4 DEF Rest

LEMMA RunMakes ==
    ASSUME Types, OpsInv, conf' = conf, iter' = iter,
           NEW s \in Stages, NEW x, RunTurn(s, x), ops[s] # {}, ops'[s] = Rest(s)
    PROVE  MakesAt(s, {x}, {})
<1>1. /\ x \in AllIds /\ x[1] = iter[s] /\ At(x) = s /\ NextOp(s) = RunOp(x)
      /\ conf \in Confs /\ ops[s] \subseteq OpsOfStage(conf, s)
  BY DEF RunTurn, Turn, Types, OpsInv
<1>2. ASSUME NEW y \in AllIds, At(y) = s
      PROVE  (HasRun(y)' <=> HasRun(y) \/ y = x) /\ (HasSent(y)' <=> HasSent(y))
  <2>1. /\ HasRun(y)' <=> y[1] < iter[s] \/ (y[1] = iter[s] /\ RunOp(y) \notin Rest(s))
        /\ HasSent(y)' <=> y[1] < iter[s] \/ (y[1] = iter[s] /\ SendOp(y) \notin Rest(s))
    BY <1>2, Frame DEF HasRun, HasSent
  <2>2. /\ HasRun(y) <=> y[1] < iter[s] \/ (y[1] = iter[s] /\ RunOp(y) \notin ops[s])
        /\ HasSent(y) <=> y[1] < iter[s] \/ (y[1] = iter[s] /\ SendOp(y) \notin ops[s])
    BY <1>2 DEF HasRun, HasSent
  <2>3. y[1] = iter[s] => SendOp(y) # NextOp(s) /\ (RunOp(y) = NextOp(s) <=> y = x)
    BY <1>1, <1>2, OpsDiffer
  <2> QED BY <1>1, <2>1, <2>2, <2>3 DEF Rest
<1>3. Rest(s) \subseteq OpsOfStage(conf, s)
  BY <1>1 DEF Rest
<1> QED BY <1>2, <1>3, RestOrdered DEF MakesAt

LEMMA SendMakes ==
    ASSUME Types, OpsInv, conf' = conf, iter' = iter,
           NEW s \in Stages, NEW x, SendTurn(s, x), ops[s] # {}, ops'[s] = Rest(s)
    PROVE  MakesAt(s, {}, {x})
<1>1. /\ x \in AllIds /\ x[1] = iter[s] /\ At(x) = s /\ NextOp(s) = SendOp(x)
      /\ conf \in Confs /\ ops[s] \subseteq OpsOfStage(conf, s)
  BY DEF SendTurn, Turn, Types, OpsInv
<1>2. ASSUME NEW y \in AllIds, At(y) = s
      PROVE  (HasRun(y)' <=> HasRun(y)) /\ (HasSent(y)' <=> HasSent(y) \/ y = x)
  <2>1. /\ HasRun(y)' <=> y[1] < iter[s] \/ (y[1] = iter[s] /\ RunOp(y) \notin Rest(s))
        /\ HasSent(y)' <=> y[1] < iter[s] \/ (y[1] = iter[s] /\ SendOp(y) \notin Rest(s))
    BY <1>2, Frame DEF HasRun, HasSent
  <2>2. /\ HasRun(y) <=> y[1] < iter[s] \/ (y[1] = iter[s] /\ RunOp(y) \notin ops[s])
        /\ HasSent(y) <=> y[1] < iter[s] \/ (y[1] = iter[s] /\ SendOp(y) \notin ops[s])
    BY <1>2 DEF HasRun, HasSent
  <2>3. y[1] = iter[s] => RunOp(y) # NextOp(s) /\ (SendOp(y) = NextOp(s) <=> y = x)
    BY <1>1, <1>2, OpsDiffer
  <2> QED BY <1>1, <2>1, <2>2, <2>3 DEF Rest
<1>3. Rest(s) \subseteq OpsOfStage(conf, s)
  BY <1>1 DEF Rest
<1> QED BY <1>2, <1>3, RestOrdered DEF MakesAt

LEMMA NothingMade ==
    ASSUME Types, OpsInv, conf' = conf, NEW s \in Stages, iter'[s] = iter[s], ops'[s] = ops[s]
    PROVE  MakesAt(s, {}, {})
<1>1. ASSUME NEW y \in AllIds, At(y) = s
      PROVE  (HasRun(y)' <=> HasRun(y)) /\ (HasSent(y)' <=> HasSent(y))
  <2>1. /\ HasRun(y)' <=> y[1] < iter[s] \/ (y[1] = iter[s] /\ RunOp(y) \notin ops[s])
        /\ HasSent(y)' <=> y[1] < iter[s] \/ (y[1] = iter[s] /\ SendOp(y) \notin ops[s])
    BY <1>1, Frame DEF HasRun, HasSent
  <2> QED BY <1>1, <2>1 DEF HasRun, HasSent
<1> QED BY <1>1 DEF MakesAt, OpsInv

(* A new training step makes nothing run and sends nothing.                *)
LEMMA StartMakes ==
    ASSUME Types, OpsInv, conf' = conf, NEW s \in Stages, ops[s] = {}, iter[s] < Iterations,
           iter'[s] = iter[s] + 1, ops'[s] = OpsOfStage(conf, s)
    PROVE  MakesAt(s, {}, {})
<1>1. conf \in Confs /\ iter[s] \in 1..Iterations /\ Iterations \in Nat
  BY PipelineAssumption DEF Types
<1>2. ASSUME NEW y \in AllIds, At(y) = s
      PROVE  (HasRun(y)' <=> HasRun(y)) /\ (Passes(y) => (HasSent(y)' <=> HasSent(y)))
  <2>1. /\ HasRun(y)' <=> \/ y[1] < iter[s] + 1
                          \/ (y[1] = iter[s] + 1 /\ RunOp(y) \notin OpsOfStage(conf, s))
        /\ HasSent(y)' <=> \/ y[1] < iter[s] + 1
                           \/ (y[1] = iter[s] + 1 /\ SendOp(y) \notin OpsOfStage(conf, s))
    BY <1>2, Frame DEF HasRun, HasSent
  <2>2. y[1] = iter[s] + 1 =>
            RunOp(y) \in OpsOfStage(conf, s) /\ (Passes(y) => SendOp(y) \in OpsOfStage(conf, s))
    BY <1>1, <1>2, StageOps
  <2>3. y[1] \in Nat
    BY <1>1, IdParts
  <2> QED BY <1>1, <1>2, <2>1, <2>2, <2>3 DEF HasRun, HasSent
<1> QED BY <1>2 DEF MakesAt

LEMMA MadeByStages ==
    ASSUME Types, conf' = conf, DOMAIN ops' = Stages, NEW R, NEW S,
           \A s \in Stages : MakesAt(s, R, S)
    PROVE  Makes(R, S) /\ OpsInv'
<1>1. \A y \in AllIds : At(y) \in Stages
  BY IdParts DEF Types
<1>2. Makes(R, S)
  BY <1>1 DEF Makes, MakesAt
<1>3. OpsInv'
  BY Frame DEF OpsInv, MakesAt
<1> QED BY <1>2, <1>3
LEMMA MadeElsewhere ==
    ASSUME NEW s \in Stages, MakesAt(s, {}, {}), NEW R, NEW S,
           \A x \in R \cup S : At(x) # s
    PROVE  MakesAt(s, R, S)
BY DEF MakesAt

(* What follows for the records of what has run, for the order of sends    *)
(* and receives and for what is under way.                                 *)
LEMMA RanFollows ==
    ASSUME Types, RanInv, NEW R \in SUBSET AllIds, NEW S, Makes(R, S),
           NEW M, ran' = ran \cup M, \A x \in R : \E e \in M : e[1] = x,
           \A e \in M : e \in AllIds \X (AllIds \cup {NoMessage}) /\ e[1] \in R /\ e[2] = Wanted(e[1])
    PROVE  RanInv'
<1>1. conf' = conf /\ \A y \in AllIds : HasRun(y)' <=> HasRun(y) \/ y \in R
  BY DEF Makes
<1>2. ASSUME NEW e \in ran'
      PROVE  e \in AllIds \X (AllIds \cup {NoMessage}) /\ e[2] = Wanted(e[1])
  BY DEF RanInv
<1>3. \A y \in AllIds : HasRun(y)' <=> \E e \in ran' : e[1] = y
  BY <1>1 DEF RanInv
<1> QED BY <1>1, <1>2, <1>3, Frame DEF RanInv

LEMMA CausalFollows ==
    ASSUME Types, CausalInv, NEW R, NEW S, Makes(R, S),
           \A y \in AllIds : Passes(y) /\ Onward(y) \in R => HasSent(y) \/ y \in S
    PROVE  CausalInv'
<1>1. /\ conf' = conf /\ conf \in Confs
      /\ \A y \in AllIds : HasRun(y)' <=> HasRun(y) \/ y \in R
      /\ \A y \in AllIds : Passes(y) => (HasSent(y)' <=> HasSent(y) \/ y \in S)
  BY DEF Makes, Types
<1>2. ASSUME NEW y \in AllIds, Passes(y), HasRun(Onward(y))'
      PROVE  HasSent(y)'
  <2>1. Onward(y) \in AllIds
    BY <1>1, <1>2, OnwardIs
  <2>2. HasRun(Onward(y)) \/ Onward(y) \in R
    BY <1>1, <1>2, <2>1
  <2> QED BY <1>1, <1>2, <2>2 DEF CausalInv
<1> QED BY <1>1, <1>2, Frame DEF CausalInv

LEMMA UnderwayFollows ==
    ASSUME Types, NEW R, NEW S, Makes(R, S), NEW s \in Stages, NEW d \in Stages
    PROVE  Underway(s, d)' =
              {x \in AllIds : /\ Passes(x) /\ At(x) = s /\ At(Onward(x)) = d
                              /\ HasSent(x) \/ x \in S
                              /\ ~HasRun(Onward(x)) /\ Onward(x) \notin R}
<1>1. /\ conf' = conf /\ conf \in Confs
      /\ \A y \in AllIds : HasRun(y)' <=> HasRun(y) \/ y \in R
      /\ \A y \in AllIds : Passes(y) => (HasSent(y)' <=> HasSent(y) \/ y \in S)
  BY DEF Makes, Types
<1>2. \A x \in AllIds : Passes(x) => Onward(x) \in AllIds
  BY <1>1, OnwardIs
<1>3. Underway(s, d)' = {x \in AllIds : /\ Passes(x) /\ At(x) = s /\ At(Onward(x)) = d
                                        /\ HasSent(x)' /\ ~HasRun(Onward(x))'}
  BY <1>1, Frame DEF Underway
<1> QED BY <1>1, <1>2, <1>3

-----------------------------------------------------------------------------
(* Sequences that list a set in order.                                     *)
LEMMA ListsNothing ==
    ASSUME NEW q \in Seq(AllIds), NEW S, Lists(q, S)
    PROVE  q = <<>> <=> S = {}
<1>1. q # <<>> => 1 \in DOMAIN q
  OBVIOUS
<1>2. q = <<>> => DOMAIN q = {}
  OBVIOUS
<1> QED BY <1>1, <1>2 DEF Lists

LEMMA ListsOneMore ==
    ASSUME NEW q \in Seq(AllIds), NEW S, Lists(q, S), NEW x \in AllIds, \A y \in S : Ahead(y, x)
    PROVE  Lists(Append(q, x), S \cup {x})
<1> DEFINE r == Append(q, x)
           n == Len(q) + 1
<1>1. /\ r \in Seq(AllIds) /\ DOMAIN q = 1..Len(q) /\ DOMAIN r = 1..n /\ Len(q) \in Nat
      /\ r[n] = x /\ \A k \in 1..Len(q) : r[k] = q[k] /\ k \in 1..n /\ k < n
  BY AppendProperties
<1> HIDE DEF r
<1>2. ASSUME NEW k \in 1..n PROVE k = n \/ k \in 1..Len(q)
  BY <1>1
<1>3. ASSUME NEW k \in 1..n PROVE r[k] \in S \cup {x}
  BY <1>1, <1>2 DEF Lists
<1>4. ASSUME NEW y \in S \cup {x} PROVE \E k \in 1..n : r[k] = y
  BY <1>1 DEF Lists
<1>5. ASSUME NEW j \in 1..n, NEW k \in 1..n, j < k PROVE Ahead(r[j], r[k])
  <2>1. j \in 1..Len(q) /\ r[j] = q[j] /\ q[j] \in S
    BY <1>1, <1>2, <1>5 DEF Lists
  <2>2. CASE k = n
    BY <1>1, <2>1, <2>2
  <2>3. CASE k \in 1..Len(q)
    BY <1>1, <1>5, <2>1, <2>3 DEF Lists
  <2> QED BY <1>2, <2>2, <2>3
<1>6. Lists(r, S \cup {x})
  BY <1>1, <1>3, <1>4, <1>5 DEF Lists
<1> QED BY <1>6 DEF r

LEMMA ListsTheRest ==
    ASSUME conf \in Confs, NEW q \in Seq(AllIds), NEW S, Lists(q, S), q # <<>>
    PROVE  /\ Head(q) \in S /\ \A y \in S : y = Head(q) \/ Ahead(Head(q), y)
           /\ Lists(Tail(q), S \ {Head(q)})
<1> DEFINE r == Tail(q)
           n == Len(q) - 1
<1>1. /\ r \in Seq(AllIds) /\ DOMAIN q = 1..Len(q) /\ DOMAIN r = 1..n /\ n \in Nat
      /\ Head(q) = q[1] /\ \A k \in 1..n : r[k] = q[k + 1] /\ k + 1 \in 1..Len(q) /\ 1 < k + 1
      /\ 1 \in 1..Len(q)
  BY HeadTailProperties
<1> HIDE DEF r
<1>2. ASSUME NEW y \in S, y # q[1] PROVE \E k \in 1..n : r[k] = y
  <2>1. PICK k \in 1..Len(q) : q[k] = y
    BY <1>1 DEF Lists
  <2>2. k - 1 \in 1..n /\ (k - 1) + 1 = k
    BY <1>1, <1>2, <2>1
  <2> QED BY <1>1, <2>1, <2>2
<1>3. ASSUME NEW k \in 1..n PROVE r[k] \in S /\ Ahead(q[1], r[k]) /\ r[k] \in AllIds
  BY <1>1 DEF Lists
<1>4. q[1] \in S /\ q[1] \in AllIds
  BY <1>1 DEF Lists
<1>5. ASSUME NEW k \in 1..n PROVE r[k] \in S \ {q[1]}
  BY <1>3, <1>4, AheadOrder
<1>6. ASSUME NEW j \in 1..n, NEW k \in 1..n, j < k PROVE Ahead(r[j], r[k])
  <2>1. j + 1 \in 1..Len(q) /\ k + 1 \in 1..Len(q) /\ j + 1 < k + 1
    BY <1>1, <1>6
  <2> QED BY <1>1, <2>1, SMTT(20) DEF Lists
<1>7. Lists(r, S \ {q[1]})
  BY <1>1, <1>2, <1>5, <1>6 DEF Lists
<1>8. \A y \in S : y = q[1] \/ Ahead(q[1], y)
  BY <1>2, <1>3
<1> QED BY <1>1, <1>4, <1>7, <1>8 DEF r
LEMMA ChanFollows ==
    ASSUME conf' = conf,
           \A s, d \in Stages : Lists(chan'[s][d], Underway(s, d)') /\ Len(chan'[s][d]) <= conf.capacity
    PROVE  ChanInv'
<1>1. Stages' = Stages /\ \A x, y : Ahead(x, y)' = Ahead(x, y)
  BY Frame
<1>2. ASSUME NEW s \in Stages, NEW d \in Stages
      PROVE  Lists(chan[s][d], Underway(s, d))' /\ (Len(chan[s][d]) <= conf.capacity)'
  <2>1. Lists(chan'[s][d], Underway(s, d)')
    OBVIOUS
  <2>2. Lists(chan[s][d], Underway(s, d))'
    BY <1>1, <2>1 DEF Lists
  <2> QED BY <2>2
<1> QED BY <1>1, <1>2 DEF ChanInv

LEMMA WantedIs ==
    ASSUME conf \in Confs, NEW x \in AllIds
    PROVE  /\ Wanted(x) = IF Accepts(x) THEN Back(x) ELSE NoMessage
           /\ Wanted(x) \in AllIds \cup {NoMessage}
<1>1. x[2] \in BOOLEAN /\ x[4] \in 0..(Chunks - 1) /\ Chunks \in Nat \ {0}
  BY IdParts, Shape
<1>2. Wanted(x) = IF Accepts(x) THEN Back(x) ELSE NoMessage
  <2>1. CASE x[2]
    <3>1. Accepts(x) <=> ~(x[4] = 0)
      BY <1>1, <2>1 DEF Accepts
    <3> QED BY <1>1, <2>1, <3>1 DEF Wanted, Back
  <2>2. CASE ~x[2]
    <3>1. Accepts(x) <=> ~(x[4] = Chunks - 1)
      BY <1>1, <2>2 DEF Accepts
    <3> QED BY <1>1, <2>2, <3>1 DEF Wanted, Back
  <2> QED BY <2>1, <2>2
<1> QED BY <1>2, BackIs

(* The task whose turn it is, in the terms of the actions.                 *)
LEMMA TurnTask ==
    ASSUME Types, NEW s \in Stages, NEW x, Turn(s, x), NextOp(s).task = TaskOf(x)
    PROVE  /\ Id(s, NextOp(s).task) = x
           /\ Receives(conf, NextOp(s).task) <=> Accepts(x)
           /\ Passes(x) => Target(s, NextOp(s).task) = At(Onward(x)) /\ At(Onward(x)) \in Stages
           /\ Accepts(x) => Source(s, NextOp(s).task) = At(Back(x)) /\ At(Back(x)) \in Stages
<1>1. conf \in Confs /\ x \in AllIds /\ x[1] = iter[s] /\ At(x) = s
  BY DEF Types, Turn
<1>2. Id(s, NextOp(s).task) = <<x[1], x[2], x[3], x[4]>>
  BY <1>1, TaskFields DEF Id
<1>3. Receives(conf, NextOp(s).task) <=> Accepts(x)
  BY <1>1, TaskFields DEF Receives, Accepts, Chunks
<1> QED BY <1>1, <1>2, <1>3, IdParts, OnwardIs, BackIs

(* A step either leaves what has run alone or runs one task whose inputs   *)
(* are there, on what it wants.                                            *)
Forward(x) == <<x[1], TRUE, x[3], x[4]>>
RunsOne(x) ==
    /\ x \in AllIds /\ ~HasRun(x)
    /\ ran' = ran \cup {<<x, Wanted(x)>>}
    /\ Accepts(x) => HasRun(Back(x))
    /\ ~x[2] => HasRun(Forward(x))
Stepped == conf' = conf /\ (ran' = ran \/ \E x : RunsOne(x))

LEMMA ForwardFirst ==
    ASSUME Types, NEW s \in Stages, NEW x, Turn(s, x), ~x[2]
    PROVE  HasRun(Forward(x))
<1>1. conf \in Confs /\ x \in AllIds /\ At(x) = s
  BY DEF Turn, Types
<1> DEFINE y == Forward(x)
<1>2. /\ x[1] \in 1..Iterations /\ x[3] \in 0..(conf.mbs - 1) /\ x[4] \in 0..(Chunks - 1)
      /\ StepOf(x) >= Total
  BY <1>1, IdParts
<1>3. y \in AllIds /\ y[2] /\ y[1] = x[1] /\ At(y) = s
  BY <1>1, <1>2, IdIntro DEF At, Forward
<1> HIDE DEF y
<1>4. StepOf(y) < Total /\ StepOf(x) \in Nat /\ StepOf(y) \in Nat /\ Total \in Nat
  BY <1>1, <1>3, IdParts, Shape
<1>5. Ahead(y, x)
  BY <1>2, <1>3, <1>4 DEF Ahead
<1> QED BY <1>1, <1>3, <1>5 DEF Turn, y

(* A step that takes one operation off one stage.                          *)
LEMMA RunAdvances ==
    ASSUME IInv, NEW s \in Stages, NEW x, RunTurn(s, x), ops[s] # {},
           ops' = Advanced(s), conf' = conf, iter' = iter
    PROVE  Makes({x}, {}) /\ OpsInv'
<1> USE DEF IInv
<1>1. /\ DOMAIN ops' = Stages /\ ops'[s] = Rest(s) /\ At(x) = s
      /\ \A d \in Stages \ {s} : ops'[d] = ops[d]
  BY DEF Types, Advanced, RunTurn, Turn
<1>2. MakesAt(s, {x}, {})
  BY <1>1, RunMakes
<1>3. ASSUME NEW d \in Stages \ {s} PROVE MakesAt(d, {x}, {})
  <2>1. MakesAt(d, {}, {})
    BY <1>1, NothingMade
  <2> QED BY <1>1, <2>1, MadeElsewhere
<1> QED BY <1>1, <1>2, <1>3, MadeByStages

LEMMA SendAdvances ==
    ASSUME IInv, NEW s \in Stages, NEW x, SendTurn(s, x), ops[s] # {},
           ops' = Advanced(s), conf' = conf, iter' = iter
    PROVE  Makes({}, {x}) /\ OpsInv'
<1> USE DEF IInv
<1>1. /\ DOMAIN ops' = Stages /\ ops'[s] = Rest(s) /\ At(x) = s
      /\ \A d \in Stages \ {s} : ops'[d] = ops[d]
  BY DEF Types, Advanced, SendTurn, Turn
<1>2. MakesAt(s, {}, {x})
  BY <1>1, SendMakes
<1>3. ASSUME NEW d \in Stages \ {s} PROVE MakesAt(d, {}, {x})
  <2>1. MakesAt(d, {}, {})
    BY <1>1, NothingMade
  <2> QED BY <1>1, <2>1, MadeElsewhere
<1> QED BY <1>1, <1>2, <1>3, MadeByStages

LEMMA RanGrows ==
    ASSUME Types, RanInv, NEW x \in AllIds, NEW S, Makes({x}, S),
           ran' = ran \cup {<<x, Wanted(x)>>}
    PROVE  RanInv'
<1> DEFINE M == {<<x, Wanted(x)>>}
<1>1. \A e \in M : e \in AllIds \X (AllIds \cup {NoMessage}) /\ e[1] \in {x} /\ e[2] = Wanted(e[1])
  BY WantedIs DEF Types
<1>2. \A y \in {x} : \E e \in M : e[1] = y
  OBVIOUS
<1>3. ran' = ran \cup M /\ {x} \in SUBSET AllIds
  OBVIOUS
<1> HIDE DEF M
<1> QED BY <1>1, <1>2, <1>3, RanFollows

LEMMA RanStays ==
    ASSUME Types, RanInv, NEW S, Makes({}, S), ran' = ran
    PROVE  RanInv'
<1>1. conf' = conf /\ \A y \in AllIds : HasRun(y)' <=> HasRun(y)
  BY DEF Makes
<1> QED BY <1>1, Frame DEF RanInv

LEMMA LocalStep ==
    ASSUME IInv, NEW s \in Stages, RunLocal(s)
    PROVE  IInv' /\ Stepped
<1> USE DEF IInv
<1>1. /\ ToRun(s) /\ ops[s] # {} /\ ~Receives(conf, NextOp(s).task)
      /\ ran' = ran \cup {<<Id(s, NextOp(s).task), NoMessage>>}
      /\ ops' = Advanced(s)
      /\ conf' = conf /\ iter' = iter /\ chan' = chan
  BY DEF RunLocal, ToRun
<1>2. PICK x \in AllIds : RunTurn(s, x) /\ NextOp(s).task = TaskOf(x)
  BY <1>1, TurnToRun
<1>3. Turn(s, x) /\ ~HasRun(x) /\ conf \in Confs
  BY <1>2 DEF RunTurn, Types
<1>4. Id(s, NextOp(s).task) = x /\ ~Accepts(x)
  BY <1>1, <1>2, <1>3, TurnTask
<1>5. Makes({x}, {}) /\ OpsInv'
  BY <1>1, <1>2, RunAdvances
<1>6. Types'
  BY <1>1, <1>5, Frame DEF Types, Advanced
<1>7. ran' = ran \cup {<<x, Wanted(x)>>}
  BY <1>1, <1>3, <1>4, WantedIs
<1>8. RanInv'
  BY <1>5, <1>7, RanGrows
<1>9. ASSUME NEW y \in AllIds, Passes(y) PROVE Onward(y) # x
  BY <1>3, <1>4, <1>9, OnwardIs
<1>10. CausalInv'
  BY <1>5, <1>9, CausalFollows
<1>11. ChanInv'
  <2>1. ASSUME NEW a \in Stages, NEW d \in Stages PROVE Underway(a, d)' = Underway(a, d)
    BY <1>5, <1>9, UnderwayFollows DEF Underway
  <2> QED BY <1>1, <2>1, ChanFollows DEF ChanInv
<1>12. RunsOne(x)
  BY <1>3, <1>4, <1>7, ForwardFirst DEF RunsOne
<1> QED BY <1>1, <1>5, <1>6, <1>8, <1>10, <1>11, <1>12 DEF Stepped

(* ProcessGroup::Send: what goes on its way is behind all that is on it.   *)
LEMMA SendStep ==
    ASSUME IInv, NEW s \in Stages, Send(s)
    PROVE  IInv' /\ Stepped
<1> USE DEF IInv
<1>0. PICK d : d = Target(s, NextOp(s).task)
  OBVIOUS
<1>1. /\ ToSend(s) /\ ops[s] # {} /\ Len(chan[s][d]) < conf.capacity
      /\ chan' = [chan EXCEPT ![s][d] = Append(@, Id(s, NextOp(s).task))]
      /\ ops' = Advanced(s)
      /\ conf' = conf /\ iter' = iter /\ ran' = ran
  BY <1>0 DEF Send, ToSend, Room
<1>2. PICK x \in AllIds : SendTurn(s, x) /\ NextOp(s).task = TaskOf(x)
  BY <1>1, TurnToSend
<1>3. Turn(s, x) /\ HasRun(x) /\ ~HasSent(x) /\ Passes(x) /\ At(x) = s /\ conf \in Confs
  BY <1>2 DEF SendTurn, Turn, Types
<1>4. Id(s, NextOp(s).task) = x /\ d = At(Onward(x)) /\ d \in Stages /\ Onward(x) \in AllIds
  BY <1>0, <1>2, <1>3, TurnTask, OnwardIs
<1>5. Makes({}, {x}) /\ OpsInv'
  BY <1>1, <1>2, SendAdvances
<1>6. ~HasRun(Onward(x))
  BY <1>3 DEF CausalInv
<1>7. \A y \in Underway(s, d) : Ahead(y, x)
  <2>1. SUFFICES ASSUME NEW y \in Underway(s, d) PROVE Ahead(y, x)
    OBVIOUS
  <2>2. y \in AllIds /\ At(y) = s /\ Passes(y) /\ HasSent(y)
    BY <2>1 DEF Underway
  <2>3. ~Ahead(x, y)
    BY <1>3, <2>2, StageOrder
  <2>4. y # x
    BY <1>3, <2>2
  <2> QED BY <1>3, <2>2, <2>3, <2>4, AheadOrder
<1>8. Underway(s, d)' = Underway(s, d) \cup {x}
  <2>1. Underway(s, d)' =
              {y \in AllIds : /\ Passes(y) /\ At(y) = s /\ At(Onward(y)) = d
                              /\ HasSent(y) \/ y \in {x}
                              /\ ~HasRun(Onward(y)) /\ Onward(y) \notin {}}
    BY <1>4, <1>5, UnderwayFollows
  <2> QED BY <1>3, <1>4, <1>6, <2>1 DEF Underway
<1>9. ASSUME NEW a \in Stages, NEW b \in Stages, <<a, b>> # <<s, d>>
      PROVE  Underway(a, b)' = Underway(a, b)
  <2>1. a # s \/ b # d
    BY <1>9
  <2> QED BY <1>3, <1>4, <1>5, <2>1, UnderwayFollows DEF Underway
<1>10. chan[s][d] \in Seq(AllIds) /\ Lists(chan[s][d], Underway(s, d))
  BY <1>4 DEF Types, ChanInv
<1>11. /\ chan' = [chan EXCEPT ![s][d] = Append(chan[s][d], x)]
       /\ chan'[s][d] = Append(chan[s][d], x)
       /\ \A a, b \in Stages : <<a, b>> # <<s, d>> => chan'[a][b] = chan[a][b]
  BY <1>1, <1>4 DEF Types
<1>12. Append(chan[s][d], x) \in Seq(AllIds) /\ Len(Append(chan[s][d], x)) = Len(chan[s][d]) + 1
  BY <1>10, AppendProperties
<1>13. Types'
  <2>1. chan' \in [Stages -> [Stages -> Seq(AllIds)]]
    BY <1>4, <1>11, <1>12 DEF Types
  <2> QED BY <1>1, <1>5, <2>1, Frame DEF Types, Advanced
<1>14. RanInv'
  BY <1>1, <1>5, RanStays
<1>15. CausalInv'
  BY <1>5, CausalFollows
<1>16. ChanInv'
  <2>1. Lists(chan'[s][d], Underway(s, d)') /\ Len(chan'[s][d]) <= conf.capacity
    <3>1. Lists(Append(chan[s][d], x), Underway(s, d) \cup {x})
      BY <1>7, <1>10, ListsOneMore
    <3>2. Len(chan[s][d]) \in Nat /\ conf.capacity \in Nat
      BY <1>3, <1>10, Shape
    <3> QED BY <1>1, <1>8, <1>11, <1>12, <3>1, <3>2
  <2>2. ASSUME NEW a \in Stages, NEW b \in Stages, <<a, b>> # <<s, d>>
        PROVE  Lists(chan'[a][b], Underway(a, b)') /\ Len(chan'[a][b]) <= conf.capacity
    <3>1. chan'[a][b] = chan[a][b] /\ Underway(a, b)' = Underway(a, b)
      BY <1>9, <1>11, <2>2
    <3>2. Lists(chan[a][b], Underway(a, b)) /\ Len(chan[a][b]) <= conf.capacity
      BY DEF ChanInv
    <3> QED BY <3>1, <3>2
  <2>3. ASSUME NEW a \in Stages, NEW b \in Stages, <<a, b>> = <<s, d>>
        PROVE  Lists(chan'[a][b], Underway(a, b)') /\ Len(chan'[a][b]) <= conf.capacity
    <3>1. a = s /\ b = d
      BY <2>3
    <3> QED BY <2>1, <3>1
  <2> QED BY <1>1, <2>2, <2>3, ChanFollows
<1> QED BY <1>1, <1>5, <1>13, <1>14, <1>15, <1>16 DEF Stepped
(* What comes first on its way to a stage is what the task whose turn it   *)
(* is wants: all before it has been received.                              *)
LEMMA FirstIsWanted ==
    ASSUME IInv, NEW s \in Stages, NEW z, RunTurn(s, z), Accepts(z),
           NEW h \in Underway(At(Back(z)), s),
           \A y \in Underway(At(Back(z)), s) : y = h \/ Ahead(h, y)
    PROVE  h = Back(z)
<1> USE DEF IInv
<1> DEFINE b == Back(z)
           p == At(b)
<1>1. z \in AllIds /\ At(z) = s /\ ~HasRun(z) /\ Turn(s, z) /\ conf \in Confs
  BY DEF RunTurn, Turn, Types
<1>2. b \in AllIds /\ Passes(b) /\ Onward(b) = z
  BY <1>1, BackIs
<1>3. /\ h \in AllIds /\ Passes(h) /\ At(h) = p /\ At(Onward(h)) = s
      /\ HasSent(h) /\ ~HasRun(Onward(h)) /\ Onward(h) \in AllIds
  BY <1>1, OnwardIs DEF Underway
<1> HIDE DEF b
<1>4. ~Ahead(Onward(h), z)
  BY <1>1, <1>3 DEF Turn
<1>5. ~Ahead(h, b)
  BY <1>1, <1>2, <1>3, <1>4, OnwardAhead
<1>6. ~Ahead(b, h)
  <2>1. SUFFICES ASSUME Ahead(b, h) PROVE FALSE
    OBVIOUS
  <2>2. HasRun(h)
    BY <1>3, StageOrder
  <2>3. HasSent(b)
    BY <1>2, <1>3, <2>1, <2>2, StageOrder
  <2>4. b \in Underway(p, s)
    BY <1>1, <1>2, <2>3 DEF Underway
  <2>5. b = h \/ Ahead(h, b)
    BY <2>4 DEF b
  <2> QED BY <1>1, <1>2, <1>3, <2>1, <2>5, AheadOrder
<1>7. h = b
  BY <1>1, <1>2, <1>3, <1>5, <1>6, AheadOrder
<1> QED BY <1>7 DEF b

LEMMA ReceiveStep ==
    ASSUME IInv, NEW s \in Stages, ReceiveAndRun(s)
    PROVE  IInv' /\ Stepped
<1> USE DEF IInv
<1>0. PICK p : p = Source(s, NextOp(s).task)
  OBVIOUS
<1>1. /\ ToRun(s) /\ ops[s] # {} /\ Receives(conf, NextOp(s).task) /\ chan[p][s] # <<>>
      /\ ran' = ran \cup {<<Id(s, NextOp(s).task), Head(chan[p][s])>>}
      /\ chan' = [chan EXCEPT ![p][s] = Tail(@)]
      /\ ops' = Advanced(s)
      /\ conf' = conf /\ iter' = iter
  BY <1>0 DEF ReceiveAndRun, ToRun
<1>2. PICK z \in AllIds : RunTurn(s, z) /\ NextOp(s).task = TaskOf(z)
  BY <1>1, TurnToRun
<1>3. Turn(s, z) /\ ~HasRun(z) /\ At(z) = s /\ conf \in Confs
  BY <1>2 DEF RunTurn, Turn, Types
<1>4. Id(s, NextOp(s).task) = z /\ Accepts(z) /\ p = At(Back(z)) /\ p \in Stages
  BY <1>0, <1>1, <1>2, <1>3, TurnTask
<1>5. chan[p][s] \in Seq(AllIds) /\ Lists(chan[p][s], Underway(p, s))
  BY <1>4 DEF Types, ChanInv
<1>6. PICK h : h = Head(chan[p][s])
  OBVIOUS
<1>7. /\ h \in Underway(p, s) /\ \A y \in Underway(p, s) : y = h \/ Ahead(h, y)
      /\ Lists(Tail(chan[p][s]), Underway(p, s) \ {h})
  BY <1>1, <1>3, <1>5, <1>6, ListsTheRest
<1>8. h = Back(z)
  BY <1>2, <1>4, <1>7, FirstIsWanted
<1>9. h \in AllIds /\ Passes(h) /\ HasSent(h) /\ Onward(h) = z
  BY <1>3, <1>4, <1>7, <1>8, BackIs DEF Underway
<1>10. Makes({z}, {}) /\ OpsInv'
  BY <1>1, <1>2, RunAdvances
<1>11. /\ chan'[p][s] = Tail(chan[p][s])
       /\ \A a, b \in Stages : <<a, b>> # <<p, s>> => chan'[a][b] = chan[a][b]
       /\ Tail(chan[p][s]) \in Seq(AllIds) /\ Len(Tail(chan[p][s])) = Len(chan[p][s]) - 1
  BY <1>1, <1>4, <1>5, HeadTailProperties DEF Types
<1>12. Types'
  <2>1. chan' \in [Stages -> [Stages -> Seq(AllIds)]]
    BY <1>1, <1>4, <1>11 DEF Types
  <2> QED BY <1>1, <1>10, <2>1, Frame DEF Types, Advanced
<1>13. ran' = ran \cup {<<z, Wanted(z)>>}
  BY <1>1, <1>3, <1>4, <1>6, <1>8, WantedIs
<1>14. RanInv'
  BY <1>10, <1>13, RanGrows
<1>15. ASSUME NEW y \in AllIds, Passes(y), Onward(y) = z PROVE y = h
  BY <1>3, <1>8, <1>15, OnwardIs
<1>16. CausalInv'
  BY <1>9, <1>10, <1>15, CausalFollows
<1>17. Underway(p, s)' = Underway(p, s) \ {h}
  <2>1. Underway(p, s)' =
              {y \in AllIds : /\ Passes(y) /\ At(y) = p /\ At(Onward(y)) = s
                              /\ HasSent(y) \/ y \in {}
                              /\ ~HasRun(Onward(y)) /\ Onward(y) \notin {z}}
    BY <1>4, <1>10, UnderwayFollows
  <2> QED BY <1>9, <1>15, <2>1 DEF Underway
<1>18. ASSUME NEW a \in Stages, NEW b \in Stages, <<a, b>> # <<p, s>>
       PROVE  Underway(a, b)' = Underway(a, b)
  <2>1. a # p \/ b # s
    BY <1>18
  <2>2. Underway(a, b)' =
              {y \in AllIds : /\ Passes(y) /\ At(y) = a /\ At(Onward(y)) = b
                              /\ HasSent(y) \/ y \in {}
                              /\ ~HasRun(Onward(y)) /\ Onward(y) \notin {z}}
    BY <1>10, UnderwayFollows
  <2> QED BY <1>3, <1>4, <1>8, <1>15, <2>1, <2>2 DEF Underway
<1>19. ChanInv'
  <2>1. Lists(chan'[p][s], Underway(p, s)') /\ Len(chan'[p][s]) <= conf.capacity
    <3>1. Len(chan[p][s]) \in Nat /\ conf.capacity \in Nat /\ Len(chan[p][s]) <= conf.capacity
      BY <1>3, <1>4, <1>5, Shape DEF ChanInv
    <3> QED BY <1>7, <1>11, <1>17, <3>1
  <2>2. ASSUME NEW a \in Stages, NEW b \in Stages, <<a, b>> # <<p, s>>
        PROVE  Lists(chan'[a][b], Underway(a, b)') /\ Len(chan'[a][b]) <= conf.capacity
    <3>1. chan'[a][b] = chan[a][b] /\ Underway(a, b)' = Underway(a, b)
      BY <1>11, <1>18, <2>2
    <3>2. Lists(chan[a][b], Underway(a, b)) /\ Len(chan[a][b]) <= conf.capacity
      BY DEF ChanInv
    <3> QED BY <3>1, <3>2
  <2>3. ASSUME NEW a \in Stages, NEW b \in Stages, <<a, b>> = <<p, s>>
        PROVE  Lists(chan'[a][b], Underway(a, b)') /\ Len(chan'[a][b]) <= conf.capacity
    <3>1. a = p /\ b = s
      BY <2>3
    <3> QED BY <2>1, <3>1
  <2> QED BY <1>1, <2>2, <2>3, ChanFollows
<1>20. HasRun(Back(z))
  BY <1>8, <1>9, StageOrder
<1>21. RunsOne(z)
  BY <1>3, <1>13, <1>20, ForwardFirst DEF RunsOne
<1> QED BY <1>1, <1>10, <1>12, <1>14, <1>16, <1>19, <1>21 DEF Stepped

(* A rendezvous: with nothing under way, what one stage has to send next   *)
(* is what the other wants next.                                           *)
LEMMA RendezvousStep ==
    ASSUME IInv, NEW s \in Stages, NEW d \in Stages, Rendezvous(s, d)
    PROVE  IInv' /\ Stepped
<1> USE DEF IInv
<1>1. /\ conf.capacity = 0 /\ ToSend(s) /\ ToRun(d) /\ ops[s] # {} /\ ops[d] # {}
      /\ Receives(conf, NextOp(d).task)
      /\ Target(s, NextOp(s).task) = d /\ Source(d, NextOp(d).task) = s
      /\ ran' = ran \cup {<<Id(d, NextOp(d).task), Id(s, NextOp(s).task)>>}
      /\ ops' = [ops EXCEPT ![s] = Rest(s), ![d] = Rest(d)]
      /\ conf' = conf /\ iter' = iter /\ chan' = chan
  BY DEF Rendezvous, ToSend, ToRun
<1>2. s # d
  BY <1>1 DEF ToSend, ToRun
<1>3. PICK x \in AllIds : SendTurn(s, x) /\ NextOp(s).task = TaskOf(x)
  BY <1>1, TurnToSend
<1>4. PICK z \in AllIds : RunTurn(d, z) /\ NextOp(d).task = TaskOf(z)
  BY <1>1, TurnToRun
<1>5. Turn(s, x) /\ HasRun(x) /\ ~HasSent(x) /\ Passes(x) /\ At(x) = s /\ conf \in Confs
  BY <1>3 DEF SendTurn, Turn, Types
<1>6. Turn(d, z) /\ ~HasRun(z) /\ At(z) = d
  BY <1>4 DEF RunTurn, Turn
<1>7. Id(s, NextOp(s).task) = x /\ d = At(Onward(x)) /\ Onward(x) \in AllIds
  BY <1>1, <1>3, <1>5, TurnTask, OnwardIs
<1>8. Id(d, NextOp(d).task) = z /\ Accepts(z) /\ s = At(Back(z))
  BY <1>1, <1>4, <1>6, TurnTask
<1>9. Back(z) \in AllIds /\ Passes(Back(z)) /\ Onward(Back(z)) = z
  BY <1>5, <1>8, BackIs
<1>10. ~HasSent(Back(z))
  <2>1. chan[s][d] \in Seq(AllIds) /\ Lists(chan[s][d], Underway(s, d)) /\ Len(chan[s][d]) <= 0
    BY <1>1 DEF Types, ChanInv
  <2>2. chan[s][d] = <<>>
    BY <2>1
  <2>3. Underway(s, d) = {}
    BY <2>1, <2>2, ListsNothing
  <2> QED BY <1>6, <1>8, <1>9, <2>3 DEF Underway
<1>11. x = Back(z)
  <2>1. ~Ahead(Back(z), x)
    BY <1>5, <1>8, <1>9, <1>10 DEF Turn
  <2>2. ~Ahead(x, Back(z))
    <3>1. SUFFICES ASSUME Ahead(x, Back(z)) PROVE FALSE
      OBVIOUS
    <3>2. Ahead(Onward(x), z)
      BY <1>5, <1>9, <3>1, OnwardAhead
    <3>3. HasRun(Onward(x))
      BY <1>6, <1>7, <3>2 DEF Turn
    <3> QED BY <1>5, <3>3 DEF CausalInv
  <2> QED BY <1>5, <1>9, <2>1, <2>2, AheadOrder
<1>12. Makes({z}, {x}) /\ OpsInv'
  <2>1. /\ DOMAIN ops' = Stages /\ ops'[s] = Rest(s) /\ ops'[d] = Rest(d)
        /\ \A e \in Stages \ {s, d} : ops'[e] = ops[e]
    BY <1>1, <1>2 DEF Types
  <2>2. MakesAt(s, {}, {x}) /\ MakesAt(d, {z}, {})
    BY <1>1, <1>3, <1>4, <2>1, SendMakes, RunMakes
  <2>3. MakesAt(s, {z}, {x}) /\ MakesAt(d, {z}, {x})
    BY <1>2, <1>5, <1>6, <2>2 DEF MakesAt
  <2>4. ASSUME NEW e \in Stages \ {s, d} PROVE MakesAt(e, {z}, {x})
    <3>1. MakesAt(e, {}, {})
      BY <1>1, <2>1, NothingMade
    <3> QED BY <1>5, <1>6, <3>1, MadeElsewhere
  <2> QED BY <1>1, <2>1, <2>3, <2>4, MadeByStages, SMTT(20)
<1>13. Types'
  BY <1>1, <1>12, Frame DEF Types
<1>14. ran' = ran \cup {<<z, Wanted(z)>>}
  BY <1>1, <1>5, <1>7, <1>8, <1>11, WantedIs
<1>15. RanInv'
  BY <1>12, <1>14, RanGrows
<1>16. ASSUME NEW y \in AllIds, Passes(y), Onward(y) = z PROVE y = x
  BY <1>5, <1>11, <1>16, OnwardIs
<1>17. CausalInv'
  BY <1>12, <1>16, CausalFollows
<1>18. ChanInv'
  <2>1. ASSUME NEW a \in Stages, NEW b \in Stages PROVE Underway(a, b)' = Underway(a, b)
    <3>1. Underway(a, b)' =
              {y \in AllIds : /\ Passes(y) /\ At(y) = a /\ At(Onward(y)) = b
                              /\ HasSent(y) \/ y \in {x}
                              /\ ~HasRun(Onward(y)) /\ Onward(y) \notin {z}}
      BY <1>12, UnderwayFollows
    <3> QED BY <1>5, <1>9, <1>11, <1>16, <3>1 DEF Underway
  <2>2. ASSUME NEW a \in Stages, NEW b \in Stages
        PROVE  Lists(chan'[a][b], Underway(a, b)') /\ Len(chan'[a][b]) <= conf.capacity
    <3>1. chan'[a][b] = chan[a][b] /\ Underway(a, b)' = Underway(a, b)
      BY <1>1, <2>1
    <3>2. Lists(chan[a][b], Underway(a, b)) /\ Len(chan[a][b]) <= conf.capacity
      BY DEF ChanInv
    <3> QED BY <3>1, <3>2
  <2> QED BY <1>1, <2>2, ChanFollows
<1>19. RunsOne(z)
  BY <1>5, <1>6, <1>11, <1>14, ForwardFirst DEF RunsOne
<1> QED BY <1>1, <1>12, <1>13, <1>15, <1>17, <1>18, <1>19 DEF Stepped

LEMMA StartStepStep ==
    ASSUME IInv, NEW s \in Stages, StartStep(s)
    PROVE  IInv' /\ Stepped
<1> USE DEF IInv
<1>1. /\ ops[s] = {} /\ iter[s] < Iterations
      /\ iter' = [iter EXCEPT ![s] = iter[s] + 1]
      /\ ops' = [ops EXCEPT ![s] = OpsOfStage(conf, s)]
      /\ conf' = conf /\ chan' = chan /\ ran' = ran
  BY DEF StartStep
<1>2. /\ DOMAIN ops' = Stages /\ ops'[s] = OpsOfStage(conf, s) /\ iter'[s] = iter[s] + 1
      /\ \A d \in Stages \ {s} : ops'[d] = ops[d] /\ iter'[d] = iter[d]
  BY <1>1 DEF Types
<1>3. Makes({}, {}) /\ OpsInv'
  <2>1. MakesAt(s, {}, {})
    BY <1>1, <1>2, StartMakes
  <2>2. ASSUME NEW d \in Stages \ {s} PROVE MakesAt(d, {}, {})
    BY <1>1, <1>2, NothingMade
  <2> QED BY <1>1, <1>2, <2>1, <2>2, MadeByStages
<1>4. Types'
  <2>1. iter[s] + 1 \in 1..Iterations
    BY <1>1, PipelineAssumption DEF Types
  <2>2. iter' \in [Stages -> 1..Iterations]
    BY <1>1, <2>1 DEF Types
  <2> QED BY <1>1, <1>2, <2>2, Frame DEF Types
<1>5. RanInv'
  BY <1>1, <1>3, RanStays
<1>6. CausalInv'
  BY <1>3, CausalFollows
<1>7. ChanInv'
  <2>1. ASSUME NEW a \in Stages, NEW b \in Stages PROVE Underway(a, b)' = Underway(a, b)
    BY <1>3, UnderwayFollows DEF Underway
  <2>2. ASSUME NEW a \in Stages, NEW b \in Stages
        PROVE  Lists(chan'[a][b], Underway(a, b)') /\ Len(chan'[a][b]) <= conf.capacity
    <3>1. chan'[a][b] = chan[a][b] /\ Underway(a, b)' = Underway(a, b)
      BY <1>1, <2>1
    <3>2. Lists(chan[a][b], Underway(a, b)) /\ Len(chan[a][b]) <= conf.capacity
      BY DEF ChanInv
    <3> QED BY <3>1, <3>2
  <2> QED BY <1>1, <2>2, ChanFollows
<1> QED BY <1>1, <1>3, <1>4, <1>5, <1>6, <1>7 DEF Stepped
-----------------------------------------------------------------------------
LEMMA InitInv == Init => IInv
<1> SUFFICES ASSUME Init PROVE IInv
  OBVIOUS
<1>1. /\ conf \in Confs /\ iter = [s \in Stages |-> 1]
      /\ ops = [s \in Stages |-> OpsOfStage(conf, s)]
      /\ chan = [s \in Stages |-> [d \in Stages |-> <<>>]] /\ ran = {}
  BY DEF Init
<1>2. 1 \in 1..Iterations
  BY PipelineAssumption
<1>3. Types
  BY <1>1, <1>2 DEF Types
<1>4. OpsInv
  BY <1>1 DEF OpsInv
<1>5. ASSUME NEW x \in AllIds PROVE ~HasRun(x) /\ (Passes(x) => ~HasSent(x))
  <2>1. At(x) \in Stages /\ x[1] \in 1..Iterations
    BY <1>1, IdParts
  <2>2. RunOp(x) \in OpsOfStage(conf, At(x)) /\ (Passes(x) => SendOp(x) \in OpsOfStage(conf, At(x)))
    BY <1>1, <2>1, StageOps
  <2>3. iter[At(x)] = 1 /\ ops[At(x)] = OpsOfStage(conf, At(x)) /\ ~(x[1] < 1)
    BY <1>1, <2>1
  <2> QED BY <2>2, <2>3 DEF HasRun, HasSent
<1>6. RanInv
  BY <1>1, <1>5 DEF RanInv
<1>7. CausalInv
  BY <1>1, <1>5, OnwardIs DEF CausalInv
<1>8. ASSUME NEW s \in Stages, NEW d \in Stages
      PROVE  Lists(chan[s][d], Underway(s, d)) /\ Len(chan[s][d]) <= conf.capacity
  <2>1. chan[s][d] = <<>> /\ Underway(s, d) = {}
    BY <1>1, <1>5 DEF Underway
  <2>2. Lists(chan[s][d], Underway(s, d))
    BY <2>1 DEF Lists
  <2> QED BY <1>1, <2>1, <2>2, Shape
<1> QED BY <1>3, <1>4, <1>6, <1>7, <1>8 DEF IInv, ChanInv

LEMMA NextInv ==
    ASSUME IInv, [Next]_vars
    PROVE  IInv' /\ Stepped
<1>1. CASE UNCHANGED vars
  <2>1. conf' = conf /\ iter' = iter /\ ops' = ops /\ chan' = chan /\ ran' = ran
    BY <1>1 DEF vars
  <2>2. Makes({}, {}) /\ OpsInv'
    <3>1. \A s \in Stages : MakesAt(s, {}, {})
      BY <2>1, NothingMade DEF IInv
    <3> QED BY <2>1, <3>1, MadeByStages DEF IInv, Types
  <2>3. Types' /\ RanInv' /\ CausalInv'
    BY <2>1, <2>2, Frame, RanStays, CausalFollows DEF IInv, Types
  <2>4. ASSUME NEW s \in Stages, NEW d \in Stages
        PROVE  Lists(chan'[s][d], Underway(s, d)') /\ Len(chan'[s][d]) <= conf.capacity
    <3>1. Underway(s, d)' = Underway(s, d)
      BY <2>2, UnderwayFollows DEF Underway, IInv
    <3> QED BY <2>1, <3>1 DEF IInv, ChanInv
  <2> QED BY <2>1, <2>2, <2>3, <2>4, ChanFollows DEF IInv, Stepped
<1>2. CASE \E s \in Stages : StageStep(s)
  BY <1>2, LocalStep, SendStep, ReceiveStep, RendezvousStep, StartStepStep DEF StageStep
<1> QED BY <1>1, <1>2 DEF Next, Terminated

(* The inductive invariant holds in every reachable state.                 *)
THEOREM Invariance == Spec => []IInv
<1>1. IInv /\ [Next]_vars => IInv'
  BY NextInv
<1> QED BY InitInv, <1>1, PTL DEF Spec

(* The type invariant, whatever the stages and the transport.              *)
THEOREM TypeCorrect == Spec => []TypeOK
<1>1. IInv => TypeOK
  <2> SUFFICES ASSUME IInv PROVE TypeOK
    OBVIOUS
  <2>1. /\ conf \in Confs /\ iter \in [Stages -> 1..Iterations] /\ DOMAIN ops = Stages
        /\ chan \in [Stages -> [Stages -> Seq(AllIds)]]
        /\ \A s \in Stages : ops[s] \subseteq OpsOfStage(conf, s)
        /\ \A s, d \in Stages : Len(chan[s][d]) <= conf.capacity
    BY DEF IInv, Types, OpsInv, ChanInv
  <2>2. AllIds \subseteq Ids
    <3>1. ASSUME NEW x \in AllIds PROVE x \in Ids
      <4>1. /\ x = <<x[1], x[2], x[3], x[4]>> /\ x[1] \in 1..Iterations /\ x[2] \in BOOLEAN
            /\ x[3] \in Nat /\ x[4] \in Nat
        BY <2>1, IdParts, Shape
      <4>2. <<x[1], x[2], x[3], x[4]>> \in Ids
        BY <4>1 DEF Ids
      <4> QED BY <4>1, <4>2
    <3> QED BY <3>1
  <2>3. chan \in [Stages -> [Stages -> Seq(Ids)]]
    <3>1. Seq(AllIds) \subseteq Seq(Ids)
      BY <2>2
    <3> QED BY <2>1, <3>1
  <2>4. ran \subseteq Ids \X (Ids \cup {NoMessage})
    BY <2>2 DEF IInv, RanInv
  <2> QED BY <2>1, <2>3, <2>4 DEF TypeOK
<1> QED BY <1>1, Invariance, PTL

(* Transfers are matched by order alone, over any pattern of stages and    *)
(* chunks, and every task gets the message of its own iteration,           *)
(* micro-batch and chunk.                                                  *)
THEOREM MessagesMatch == Spec => []InputsMatch
<1>1. IInv => InputsMatch
  BY DEF IInv, RanInv, InputsMatch
<1> QED BY <1>1, Invariance, PTL

(* Between training steps no message is left in any channel.               *)
THEOREM ChannelsDrain == Spec => []NothingLeftOver
<1>1. IInv => NothingLeftOver
  <2> SUFFICES ASSUME IInv, \A s, d \in Stages : ops[s] = {} /\ iter[s] = iter[d],
                      NEW s \in Stages, NEW d \in Stages
               PROVE  chan[s][d] = <<>>
    BY DEF NothingLeftOver
  <2>1. conf \in Confs /\ iter[s] \in Nat
    BY DEF IInv, Types
  <2>2. ASSUME NEW x \in Underway(s, d) PROVE FALSE
    <3>1. /\ x \in AllIds /\ At(x) = s /\ At(Onward(x)) = d /\ Onward(x)[1] = x[1]
          /\ HasSent(x) /\ ~HasRun(Onward(x)) /\ x[1] \in Nat
      BY <2>1, OnwardIs, IdParts DEF Underway
    <3>2. x[1] <= iter[s]
      BY <2>1, <3>1 DEF HasSent
    <3>3. HasRun(Onward(x))
      BY <2>1, <3>1, <3>2 DEF HasRun
    <3> QED BY <3>1, <3>3
  <2>3. chan[s][d] \in Seq(AllIds) /\ Lists(chan[s][d], Underway(s, d))
    BY DEF IInv, Types, ChanInv
  <2> QED BY <2>2, <2>3, ListsNothing
<1> QED BY <1>1, Invariance, PTL

-----------------------------------------------------------------------------
(* The refinement: a step of the stages is one task of the dataflow whose  *)
(* inputs are there, or none.                                              *)
LEMMA RanIsRun ==
    ASSUME IInv, NEW x \in AllIds
    PROVE  x \in {e[1] : e \in ran} <=> HasRun(x)
BY DEF IInv, RanInv

LEMMA FlowStep ==
    ASSUME IInv, NEW x, RunsOne(x), conf' = conf
    PROVE  Flow!Next
<1> DEFINE done == {e[1] : e \in ran}
<1>1. /\ x \in AllIds /\ ~HasRun(x) /\ conf \in Confs
      /\ Accepts(x) => HasRun(Back(x))
      /\ ~x[2] => HasRun(Forward(x))
      /\ ran' = ran \cup {<<x, Wanted(x)>>}
  BY DEF RunsOne, IInv, Types
<1>2. /\ x = <<x[1], x[2], x[3], x[4]>> /\ x[1] \in 1..Iterations /\ x[2] \in BOOLEAN
      /\ x[3] \in 0..(conf.mbs - 1) /\ x[4] \in 0..(Chunks - 1) /\ Chunks \in Nat \ {0}
  BY <1>1, IdParts, Shape
<1>3. x \notin done
  BY <1>1, RanIsRun
<1>4. Accepts(x) => Back(x) \in done
  BY <1>1, BackIs, RanIsRun
<1>5. ~x[2] => Forward(x) \in done
  <2>1. Forward(x) \in AllIds
    BY <1>2, IdIntro DEF Forward
  <2> QED BY <1>1, <2>1, RanIsRun
<1>6. done' = done \cup {x}
  <2>1. \A y : y \in done' <=> \E e \in ran' : y = e[1]
    BY Zenon
  <2>2. \A y : y \in done <=> \E e \in ran : y = e[1]
    BY Zenon
  <2>3. <<x, Wanted(x)>>[1] = x
    OBVIOUS
  <2> HIDE DEF done
  <2>4. \A y : y \in done' <=> y \in done \cup {x}
    BY <1>1, <2>1, <2>2, <2>3
  <2> QED BY <2>4
<1>7. Chunks' = Chunks
  BY DEF Chunks
<1> DEFINE i == x[1]
           f == x[2]
           mb == x[3]
           c == x[4]
<1>8. CASE f
  <2>1. c = 0 \/ <<i, TRUE, mb, c - 1>> \in done
    <3>1. c = 0 \/ Accepts(x)
      BY <1>2, <1>8 DEF Accepts
    <3> QED BY <1>2, <1>4, <1>8, <3>1 DEF Back
  <2>2. Flow!Needs(i, f, mb, c)
    BY <1>8, <2>1 DEF Flow!Needs, Flow!Done
  <2> QED BY <1>2, <1>3, <1>6, <1>7, <2>2, SMTT(20) DEF Flow!Next, Flow!Run, Flow!Done
<1>9. CASE ~f
  <2>1. IF c = Chunks - 1 THEN <<i, TRUE, mb, c>> \in done ELSE <<i, FALSE, mb, c + 1>> \in done
    <3>1. c = Chunks - 1 \/ Accepts(x)
      BY <1>2, <1>9 DEF Accepts
    <3>2. f = FALSE
      BY <1>2, <1>9
    <3> QED BY <1>4, <1>5, <1>9, <3>1, <3>2 DEF Back, Forward
  <2>2. Flow!Needs(i, f, mb, c)
    BY <1>9, <2>1 DEF Flow!Needs, Flow!Done
  <2> QED BY <1>2, <1>3, <1>6, <1>7, <2>2, SMTT(20) DEF Flow!Next, Flow!Run, Flow!Done
<1> QED BY <1>2, <1>8, <1>9

(* GPipe's order, the layout of the chunks and the transport implement the *)
(* dataflow of the model.                                                  *)
THEOREM Refinement == Spec => ImplementsDataflow
<1>1. Init => Flow!Init
  <2> SUFFICES ASSUME Init PROVE Flow!Init
    OBVIOUS
  <2>1. conf \in Confs /\ ran = {}
    BY DEF Init
  <2> QED BY <2>1, Shape DEF Flow!Init
<1>2. IInv /\ [Next]_vars => [Flow!Next]_<<[chunks |-> Chunks, mbs |-> conf.mbs], {e[1] : e \in ran}>>
  <2> SUFFICES ASSUME IInv, [Next]_vars
               PROVE  [Flow!Next]_<<[chunks |-> Chunks, mbs |-> conf.mbs], {e[1] : e \in ran}>>
    OBVIOUS
  <2>1. Stepped
    BY NextInv
  <2>2. CASE ran' = ran
    BY <2>1, <2>2 DEF Stepped, Chunks
  <2>3. CASE \E x : RunsOne(x)
    BY <2>1, <2>3, FlowStep DEF Stepped
  <2> QED BY <2>1, <2>2, <2>3 DEF Stepped
<1> QED BY <1>1, <1>2, Invariance, PTL DEF Spec, ImplementsDataflow, Flow!Spec
=============================================================================
