--------------------------- MODULE AutogradProofs ---------------------------
(***************************************************************************)
(* Proofs about Autograd, for any number of leaves and functions and every *)
(* graph a program can build of them: first what is counted and who runs,  *)
(* then, where additions are residual, the values of gradients.            *)
(***************************************************************************)
EXTENDS Autograd, Integers, TLAPS, FiniteSetTheorems, SequenceTheorems

-----------------------------------------------------------------------------
(* Results a node has: one slot each.                                      *)
Results(n) == IF n \in Functions THEN Outputs(Fn(n).kind) ELSE 1

Types ==
    /\ graph \in Seq([kind : Kinds, inputs : Seq((Nodes \cup {NoGrad}) \X {1, 2})])
    /\ Len(graph) <= MaxFunctions
    /\ deps \in [Nodes -> Nat] /\ reached \in [Nodes -> Nat] /\ given \in [Nodes -> Nat]
    /\ heap \in Seq(Nat \ {0})
    /\ grad \in [Leaves -> 0..Len(heap)]
    /\ slots \in [Nodes -> Seq(0..Len(heap))]
    /\ \A n \in Leaves \cup Functions : Len(slots[n]) = Results(n)
    /\ \A n \in Nodes \ (Leaves \cup Functions) :
          slots[n] = <<>> /\ deps[n] = 0 /\ reached[n] = 0
    /\ \A n \in Nodes \ Functions : given[n] = 0
    /\ stack \in Seq(Nodes \X {1, 2} \X (1..Len(heap)))

(* What the program may build: functions of one or two tensors made before *)
(* them, at least one of which requires a gradient.                        *)
GraphInv ==
    \A n \in Functions :
        LET ins == Fn(n).inputs IN
        /\ Len(ins) \in {1, 2}
        /\ Fn(n).kind = "add" => Len(ins) = 2
        /\ Fn(n).kind \in {"view", "split"} => Len(ins) = 1
        /\ LiveEdges(n) # {}
        /\ \A i \in DOMAIN ins : ins[i][1] < n /\ ins[i][2] \in 1..Results(ins[i][1])

(* The uses of n whose gradient has not arrived: that of a function that   *)
(* has not run, or in a delivery still to make.  uses lists those of the   *)
(* stack's deliveries.                                                     *)
Listed(uses) == {uses[j] : j \in DOMAIN uses}
Outstanding(uses, n) == {e \in Uses(n) : given[e[1]] = 0 \/ e \in Listed(uses)}
Arrived(uses, n) == Uses(n) \ Outstanding(uses, n)

(* The gradient Tensor::Backward starts with is no use's.                  *)
Starting == stack # <<>> /\ stack[1][1] \in Sinks

StartInv ==
    Starting => Len(stack) = 1 /\ stack[1][2] = 1 /\ given[stack[1][1]] = 0
                /\ Results(stack[1][1]) = 1

Lists(uses) ==
    /\ uses \in Seq(Functions \X {1, 2})
    /\ Len(uses) = IF Starting THEN 0 ELSE Len(stack)
    /\ \A j \in DOMAIN uses :
          LET m == uses[j][1]
              i == uses[j][2]
          IN  /\ given[m] # 0 /\ i \in DOMAIN Fn(m).inputs
              /\ Fn(m).inputs[i] = <<stack[j][1], stack[j][2]>>
    /\ \A i, j \in DOMAIN uses : uses[i] = uses[j] => i = j

AllHeld(n) == \A o \in DOMAIN slots[n] : slots[n][o] # Null
NoneHeld(n) == \A o \in DOMAIN slots[n] : slots[n][o] = Null

(* A node that has not run, or a leaf, has been reached by the uses that   *)
(* have arrived and are not accumulated yet, and waits for the others.     *)
Counts(uses) ==
    /\ \A n \in Leaves \cup Functions :
          IF given[n] = 0
          THEN /\ deps[n] = reached[n] + Cardinality(Outstanding(uses, n))
               /\ AllHeld(n) => reached[n] < deps[n]
               /\ reached[n] = 0 => NoneHeld(n)
               /\ Uses(n) = {} => deps[n] = 0
          ELSE Outstanding(uses, n) = {} /\ reached[n] = 0 /\ NoneHeld(n)
    /\ \A l \in Leaves : reached[l] > 0 => AllHeld(l)
    /\ \A n \in Functions : given[n] = 0 =>
          \A e \in Arrived(uses, n) : slots[n][Fn(e[1]).inputs[e[2]][2]] # Null

IInv == Types /\ GraphInv /\ StartInv /\ \E uses : Lists(uses) /\ Counts(uses)

-----------------------------------------------------------------------------
(* Sums over finite sets.                                                  *)

(* A set of subsets of a finite set has a minimal element.                 *)
LEMMA MinimalSubset ==
    ASSUME NEW S, IsFiniteSet(S), NEW B \in SUBSET (SUBSET S), B # {}
    PROVE  \E s \in B : \A x \in s : s \ {x} \notin B
<1> DEFINE R == StrictSubsetOrdering(S)
           F == FiniteSubsetsOf(S)
<1>1. B \subseteq F
  BY FS_Subset DEF FiniteSubsetsOf
<1>2. IsWellFoundedOn(R, F)
  BY FS_StrictSubsetOrderingWellFounded
<1> HIDE DEF F
<1>3. PICK s \in B : \A u \in B : <<u, s>> \notin R
  <2> HIDE DEF R
  <2> QED BY <1>1, <1>2, WFMin
<1>4. ASSUME NEW x \in s, s \ {x} \in B PROVE FALSE
  <2>1. s \ {x} \subseteq s /\ s \ {x} # s /\ s \subseteq S
    OBVIOUS
  <2>2. <<s \ {x}, s>> \in R
    BY <2>1 DEF StrictSubsetOrdering
  <2> QED BY <1>3, <1>4, <2>2
<1> QED BY <1>4

(* A bounded set of naturals has a greatest element.                       *)
LEMMA Greatest ==
    ASSUME NEW N \in Nat, NEW T \in SUBSET (0..N), T # {}
    PROVE  \E x \in T : \A y \in T : y <= x
<1> DEFINE Above(x) == {y \in 0..N : x <= y}
           B == {Above(x) : x \in T}
<1>1. IsFiniteSet(0..N)
  <2>1. 0 \in Int /\ N \in Int
    OBVIOUS
  <2> QED BY <2>1, FS_Interval
<1>2. B \in SUBSET (SUBSET (0..N)) /\ B # {}
  OBVIOUS
<1>3. PICK s \in B : \A u \in B : ~(u \subseteq s /\ u # s)
  <2> DEFINE R == StrictSubsetOrdering(0..N)
             F == FiniteSubsetsOf(0..N)
  <2>1. B \subseteq F
    <3> HIDE DEF B
    <3> QED BY <1>1, <1>2, FS_Subset DEF FiniteSubsetsOf
  <2>2. IsWellFoundedOn(R, F)
    BY FS_StrictSubsetOrderingWellFounded
  <2> HIDE DEF F
  <2>3. PICK s \in B : \A u \in B : <<u, s>> \notin R
    <3> HIDE DEF R, B
    <3> QED BY <1>2, <2>1, <2>2, WFMin
  <2>4. ASSUME NEW u \in B, u \subseteq s, u # s PROVE FALSE
    <3>1. u \in SUBSET (0..N) /\ s \in SUBSET (0..N)
      BY <1>2
    <3>2. <<u, s>> \in R
      <4> HIDE DEF B
      <4> QED BY <2>4, <3>1 DEF StrictSubsetOrdering
    <3> QED BY <2>3, <3>2
  <2> HIDE DEF B
  <2> QED BY <2>4
<1>4. PICK x \in T : s = Above(x)
  OBVIOUS
<1>5. ASSUME NEW y \in T, ~(y <= x) PROVE FALSE
  <2>1. Above(y) \subseteq s /\ Above(y) # s
    <3>1. x \in s /\ x \notin Above(y)
      BY <1>4, <1>5
    <3>2. Above(y) \subseteq s
      BY <1>4, <1>5
    <3> HIDE DEF Above
    <3> QED BY <3>1, <3>2
  <2> QED BY <1>3, <2>1
<1> QED BY <1>5

(* The sum of f over s, as the number of pairs of an x in s and one of     *)
(* 1..f[x].                                                                *)
Weighed(f, s) == UNION {{x} \X (1..f[x]) : x \in s}
Total(f, s) == Cardinality(Weighed(f, s))

LEMMA TotalIs ==
    ASSUME NEW s, IsFiniteSet(s), NEW f, \A x \in s : f[x] \in Nat
    PROVE  /\ IsFiniteSet(Weighed(f, s)) /\ Total(f, s) \in Nat
           /\ s = {} => Total(f, s) = 0
           /\ \A x \in s : Total(f, s) = f[x] + Total(f, s \ {x})
<1>1. ASSUME NEW x \in s
      PROVE  IsFiniteSet({x} \X (1..f[x])) /\ Cardinality({x} \X (1..f[x])) = f[x]
  <2>1. PICK k : k = f[x]
    OBVIOUS
  <2>2. IsFiniteSet(1..f[x]) /\ Cardinality(1..f[x]) = f[x]
    <3>1. k \in Nat /\ k \in Int /\ 1 \in Int /\ k - 1 + 1 = k
      BY <2>1
    <3>2. IsFiniteSet(1..k) /\ Cardinality(1..k) = k
      BY <3>1, FS_Interval
    <3> QED BY <2>1, <3>2
  <2>3. IsFiniteSet({x}) /\ Cardinality({x}) = 1
    BY FS_Singleton
  <2>4. /\ IsFiniteSet({x} \X (1..f[x]))
        /\ Cardinality({x} \X (1..f[x])) = Cardinality({x}) * Cardinality(1..f[x])
    BY <2>2, <2>3, FS_Product
  <2> QED BY <2>1, <2>2, <2>3, <2>4
<1>2. ASSUME NEW r \in SUBSET s PROVE IsFiniteSet(Weighed(f, r))
  <2> DEFINE g == [x \in r |-> {x} \X (1..f[x])]
             I == {{x} \X (1..f[x]) : x \in r}
  <2>1. IsFiniteSet(r)
    BY FS_Subset
  <2>2. g \in Surjection(r, I)
    BY DEF Surjection
  <2>3. IsFiniteSet(I)
    <3> HIDE DEF g, I
    <3> QED BY <2>1, <2>2, FS_Surjection
  <2>4. \A T \in I : IsFiniteSet(T)
    BY <1>1
  <2>5. IsFiniteSet(UNION I)
    <3> HIDE DEF I
    <3> QED BY <2>3, <2>4, FS_UNION
  <2> QED BY <2>5 DEF Weighed
<1>3. s \in SUBSET s
  OBVIOUS
<1>4. IsFiniteSet(Weighed(f, s)) /\ Total(f, s) \in Nat
  BY <1>2, <1>3, FS_CardinalityType DEF Total
<1>5. ASSUME s = {} PROVE Total(f, s) = 0
  <2>1. Weighed(f, s) = {}
    BY <1>5 DEF Weighed
  <2> QED BY <2>1, FS_EmptySet DEF Total
<1>6. ASSUME NEW x \in s PROVE Total(f, s) = f[x] + Total(f, s \ {x})
  <2> DEFINE A == {x} \X (1..f[x])
             B == Weighed(f, s \ {x})
  <2>1. Weighed(f, s) = A \cup B
    BY DEF Weighed
  <2>2. A \cap B = {}
    BY DEF Weighed
  <2>3. IsFiniteSet(A) /\ Cardinality(A) = f[x]
    BY <1>1
  <2>4. IsFiniteSet(B) /\ Cardinality(B) \in Nat
    BY <1>2, FS_CardinalityType
  <2> HIDE DEF A, B
  <2>5. Cardinality(A \cup B) = Cardinality(A) + Cardinality(B) - Cardinality(A \cap B)
    BY <2>3, <2>4, FS_Union
  <2>6. Cardinality(A \cap B) = 0
    BY <2>2, FS_EmptySet
  <2>7. f[x] \in Nat
    OBVIOUS
  <2>8. Cardinality(A \cup B) = f[x] + Cardinality(B)
    BY <2>3, <2>4, <2>5, <2>6, <2>7
  <2> QED BY <2>1, <2>8 DEF Total, B
<1> QED BY <1>4, <1>5, <1>6

(* MapThenSumSet computes it.                                              *)
One(s) == CHOOSE x \in s : TRUE
Folds(h, f, S) ==
    h = [s \in SUBSET S |-> IF s = {} THEN 0 ELSE f[One(s)] + h[s \ {One(s)}]]

LEMMA OneIs == \A s : s # {} => One(s) \in s
BY DEF One

LEMMA TotalFolds ==
    ASSUME NEW S, IsFiniteSet(S), NEW f, \A x \in S : f[x] \in Nat
    PROVE  Folds([s \in SUBSET S |-> Total(f, s)], f, S)
<1> DEFINE h == [s \in SUBSET S |-> Total(f, s)]
<1>1. ASSUME NEW s \in SUBSET S
      PROVE  Total(f, s) = IF s = {} THEN 0 ELSE f[One(s)] + h[s \ {One(s)}]
  <2>1. IsFiniteSet(s) /\ \A x \in s : f[x] \in Nat
    BY FS_Subset
  <2>2. CASE s = {}
    BY <2>1, <2>2, TotalIs
  <2>3. CASE s # {}
    <3>1. One(s) \in s /\ s \ {One(s)} \in SUBSET S
      BY <2>3, OneIs
    <3>2. Total(f, s) = f[One(s)] + Total(f, s \ {One(s)})
      BY <2>1, <3>1, TotalIs
    <3> QED BY <2>3, <3>1, <3>2
  <2> QED BY <2>2, <2>3
<1> QED BY <1>1 DEF Folds

LEMMA FoldsTotal ==
    ASSUME NEW S, IsFiniteSet(S), NEW f, \A x \in S : f[x] \in Nat, NEW h, Folds(h, f, S)
    PROVE  h[S] = Total(f, S)
<1> DEFINE B == {s \in SUBSET S : h[s] # Total(f, s)}
<1>1. SUFFICES ASSUME B # {} PROVE FALSE
  OBVIOUS
<1>2. PICK s \in B : \A x \in s : s \ {x} \notin B
  <2>1. B \in SUBSET (SUBSET S)
    OBVIOUS
  <2> HIDE DEF B
  <2> QED BY <1>1, <2>1, MinimalSubset
<1>3. IsFiniteSet(s) /\ s \in SUBSET S /\ \A x \in s : f[x] \in Nat
  BY FS_Subset
<1>4. h[s] = IF s = {} THEN 0 ELSE f[One(s)] + h[s \ {One(s)}]
  BY <1>3 DEF Folds
<1>5. CASE s = {}
  BY <1>3, <1>4, <1>5, TotalIs
<1>6. CASE s # {}
  <2>1. One(s) \in s /\ s \ {One(s)} \in SUBSET S
    BY <1>3, <1>6, OneIs
  <2>2. h[s \ {One(s)}] = Total(f, s \ {One(s)})
    BY <1>2, <2>1
  <2>3. Total(f, s) = f[One(s)] + Total(f, s \ {One(s)})
    BY <1>3, <2>1, TotalIs
  <2> QED BY <1>4, <1>6, <2>2, <2>3
<1> QED BY <1>5, <1>6

(* The gradient a function is run with.                                    *)
ValueOf(now, held) == MapThenSumSet(LAMBDA o : now[held[o]], DOMAIN held)

LEMMA ValueIs ==
    ASSUME NEW now, NEW held, NEW k \in {1, 2}, DOMAIN held = 1..k,
           \A o \in 1..k : now[held[o]] \in Nat
    PROVE  ValueOf(now, held) = IF k = 2 THEN now[held[1]] + now[held[2]] ELSE now[held[1]]
<1> DEFINE S == DOMAIN held
           f == [o \in S |-> now[held[o]]]
           Rec(h) == h = [s \in SUBSET S |-> IF s = {} THEN 0
                                             ELSE now[held[One(s)]] + h[s \ {One(s)}]]
           h == CHOOSE g : Rec(g)
<1>1. ValueOf(now, held) = h[S]
  BY DEF ValueOf, MapThenSumSet, MapThenFoldSet, One
<1>2. IsFiniteSet(S) /\ \A x \in S : f[x] \in Nat
  <2>1. k \in Int /\ 1 \in Int
    OBVIOUS
  <2> QED BY <2>1, FS_Interval
<1>3. ASSUME NEW g PROVE Rec(g) <=> Folds(g, f, S)
  <2>1. ASSUME NEW s \in SUBSET S, s # {} PROVE f[One(s)] = now[held[One(s)]]
    <3>1. One(s) \in S
      BY <2>1, OneIs
    <3> QED BY <3>1
  <2> HIDE DEF f, S
  <2>2. [s \in SUBSET S |-> IF s = {} THEN 0 ELSE now[held[One(s)]] + g[s \ {One(s)}]]
        = [s \in SUBSET S |-> IF s = {} THEN 0 ELSE f[One(s)] + g[s \ {One(s)}]]
    BY <2>1
  <2> QED BY <2>2 DEF Folds
<1>4. \E g : Rec(g)
  <2> HIDE DEF f, S, Rec
  <2> QED BY <1>2, <1>3, TotalFolds
<1>5. Rec(h)
  <2> HIDE DEF Rec
  <2> QED BY <1>4
<1>6. h[S] = Total(f, S)
  <2> HIDE DEF f, S, Rec, h
  <2> QED BY <1>2, <1>3, <1>5, FoldsTotal
<1> HIDE DEF Rec, h
<1>7. CASE k = 1
  <2>1. S = {1} /\ 1 \in S /\ S \ {1} = {} /\ f[1] = now[held[1]]
    BY <1>7
  <2>2. Total(f, S) = f[1] + Total(f, S \ {1})
    BY <1>2, <2>1, TotalIs, Zenon
  <2>3. Total(f, S \ {1}) = 0
    BY <2>1, TotalIs, FS_EmptySet
  <2> QED BY <1>1, <1>2, <1>6, <1>7, <2>1, <2>2, <2>3
<1>8. CASE k = 2
  <2>1. S = {1, 2} /\ S \ {1} = {2} /\ {2} \ {2} = {} /\ f[1] = now[held[1]] /\ f[2] = now[held[2]]
    BY <1>8
  <2>2. Total(f, S) = f[1] + Total(f, {2})
    BY <1>2, <2>1, TotalIs
  <2>3. Total(f, {2}) = f[2] + Total(f, {})
    <3>1. IsFiniteSet({2}) /\ 2 \in {2} /\ \A x \in {2} : f[x] \in Nat
      BY <1>2, <2>1, FS_Singleton
    <3>2. Total(f, {2}) = f[2] + Total(f, {2} \ {2})
      BY <3>1, TotalIs, Zenon
    <3> QED BY <2>1, <3>2
  <2>4. Total(f, {}) = 0
    BY TotalIs, FS_EmptySet
  <2>5. f[1] \in Nat /\ f[2] \in Nat
    BY <1>2, <2>1
  <2> QED BY <1>1, <1>6, <1>8, <2>1, <2>2, <2>3, <2>4, <2>5
<1> QED BY <1>7, <1>8

-----------------------------------------------------------------------------
(* The graph.                                                              *)
LEMMA FunctionsAre ==
    ASSUME Types
    PROVE  /\ Leaves \subseteq Nodes /\ Functions \subseteq Nodes /\ Nodes \subseteq Nat
           /\ Leaves \cap Functions = {} /\ NoGrad \notin Nodes /\ Leaves \subseteq Nat
           /\ Len(graph) \in Nat /\ NumLeaves \in Nat
           /\ \A n : n \in Functions <=> n \in Nat /\ NumLeaves < n /\ n <= NumLeaves + Len(graph)
           /\ \A n \in Functions :
                 /\ Fn(n) \in [kind : Kinds, inputs : Seq((Nodes \cup {NoGrad}) \X {1, 2})]
                 /\ DOMAIN Fn(n).inputs = 1..Len(Fn(n).inputs) /\ Len(Fn(n).inputs) \in Nat
           /\ MaxFunctions \in Nat /\ Len(graph) <= MaxFunctions
<1>1. NumLeaves \in Nat /\ MaxFunctions \in Nat /\ Len(graph) \in Nat /\ Len(graph) <= MaxFunctions
      /\ DOMAIN graph = 1..Len(graph)
  BY AutogradAssumption DEF Types
<1>2. ASSUME NEW n
      PROVE  n \in Functions <=> n \in Nat /\ NumLeaves < n /\ n <= NumLeaves + Len(graph)
  <2>1. ASSUME n \in Functions PROVE n \in Nat /\ NumLeaves < n /\ n <= NumLeaves + Len(graph)
    BY <1>1, <2>1 DEF Functions, Node
  <2>2. ASSUME n \in Nat, NumLeaves < n, n <= NumLeaves + Len(graph) PROVE n \in Functions
    <3>1. n - NumLeaves \in DOMAIN graph /\ Node(n - NumLeaves) = n
      BY <1>1, <2>2 DEF Node
    <3> QED BY <3>1 DEF Functions
  <2> QED BY <2>1, <2>2
<1>3. ASSUME NEW n \in Functions
      PROVE  /\ Fn(n) \in [kind : Kinds, inputs : Seq((Nodes \cup {NoGrad}) \X {1, 2})]
             /\ DOMAIN Fn(n).inputs = 1..Len(Fn(n).inputs) /\ Len(Fn(n).inputs) \in Nat
  <2>1. n - NumLeaves \in DOMAIN graph
    BY <1>1, <1>2
  <2> DEFINE R == [kind : Kinds, inputs : Seq((Nodes \cup {NoGrad}) \X {1, 2})]
  <2>2. graph \in Seq(R)
    BY DEF Types
  <2>3. \A f \in R : f.inputs \in Seq((Nodes \cup {NoGrad}) \X {1, 2})
    OBVIOUS
  <2> HIDE DEF R
  <2>4. graph[n - NumLeaves] \in R
    BY <2>1, <2>2
  <2>5. Fn(n) \in R
    BY <2>4 DEF Fn
  <2>6. Fn(n).inputs \in Seq((Nodes \cup {NoGrad}) \X {1, 2})
    BY <2>3, <2>5
  <2> QED BY <2>5, <2>6 DEF R
<1>4. Leaves \subseteq Nodes /\ Functions \subseteq Nodes /\ Nodes \subseteq Nat
      /\ Leaves \cap Functions = {} /\ NoGrad \notin Nodes /\ Leaves \subseteq Nat
  BY <1>1, <1>2 DEF Leaves, Nodes, Node, NoGrad
<1> QED BY <1>1, <1>2, <1>3, <1>4

(* The buffers, and who refers to them.                                    *)
LEMMA HeapIs ==
    ASSUME Types
    PROVE  /\ Len(heap) \in Nat /\ DOMAIN heap = 1..Len(heap)
           /\ \A b \in 1..Len(heap) : heap[b] \in Nat \ {0}
           /\ \A n \in Leaves \cup Functions : /\ DOMAIN slots[n] = 1..Results(n)
                                               /\ Results(n) \in {1, 2}
           /\ \A n \in Nodes : \A o \in DOMAIN slots[n] :
                 slots[n][o] \in 0..Len(heap) /\ (slots[n][o] # Null => slots[n][o] \in 1..Len(heap))
           /\ \A l \in Leaves : grad[l] \in 0..Len(heap) /\ (grad[l] # Null => grad[l] \in 1..Len(heap))
           /\ \A j \in DOMAIN stack : stack[j][3] \in 1..Len(heap)
           /\ \A n \in Nodes \ (Leaves \cup Functions) : DOMAIN slots[n] = {}
           /\ stack \in Seq(Nodes \X {1, 2} \X (1..Len(heap)))
           /\ Len(stack) \in Nat /\ DOMAIN stack = 1..Len(stack)
           /\ \A n \in Nodes : slots[n] \in Seq(0..Len(heap))
           /\ \A n \in Nodes : deps[n] \in Nat /\ reached[n] \in Nat /\ given[n] \in Nat
           /\ \A n \in Leaves : given[n] = 0
<1>1. heap \in Seq(Nat \ {0})
  BY DEF Types
<1>2. Len(heap) \in Nat /\ DOMAIN heap = 1..Len(heap) /\ \A b \in 1..Len(heap) : heap[b] \in Nat \ {0}
  BY <1>1
<1>3. ASSUME NEW n \in Leaves \cup Functions
      PROVE  DOMAIN slots[n] = 1..Results(n) /\ Results(n) \in {1, 2}
  <2>1. slots[n] \in Seq(0..Len(heap)) /\ Len(slots[n]) = Results(n)
    BY FunctionsAre DEF Types
  <2> QED BY <2>1 DEF Results, Outputs
<1>4. ASSUME NEW n \in Nodes, NEW o \in DOMAIN slots[n]
      PROVE  slots[n][o] \in 0..Len(heap) /\ (slots[n][o] # Null => slots[n][o] \in 1..Len(heap))
  <2>1. slots[n] \in Seq(0..Len(heap))
    BY DEF Types
  <2>2. slots[n][o] \in 0..Len(heap)
    BY <2>1
  <2> QED BY <1>2, <2>2 DEF Null
<1>5. ASSUME NEW l \in Leaves
      PROVE  grad[l] \in 0..Len(heap) /\ (grad[l] # Null => grad[l] \in 1..Len(heap))
  <2>1. grad[l] \in 0..Len(heap)
    BY DEF Types
  <2> QED BY <1>2, <2>1 DEF Null
<1>6. ASSUME NEW j \in DOMAIN stack PROVE stack[j][3] \in 1..Len(heap)
  <2>1. stack[j] \in Nodes \X {1, 2} \X (1..Len(heap))
    BY DEF Types
  <2> QED BY <2>1
<1>7. \A n \in Nodes \ (Leaves \cup Functions) : DOMAIN slots[n] = {}
  <2>1. \A n \in Nodes \ (Leaves \cup Functions) : slots[n] = <<>>
    BY DEF Types
  <2> QED BY <2>1
<1> DEFINE T == Nodes \X {1, 2} \X (1..Len(heap))
<1>8. stack \in Seq(T)
  BY Zenon DEF Types
<1>9. Len(stack) \in Nat /\ DOMAIN stack = 1..Len(stack)
  <2> HIDE DEF T
  <2> QED BY <1>8
<1>10. \A n \in Nodes : slots[n] \in Seq(0..Len(heap))
  BY Zenon DEF Types
<1>11. \A n \in Nodes : deps[n] \in Nat /\ reached[n] \in Nat /\ given[n] \in Nat
  BY Zenon DEF Types
<1>12. \A n \in Leaves : given[n] = 0
  BY FunctionsAre DEF Types
<1> QED BY <1>2, <1>3, <1>4, <1>5, <1>6, <1>7, <1>8, <1>9, <1>10, <1>11, <1>12

LEMMA UsesAre ==
    ASSUME Types, GraphInv
    PROVE  /\ \A n, e : e \in Uses(n) <=>
                 /\ e \in Functions \X {1, 2} /\ e = <<e[1], e[2]>>
                 /\ e[2] \in DOMAIN Fn(e[1]).inputs /\ Fn(e[1]).inputs[e[2]][1] = n
           /\ \A m \in Functions : DOMAIN Fn(m).inputs \subseteq {1, 2}
           /\ \A n : \A e \in Uses(n) : e[1] \in Consumers(n) /\ n < e[1]
           /\ \A n : \A m \in Consumers(n) : \E i \in {1, 2} : <<m, i>> \in Uses(n)
           /\ \A n : n \in Sinks <=> n \in Functions /\ Uses(n) = {}
<1>1. \A m \in Functions : DOMAIN Fn(m).inputs \subseteq {1, 2}
  BY FunctionsAre DEF GraphInv
<1>2. ASSUME NEW n, NEW e
      PROVE  e \in Uses(n) <=>
                 /\ e \in Functions \X {1, 2} /\ e = <<e[1], e[2]>>
                 /\ e[2] \in DOMAIN Fn(e[1]).inputs /\ Fn(e[1]).inputs[e[2]][1] = n
  BY DEF Uses, Edges
<1>3. ASSUME NEW n, NEW m, NEW i, i \in Edges(m, n), m \in Functions
      PROVE  <<m, i>> \in Uses(n) /\ i \in {1, 2}
  BY <1>1, <1>3 DEF Uses, Edges
<1>4. ASSUME NEW n, NEW e \in Uses(n) PROVE e[1] \in Consumers(n) /\ n < e[1]
  <2>1. e \in Functions \X {1, 2} /\ e[2] \in DOMAIN Fn(e[1]).inputs /\ Fn(e[1]).inputs[e[2]][1] = n
    BY <1>2
  <2>2. e[2] \in Edges(e[1], n) /\ e[1] \in Functions
    BY <2>1 DEF Edges
  <2>3. Fn(e[1]).inputs[e[2]][1] < e[1]
    BY <2>1 DEF GraphInv
  <2> QED BY <2>1, <2>2, <2>3 DEF Consumers
<1>5. ASSUME NEW n, NEW m \in Consumers(n) PROVE \E i \in {1, 2} : <<m, i>> \in Uses(n)
  <2>1. PICK i : i \in Edges(m, n) /\ m \in Functions
    BY DEF Consumers
  <2> QED BY <1>3, <2>1
<1>6. ASSUME NEW n PROVE n \in Sinks <=> n \in Functions /\ Uses(n) = {}
  BY <1>4, <1>5 DEF Sinks
<1> QED BY <1>1, <1>2, <1>4, <1>5, <1>6

LEMMA FiniteUses ==
    ASSUME Types
    PROVE  /\ IsFiniteSet(Functions \X {1, 2})
           /\ \A S \in SUBSET (Functions \X {1, 2}) : IsFiniteSet(S) /\ Cardinality(S) \in Nat
           /\ \A uses, n : /\ Outstanding(uses, n) \subseteq Uses(n)
                           /\ Uses(n) \subseteq Functions \X {1, 2}
                           /\ IsFiniteSet(Outstanding(uses, n))
                           /\ Cardinality(Outstanding(uses, n)) \in Nat
                           /\ Cardinality(Outstanding(uses, n)) = 0 => Outstanding(uses, n) = {}
<1>1. IsFiniteSet(Functions)
  <2> DEFINE b == NumLeaves + Len(graph)
  <2>1. b \in Int /\ 0 \in Int
    BY FunctionsAre
  <2>2. Functions \subseteq 0..b
    BY FunctionsAre
  <2> HIDE DEF b
  <2>3. IsFiniteSet(0..b)
    BY <2>1, FS_Interval
  <2> QED BY <2>2, <2>3, FS_Subset
<1>2. IsFiniteSet({1, 2})
  <2>1. IsFiniteSet({1})
    BY FS_Singleton
  <2>2. IsFiniteSet({1} \cup {2})
    BY <2>1, FS_AddElement
  <2>3. {1} \cup {2} = {1, 2}
    OBVIOUS
  <2> QED BY <2>2, <2>3
<1>3. IsFiniteSet(Functions \X {1, 2})
  BY <1>1, <1>2, FS_Product
<1>4. ASSUME NEW S \in SUBSET (Functions \X {1, 2}) PROVE IsFiniteSet(S) /\ Cardinality(S) \in Nat
  BY <1>3, FS_Subset, FS_CardinalityType
<1>5. ASSUME NEW uses, NEW n
      PROVE  /\ Outstanding(uses, n) \subseteq Uses(n)
             /\ Uses(n) \subseteq Functions \X {1, 2}
             /\ IsFiniteSet(Outstanding(uses, n))
             /\ Cardinality(Outstanding(uses, n)) \in Nat
             /\ Cardinality(Outstanding(uses, n)) = 0 => Outstanding(uses, n) = {}
  <2>1. Outstanding(uses, n) \subseteq Uses(n) /\ Uses(n) \subseteq Functions \X {1, 2}
    BY DEF Outstanding, Uses
  <2>2. IsFiniteSet(Outstanding(uses, n)) /\ Cardinality(Outstanding(uses, n)) \in Nat
    BY <1>4, <2>1
  <2> QED BY <2>1, <2>2, FS_EmptySet
<1> QED BY <1>3, <1>4, <1>5

LEMMA FunctionSeq ==
    ASSUME NEW k \in Nat, NEW S, NEW s \in [1..k -> S]
    PROVE  s \in Seq(S) /\ Len(s) = k /\ DOMAIN s = 1..k
<1> DEFINE t == [i \in 1..k |-> s[i]]
<1>1. t \in Seq(S) /\ Len(t) = k
  OBVIOUS
<1>2. s = t
  OBVIOUS
<1> HIDE DEF t
<1> QED BY <1>1, <1>2

(* The order in which a function serves its inputs.                        *)
InOrder(n, s) ==
    /\ s \in Seq({1, 2}) /\ Len(s) \in {1, 2}
    /\ {s[k] : k \in DOMAIN s} = LiveEdges(n)
    /\ \A i, j \in DOMAIN s : s[i] = s[j] => i = j
    /\ \A i, j \in DOMAIN s : i < j => ServedBefore(n, s[i], s[j])

LEMMA ServedInOrder ==
    ASSUME Types, GraphInv, NEW n \in Functions
    PROVE  InOrder(n, ServedEdges(n))
<1> DEFINE E == LiveEdges(n)
           Good(s) == s \in [1..Cardinality(E) -> E] /\
                      \A i, j \in DOMAIN s : i < j => ServedBefore(n, s[i], s[j])
<1>1. E \in SUBSET {1, 2} /\ E # {}
  BY UsesAre DEF LiveEdges, GraphInv
<1>2. \A i \in {1, 2} : ~ServedBefore(n, i, i)
  BY DEF ServedBefore
<1>3. ServedBefore(n, 1, 2) \/ ServedBefore(n, 2, 1)
  BY DEF ServedBefore
<1>4. ServedEdges(n) = CHOOSE s : Good(s)
  BY DEF ServedEdges, Ordered
<1> HIDE DEF E
<1>5. E = {1} \/ E = {2} \/ E = {1, 2}
  BY <1>1
<1>6. ASSUME NEW x, E = {x}, x \in {1, 2} PROVE InOrder(n, ServedEdges(n))
  <2>1. Cardinality(E) = 1
    BY <1>6, FS_Singleton
  <2>2. Good([i \in 1..1 |-> x])
    BY <1>6, <2>1
  <2>3. Good(ServedEdges(n))
    <3> HIDE DEF Good
    <3> QED BY <1>4, <2>2
  <2>4. ServedEdges(n) \in [1..1 -> {x}]
    BY <1>6, <2>1, <2>3
  <2> DEFINE s == ServedEdges(n)
  <2> HIDE DEF s
  <2>5. s \in Seq({1, 2}) /\ Len(s) = 1 /\ DOMAIN s = {1} /\ s[1] = x
    <3>1. s \in [1..1 -> {1, 2}] /\ s[1] = x
      BY <1>6, <2>4 DEF s
    <3>3. 1 \in Nat
      OBVIOUS
    <3>2. s \in Seq({1, 2}) /\ Len(s) = 1 /\ DOMAIN s = 1..1
      BY <3>1, <3>3, FunctionSeq, Zenon
    <3> QED BY <3>1, <3>2
  <2> QED BY <1>6, <2>5 DEF InOrder, s, E
<1>7. ASSUME E = {1, 2} PROVE InOrder(n, ServedEdges(n))
  <2>1. Cardinality(E) = 2
    <3>1. IsFiniteSet({1}) /\ Cardinality({1}) = 1
      BY FS_Singleton
    <3>2. Cardinality({1} \cup {2}) = 2
      BY <3>1, FS_AddElement
    <3>3. {1} \cup {2} = {1, 2}
      OBVIOUS
    <3> QED BY <1>7, <3>2, <3>3
  <2>2. \E s : Good(s)
    <3>1. CASE ServedBefore(n, 1, 2)
      <4>1. Good([i \in 1..2 |-> i])
        BY <1>7, <2>1, <3>1
      <4> QED BY <4>1
    <3>2. CASE ServedBefore(n, 2, 1)
      <4>1. Good([i \in 1..2 |-> 3 - i])
        BY <1>7, <2>1, <3>2
      <4> QED BY <4>1
    <3> QED BY <1>3, <3>1, <3>2
  <2>3. Good(ServedEdges(n))
    <3> HIDE DEF Good
    <3> QED BY <1>4, <2>2
  <2> DEFINE s == ServedEdges(n)
  <2>4. s \in [1..2 -> {1, 2}] /\ \A i, j \in 1..2 : i < j => ServedBefore(n, s[i], s[j])
    BY <1>7, <2>1, <2>3
  <2> HIDE DEF s
  <2>5. ServedBefore(n, s[1], s[2])
    BY <2>4
  <2>6. s[1] # s[2] /\ s[1] \in {1, 2} /\ s[2] \in {1, 2}
    BY <1>2, <2>4, <2>5
  <2>7. s \in Seq({1, 2}) /\ Len(s) = 2 /\ DOMAIN s = {1, 2}
    <3>1. s \in [1..2 -> {1, 2}] /\ 2 \in Nat
      BY <2>4
    <3>2. s \in Seq({1, 2}) /\ Len(s) = 2 /\ DOMAIN s = 1..2
      BY <3>1, FunctionSeq, Zenon
    <3> QED BY <3>2
  <2>8. {s[k] : k \in DOMAIN s} = E
    BY <1>7, <2>6, <2>7
  <2>9. \A i, j \in DOMAIN s : i < j => ServedBefore(n, s[i], s[j])
    BY <2>4, <2>7
  <2> QED BY <2>6, <2>7, <2>8, <2>9 DEF InOrder, s, E
<1> QED BY <1>5, <1>6, <1>7

-----------------------------------------------------------------------------
(* The initial state, and functions applied.                               *)
LEMMA InitInv == Init => IInv
<1> SUFFICES ASSUME Init PROVE IInv
  OBVIOUS
<1>1. /\ Functions = {} /\ graph = <<>> /\ stack = <<>> /\ heap = <<>> /\ Len(heap) = 0
      /\ \A n : Uses(n) = {}
  BY DEF Init, Functions, Uses
<1>2. NumLeaves \in Nat /\ MaxFunctions \in Nat /\ Leaves \subseteq Nodes
  BY AutogradAssumption DEF Leaves, Nodes, Node
<1>3. Types
  <2>1. graph \in Seq([kind : Kinds, inputs : Seq((Nodes \cup {NoGrad}) \X {1, 2})])
        /\ Len(graph) <= MaxFunctions
    BY <1>1, <1>2
  <2>2. slots \in [Nodes -> Seq(0..Len(heap))]
    <3>1. <<Null>> \in Seq(0..Len(heap)) /\ <<>> \in Seq(0..Len(heap))
      BY <1>1 DEF Null
    <3> QED BY <3>1 DEF Init
  <2>3. \A n \in Leaves \cup Functions : Len(slots[n]) = Results(n)
    BY <1>1, <1>2 DEF Init, Results
  <2>4. grad \in [Leaves -> 0..Len(heap)]
    BY <1>1 DEF Init, Null
  <2>5. stack \in Seq(Nodes \X {1, 2} \X (1..Len(heap))) /\ heap \in Seq(Nat \ {0})
    BY <1>1
  <2> QED BY <2>1, <2>2, <2>3, <2>4, <2>5 DEF Types, Init
<1>4. GraphInv /\ StartInv
  BY <1>1 DEF GraphInv, StartInv, Starting
<1>5. Lists(<<>>)
  BY <1>1 DEF Lists, Starting
<1>6. \A uses, n : Outstanding(uses, n) = {} /\ Arrived(uses, n) = {}
  BY <1>1 DEF Outstanding, Arrived
<1>7. Counts(<<>>)
  <2>1. Cardinality({}) = 0
    BY FS_EmptySet
  <2>2. \A n \in Leaves : slots[n] = <<Null>> /\ given[n] = 0 /\ deps[n] = 0 /\ reached[n] = 0
    BY <1>2 DEF Init
  <2>3. \A n \in Leaves : NoneHeld(n) /\ ~AllHeld(n)
    BY <2>2 DEF NoneHeld, AllHeld
  <2>4. \A n \in Leaves : deps[n] = reached[n] + Cardinality(Outstanding(<<>>, n))
    <3>1. ASSUME NEW n \in Leaves PROVE Cardinality(Outstanding(<<>>, n)) = 0
      <4>1. Outstanding(<<>>, n) = {}
        BY <1>6
      <4> QED BY <2>1, <4>1
    <3> QED BY <2>2, <3>1
  <2>5. Leaves \cup Functions = Leaves /\ \A n \in Leaves : ~(reached[n] > 0)
    BY <1>1, <2>2
  <2> QED BY <1>1, <2>2, <2>3, <2>4, <2>5 DEF Counts
<1> QED BY <1>3, <1>4, <1>5, <1>7 DEF IInv

LEMMA TensorsAre ==
    ASSUME Types, NEW t \in Tensors
    PROVE  /\ t \in (Nodes \cup {NoGrad}) \X {1, 2} /\ t[1] \in Nat
           /\ t[1] <= NumLeaves + Len(graph) /\ t[2] \in 1..Results(t[1])
           /\ t[1] \in Functions => given[t[1]] = 0 /\ ~IsBranch(t[1])
<1>0. NoGrad \notin Functions /\ NoGrad = 0
  BY FunctionsAre DEF NoGrad
<1>1. CASE t = <<NoGrad, 1>>
  BY <1>0, <1>1, FunctionsAre DEF Results
<1>2. CASE t \in Leaves \X {1}
  <2>1. t[1] \in Leaves /\ t[2] = 1 /\ t[1] \notin Functions /\ t = <<t[1], t[2]>>
    BY <1>2, FunctionsAre
  <2>2. t[1] <= NumLeaves
    BY <2>1, FunctionsAre DEF Leaves
  <2> QED BY <2>1, <2>2, FunctionsAre DEF Results
<1>3. CASE t \in Functions \X {1, 2} /\ given[t[1]] = 0 /\ t[2] <= Outputs(Fn(t[1]).kind)
           /\ ~IsBranch(t[1])
  <2>1. t[1] \in Functions /\ t[2] \in {1, 2} /\ t = <<t[1], t[2]>>
    BY <1>3
  <2> QED BY <1>3, <2>1, FunctionsAre DEF Results, Outputs
<1> QED BY <1>1, <1>2, <1>3 DEF Tensors

LEMMA InputsAre ==
    ASSUME Types, NEW kind \in Kinds, NEW inputs \in InputsOf(kind)
    PROVE  /\ inputs \in Seq((Nodes \cup {NoGrad}) \X {1, 2})
           /\ Len(inputs) \in {1, 2} /\ DOMAIN inputs = 1..Len(inputs)
           /\ kind = "add" => Len(inputs) = 2
           /\ kind \in {"view", "split"} => Len(inputs) = 1
           /\ \A i \in DOMAIN inputs : inputs[i] \in Tensors
<1> DEFINE T == (Nodes \cup {NoGrad}) \X {1, 2}
<1>0. \A t \in Tensors : t \in T
  BY TensorsAre
<1>1. ASSUME NEW t \in Tensors, inputs = <<t>>
      PROVE  inputs \in Seq(T) /\ Len(inputs) = 1 /\ DOMAIN inputs = 1..1 /\ inputs[1] \in Tensors
  BY <1>0, <1>1
<1>2. ASSUME inputs \in Tensors \X Tensors
      PROVE  /\ inputs \in Seq(T) /\ Len(inputs) = 2 /\ DOMAIN inputs = 1..2
             /\ inputs[1] \in Tensors /\ inputs[2] \in Tensors
  <2>1. PICK a \in Tensors, b \in Tensors : inputs = <<a, b>>
    BY <1>2
  <2>2. a \in T /\ b \in T
    BY <1>0
  <2> HIDE DEF T
  <2> QED BY <2>1, <2>2
<1>3. CASE kind = "kernel"
  <2>1. inputs \in Tensors \X Tensors \/ \E t \in Tensors : inputs = <<t>>
    BY <1>3 DEF InputsOf
  <2> HIDE DEF T
  <2>2. \A i \in 1..2 : i = 1 \/ i = 2
    OBVIOUS
  <2>3. \A i \in 1..1 : i = 1
    OBVIOUS
  <2>4. CASE inputs \in Tensors \X Tensors
    BY <1>2, <1>3, <2>2, <2>4 DEF T
  <2>5. CASE \E t \in Tensors : inputs = <<t>>
    BY <1>1, <1>3, <2>3, <2>5 DEF T
  <2> QED BY <2>1, <2>4, <2>5
<1>4. CASE kind = "add"
  <2>1. inputs \in Tensors \X Tensors
    BY <1>4 DEF InputsOf
  <2>2. \A i \in 1..2 : i = 1 \/ i = 2
    OBVIOUS
  <2> HIDE DEF T
  <2> QED BY <1>2, <1>4, <2>1, <2>2 DEF T
<1>5. CASE kind \in {"view", "split"}
  <2>1. \E t \in Tensors : inputs = <<t>>
    BY <1>5 DEF InputsOf
  <2>3. \A i \in 1..1 : i = 1
    OBVIOUS
  <2> HIDE DEF T
  <2> QED BY <1>1, <1>5, <2>1, <2>3 DEF T
<1> QED BY <1>3, <1>4, <1>5, AutogradAssumption

LEMMA ApplyFacts ==
    ASSUME IInv, NEW kind \in Kinds, NEW inputs \in InputsOf(kind), Apply(kind, inputs),
           NEW n, n = Node(Len(graph) + 1)
    PROVE  /\ n \in Nodes /\ n \notin Functions /\ n \notin Leaves /\ n \in Nat
           /\ Functions' = Functions \cup {n}
           /\ \A m \in Functions : Fn(m)' = Fn(m) /\ m < n
           /\ \A m \in Leaves : m < n
           /\ Fn(n)' = [kind |-> kind, inputs |-> inputs]
           /\ \A m \in Leaves \cup Functions : Results(m)' = Results(m)
           /\ Results(n)' = Outputs(kind)
           /\ Len(graph') = Len(graph) + 1 /\ Len(graph') <= MaxFunctions
<1>1. /\ Len(graph) < MaxFunctions /\ graph' = Append(graph, [kind |-> kind, inputs |-> inputs])
  BY DEF Apply
<1>2. Len(graph) \in Nat /\ NumLeaves \in Nat /\ MaxFunctions \in Nat /\ Types
      /\ DOMAIN graph = 1..Len(graph) /\ n = NumLeaves + Len(graph) + 1
  BY FunctionsAre DEF IInv, Types, Node
<1>3. graph \in Seq([kind : Kinds, inputs : Seq((Nodes \cup {NoGrad}) \X {1, 2})])
  BY <1>2 DEF Types
<1>4. /\ Len(graph') = Len(graph) + 1 /\ DOMAIN graph' = 1..Len(graph) + 1
      /\ \A i \in 1..Len(graph) : graph'[i] = graph[i]
      /\ graph'[Len(graph) + 1] = [kind |-> kind, inputs |-> inputs]
  <2> DEFINE x == [kind |-> kind, inputs |-> inputs]
             R == [kind : Kinds, inputs : Seq((Nodes \cup {NoGrad}) \X {1, 2})]
  <2>1. graph \in Seq(R) /\ x \in R /\ graph' = Append(graph, x)
    BY <1>1, <1>2, <1>3, InputsAre
  <2> HIDE DEF x, R
  <2>2. /\ Len(graph') = Len(graph) + 1 /\ DOMAIN graph' = 1..Len(graph) + 1
        /\ \A i \in 1..Len(graph) : graph'[i] = graph[i]
        /\ graph'[Len(graph) + 1] = x
    BY <2>1
  <2> QED BY <2>2 DEF x
<1>5. Functions' = {Node(f) : f \in 1..Len(graph) + 1} /\ Functions = {Node(f) : f \in 1..Len(graph)}
  BY <1>2, <1>4 DEF Functions, Node
<1>6. \A f : f \in 1..Len(graph) + 1 <=> f \in 1..Len(graph) \/ f = Len(graph) + 1
  BY <1>2
<1>7. Functions' = Functions \cup {n}
  BY <1>5, <1>6
<1>8. n \in Nodes /\ n \notin Functions /\ n \notin Leaves /\ n \in Nat
  <2>1. n \in Nodes /\ n \notin Leaves /\ n \in Nat
    BY <1>1, <1>2 DEF Nodes, Leaves, Node
  <2>2. n \notin Functions
    BY <1>2, FunctionsAre
  <2> QED BY <2>1, <2>2
<1>9. ASSUME NEW m \in Functions PROVE Fn(m)' = Fn(m) /\ m < n
  <2>1. m - NumLeaves \in 1..Len(graph) /\ m < n
    BY <1>2, FunctionsAre
  <2>2. Fn(m)' = graph'[m - NumLeaves]
    BY DEF Fn
  <2> QED BY <1>4, <2>1, <2>2 DEF Fn
<1>10. Fn(n)' = [kind |-> kind, inputs |-> inputs]
  <2>1. n - NumLeaves = Len(graph) + 1
    BY <1>2
  <2>2. Fn(n)' = graph'[n - NumLeaves]
    BY DEF Fn, Node
  <2> QED BY <1>4, <2>1, <2>2
<1>11. \A m \in Leaves : m < n /\ m \notin Functions
  BY <1>2, FunctionsAre DEF Leaves
<1>12. \A m \in Leaves \cup Functions : Results(m)' = Results(m)
  <2>1. ASSUME NEW m \in Functions PROVE Results(m)' = Results(m)
    <3>1. m \in Functions' /\ Fn(m)' = Fn(m)
      BY <1>7, <1>9
    <3> QED BY <3>1 DEF Results, Outputs
  <2>2. ASSUME NEW m \in Leaves PROVE Results(m)' = Results(m)
    <3>1. m \notin Functions' /\ m \notin Functions
      BY <1>7, <1>8, <1>11
    <3> QED BY <3>1 DEF Results
  <2> QED BY <2>1, <2>2
<1>13. Results(n)' = Outputs(kind)
  <2>1. n \in Functions' /\ Fn(n)'.kind = kind
    BY <1>7, <1>10
  <2>2. Results(n)' = Outputs(Fn(n)'.kind)
    BY <2>1 DEF Results, Outputs
  <2> QED BY <2>1, <2>2
<1> QED BY <1>1, <1>2, <1>4, <1>7, <1>8, <1>9, <1>10, <1>11, <1>12, <1>13

(* The uses a new function n makes.                                        *)
NewUses(n, inputs, m) ==
    {<<n, i>> : i \in {j \in DOMAIN inputs : inputs[j][1] = m}}

LEMMA ApplyUses ==
    ASSUME IInv, NEW kind \in Kinds, NEW inputs \in InputsOf(kind), Apply(kind, inputs),
           NEW n, n = Node(Len(graph) + 1), NEW m
    PROVE  /\ Uses(m)' = Uses(m) \cup NewUses(n, inputs, m)
           /\ Uses(m) \cap NewUses(n, inputs, m) = {}
           /\ \A e \in NewUses(n, inputs, m) : e[1] = n
           /\ NewUses(n, inputs, m) = {} => {j \in DOMAIN inputs : inputs[j][1] = m} = {}
           /\ NewUses(n, inputs, m) # {} =>
                 m \in Leaves \cup {NoGrad} \/ (m \in Functions /\ given[m] = 0)
<1>1. /\ n \notin Functions /\ Functions' = Functions \cup {n}
      /\ \A k \in Functions : Fn(k)' = Fn(k)
      /\ Fn(n)' = [kind |-> kind, inputs |-> inputs]
  BY ApplyFacts
<1>2. DOMAIN inputs \subseteq {1, 2} /\ Types
  BY InputsAre DEF IInv
<1>3. ASSUME NEW e
      PROVE  e \in Uses(m)' <=> e \in Uses(m) \cup NewUses(n, inputs, m)
  <2>1. e \in Uses(m)' <=> /\ e \in Functions' \X {1, 2}
                           /\ e[2] \in DOMAIN Fn(e[1])'.inputs /\ Fn(e[1])'.inputs[e[2]][1] = m
    BY DEF Uses, Edges
  <2>2. e \in Uses(m) <=> /\ e \in Functions \X {1, 2}
                          /\ e[2] \in DOMAIN Fn(e[1]).inputs /\ Fn(e[1]).inputs[e[2]][1] = m
    BY DEF Uses, Edges
  <2>3. CASE e \in Functions \X {1, 2}
    <3>1. e[1] \in Functions /\ e[1] # n
      BY <1>1, <2>3
    <3>2. e \notin NewUses(n, inputs, m)
      BY <3>1 DEF NewUses
    <3>3. e \in Functions' \X {1, 2}
      BY <1>1, <2>3
    <3> QED BY <1>1, <2>1, <2>2, <2>3, <3>1, <3>2, <3>3
  <2>4. CASE e \in {n} \X {1, 2}
    <3>1. e[1] = n /\ e = <<n, e[2]>> /\ e[2] \in {1, 2} /\ e \in Functions' \X {1, 2}
      BY <1>1, <2>4
    <3>2. e \notin Uses(m)
      BY <1>1, <2>2, <3>1
    <3>3. e \in Uses(m)' <=> e[2] \in DOMAIN inputs /\ inputs[e[2]][1] = m
      BY <1>1, <2>1, <3>1
    <3>4. e \in NewUses(n, inputs, m) <=> e[2] \in DOMAIN inputs /\ inputs[e[2]][1] = m
      <4>1. ASSUME e \in NewUses(n, inputs, m) PROVE e[2] \in DOMAIN inputs /\ inputs[e[2]][1] = m
        BY <4>1 DEF NewUses
      <4>2. ASSUME e[2] \in DOMAIN inputs, inputs[e[2]][1] = m PROVE e \in NewUses(n, inputs, m)
        BY <3>1, <4>2 DEF NewUses
      <4> QED BY <4>1, <4>2
    <3> QED BY <3>2, <3>3, <3>4
  <2>5. CASE e \notin Functions' \X {1, 2}
    <3>1. e \notin Functions \X {1, 2}
      BY <1>1, <2>5
    <3>2. e \notin NewUses(n, inputs, m)
      <4>1. ASSUME e \in NewUses(n, inputs, m) PROVE e \in Functions' \X {1, 2}
        BY <1>1, <1>2, <4>1 DEF NewUses
      <4> QED BY <2>5, <4>1
    <3> QED BY <2>1, <2>2, <2>5, <3>1, <3>2
  <2>6. e \in Functions' \X {1, 2} => e \in Functions \X {1, 2} \/ e \in {n} \X {1, 2}
    BY <1>1
  <2> QED BY <2>3, <2>4, <2>5, <2>6
<1>4. \A e \in NewUses(n, inputs, m) : e[1] = n
  BY DEF NewUses
<1>5. Uses(m) \cap NewUses(n, inputs, m) = {}
  <2>1. \A e \in Uses(m) : e[1] \in Functions
    BY DEF Uses
  <2> QED BY <1>1, <1>4, <2>1
<1>6. NewUses(n, inputs, m) = {} => {j \in DOMAIN inputs : inputs[j][1] = m} = {}
  BY DEF NewUses
<1>7. NewUses(n, inputs, m) # {} =>
                 m \in Leaves \cup {NoGrad} \/ (m \in Functions /\ given[m] = 0)
  <2>1. ASSUME NEW t \in Tensors
        PROVE  t[1] \in Leaves \/ (t[1] \in Functions /\ given[t[1]] = 0) \/ t[1] = NoGrad
    BY DEF Tensors
  <2>2. \A j \in DOMAIN inputs : inputs[j] \in Tensors
    BY <1>2, InputsAre
  <2> QED BY <2>1, <2>2 DEF NewUses
<1>8. Uses(m)' = Uses(m) \cup NewUses(n, inputs, m)
  BY <1>3
<1> QED BY <1>4, <1>5, <1>6, <1>7, <1>8

LEMMA ApplyTypes ==
    ASSUME IInv, NEW kind \in Kinds, NEW inputs \in InputsOf(kind), Apply(kind, inputs)
    PROVE  Types' /\ GraphInv' /\ StartInv'
<1> DEFINE N == Node(Len(graph) + 1)
<1>0. PICK n : n = N
  OBVIOUS
<1>1. /\ n \in Nodes /\ n \notin Functions /\ n \notin Leaves /\ n \in Nat
      /\ Functions' = Functions \cup {n}
      /\ \A m \in Functions : Fn(m)' = Fn(m) /\ m < n
      /\ \A m \in Leaves : m < n
      /\ Fn(n)' = [kind |-> kind, inputs |-> inputs]
      /\ \A m \in Leaves \cup Functions : Results(m)' = Results(m)
      /\ Results(n)' = Outputs(kind)
      /\ Len(graph') = Len(graph) + 1 /\ Len(graph') <= MaxFunctions
  BY <1>0, ApplyFacts
<1>2. /\ inputs \in Seq((Nodes \cup {NoGrad}) \X {1, 2})
      /\ Len(inputs) \in {1, 2} /\ DOMAIN inputs = 1..Len(inputs)
      /\ kind = "add" => Len(inputs) = 2
      /\ kind \in {"view", "split"} => Len(inputs) = 1
      /\ \A i \in DOMAIN inputs : inputs[i] \in Tensors
  BY InputsAre DEF IInv
<1>3. /\ stack = <<>> /\ UNCHANGED <<reached, given, heap, grad, stack>>
      /\ graph' = Append(graph, [kind |-> kind, inputs |-> inputs])
      /\ deps' = Counted(deps, inputs)
      /\ slots' = [slots EXCEPT ![n] = [o \in 1..Outputs(kind) |-> Null]]
      /\ \E i \in DOMAIN inputs : inputs[i][1] # NoGrad
  BY <1>0 DEF Apply
<1>4. Types
  BY DEF IInv
<1> HIDE DEF N
<1>5. Outputs(kind) \in {1, 2}
  BY DEF Outputs
<1>6. deps' \in [Nodes -> Nat] /\ \A m \in Nodes :
          deps'[m] = deps[m] + Cardinality({j \in DOMAIN inputs : inputs[j][1] = m})
  <2>1. ASSUME NEW m \in Nodes PROVE Cardinality({j \in DOMAIN inputs : inputs[j][1] = m}) \in Nat
    <3>1. IsFiniteSet(DOMAIN inputs)
      <4> DEFINE k == Len(inputs)
      <4>1. k \in Int /\ 1 \in Int /\ DOMAIN inputs = 1..k
        BY <1>2
      <4> HIDE DEF k
      <4> QED BY <4>1, FS_Interval
    <3>2. {j \in DOMAIN inputs : inputs[j][1] = m} \subseteq DOMAIN inputs
      OBVIOUS
    <3> QED BY <3>1, <3>2, FS_Subset, FS_CardinalityType
  <2> DEFINE c(m) == Cardinality({j \in DOMAIN inputs : inputs[j][1] = m})
  <2>2. deps' = [m \in Nodes |-> deps[m] + c(m)]
    BY <1>3 DEF Counted
  <2>3. deps \in [Nodes -> Nat] /\ \A m \in Nodes : c(m) \in Nat
    BY <1>4, <2>1 DEF Types
  <2> HIDE DEF c
  <2>4. deps' \in [Nodes -> Nat] /\ \A m \in Nodes : deps'[m] = deps[m] + c(m)
    BY <2>2, <2>3
  <2> QED BY <2>4 DEF c
<1>7. graph' \in Seq([kind : Kinds, inputs : Seq((Nodes \cup {NoGrad}) \X {1, 2})])
  <2> DEFINE R == [kind : Kinds, inputs : Seq((Nodes \cup {NoGrad}) \X {1, 2})]
             x == [kind |-> kind, inputs |-> inputs]
  <2>1. graph \in Seq(R) /\ x \in R /\ graph' = Append(graph, x)
    BY <1>2, <1>3, <1>4 DEF Types
  <2> HIDE DEF R, x
  <2>2. graph' \in Seq(R)
    BY <2>1
  <2> QED BY <2>2 DEF R
<1>8. /\ slots'[n] \in Seq(0..Len(heap)) /\ Len(slots'[n]) = Outputs(kind)
      /\ \A m \in Nodes \ {n} : slots'[m] = slots[m]
      /\ slots' \in [Nodes -> Seq(0..Len(heap))]
  <2> DEFINE s == [o \in 1..Outputs(kind) |-> Null]
  <2>1. Len(heap) \in Nat
    BY <1>4 DEF Types
  <2>2. Null \in 0..Len(heap)
    BY <2>1 DEF Null
  <2>3. s \in Seq(0..Len(heap)) /\ Len(s) = Outputs(kind)
    BY <1>5, <2>2
  <2>4. slots \in [Nodes -> Seq(0..Len(heap))] /\ slots' = [slots EXCEPT ![n] = s]
    BY <1>3, <1>4 DEF Types
  <2> HIDE DEF s
  <2> QED BY <1>1, <2>3, <2>4
<1>9. Types'
  <2>1. \A m \in Leaves \cup Functions' : Len(slots'[m]) = Results(m)'
    <3>1. ASSUME NEW m \in Leaves \cup Functions PROVE Len(slots'[m]) = Results(m)'
      <4>1. m \in Nodes \ {n}
        BY <1>1, <1>4, FunctionsAre
      <4> QED BY <1>1, <1>4, <1>8, <4>1 DEF Types
    <3> QED BY <1>1, <1>8, <3>1
  <2>2. \A m \in Nodes \ (Leaves \cup Functions') :
            slots'[m] = <<>> /\ deps'[m] = 0 /\ reached'[m] = 0
    <3>1. ASSUME NEW m \in Nodes \ (Leaves \cup Functions')
          PROVE  slots'[m] = <<>> /\ deps'[m] = 0 /\ reached'[m] = 0
      <4>1. m \in Nodes \ {n} /\ m \in Nodes \ (Leaves \cup Functions)
        BY <1>1
      <4>2. \A t \in Tensors : t[1] # m
        BY <1>4, <4>1, FunctionsAre DEF Tensors
      <4>3. {j \in DOMAIN inputs : inputs[j][1] = m} = {}
        BY <1>2, <4>2
      <4>4. deps'[m] = deps[m] + 0
        BY <1>6, <4>1, <4>3, FS_EmptySet
      <4> QED BY <1>3, <1>4, <1>8, <4>1, <4>4 DEF Types
    <3> QED BY <3>1
  <2>3. \A m \in Nodes \ Functions' : given'[m] = 0
    BY <1>1, <1>3, <1>4 DEF Types
  <2> QED BY <1>1, <1>3, <1>4, <1>6, <1>7, <1>8, <2>1, <2>2, <2>3 DEF Types
<1>10. GraphInv'
  <2>1. ASSUME NEW m \in Functions'
        PROVE  /\ Len(Fn(m)'.inputs) \in {1, 2}
               /\ Fn(m)'.kind = "add" => Len(Fn(m)'.inputs) = 2
               /\ Fn(m)'.kind \in {"view", "split"} => Len(Fn(m)'.inputs) = 1
               /\ LiveEdges(m)' # {}
               /\ \A i \in DOMAIN Fn(m)'.inputs :
                     Fn(m)'.inputs[i][1] < m /\ Fn(m)'.inputs[i][2] \in 1..Results(Fn(m).inputs[i][1])'
    <3>1. CASE m \in Functions
      <4>1. Fn(m)' = Fn(m) /\ LiveEdges(m)' = LiveEdges(m)
        BY <1>1, <3>1 DEF LiveEdges
      <4>2. ASSUME NEW i \in DOMAIN Fn(m).inputs
            PROVE  Results(Fn(m).inputs[i][1])' = Results(Fn(m).inputs[i][1])
        <5> DEFINE k == Fn(m).inputs[i][1]
        <5>1. k < m /\ k < n
          <6>1. k < m /\ m < n /\ m \in Nat
            BY <1>1, <1>4, <3>1, FunctionsAre DEF IInv, GraphInv
          <6>2. k \in Nat
            <7>1. Fn(m).inputs[i] \in (Nodes \cup {NoGrad}) \X {1, 2}
              BY <1>4, <3>1, FunctionsAre
            <7> QED BY <1>4, <7>1, FunctionsAre DEF NoGrad
          <6> QED BY <1>1, <6>1, <6>2
        <5>2. k # n
          BY <1>1, <5>1
        <5>3. PICK c : c = k
          OBVIOUS
        <5>4. CASE k \in Functions
          <6>1. Results(c)' = Results(c)
            BY <1>1, <5>3, <5>4
          <6>2. Fn(m)'.inputs[i][1] = c
            BY <4>1, <5>3
          <6> QED BY <1>1, <4>1, <5>3, <6>1, <6>2 DEF Results, Outputs
        <5>5. CASE k \notin Functions
          <6>1. c \notin Functions' /\ c \notin Functions
            BY <1>1, <5>2, <5>3, <5>5
          <6>2. Fn(m)'.inputs[i][1] = c
            BY <4>1, <5>3
          <6> QED BY <4>1, <5>3, <6>1, <6>2 DEF Results
        <5> QED BY <5>4, <5>5
      <4> QED BY <3>1, <4>1, <4>2 DEF IInv, GraphInv
    <3>2. CASE m = n
      <4>1. Fn(m)'.kind = kind /\ Fn(m)'.inputs = inputs
        BY <1>1, <3>2
      <4>2. LiveEdges(m)' # {}
        BY <1>3, <4>1 DEF LiveEdges
      <4>3. ASSUME NEW i \in DOMAIN inputs, NEW c, c = inputs[i][1]
            PROVE  inputs[i][1] < m /\ inputs[i][2] \in 1..Results(c)'
        <5>1. inputs[i] \in Tensors
          BY <1>2
        <5>2. c \in Nat /\ c <= NumLeaves + Len(graph) /\ inputs[i][2] \in 1..Results(c)
          BY <1>4, <4>3, <5>1, TensorsAre
        <5>3. c < m /\ c # n
          BY <1>0, <1>4, <3>2, <5>2, FunctionsAre DEF N, Node
        <5>4. Results(c)' = Results(c)
          <6>1. CASE c \in Functions
            BY <1>1, <6>1
          <6>2. CASE c \notin Functions
            <7>1. c \notin Functions'
              BY <1>1, <5>3, <6>2
            <7> QED BY <6>2, <7>1 DEF Results
          <6> QED BY <6>1, <6>2
        <5> QED BY <4>3, <5>2, <5>3, <5>4
      <4>4. \A i \in DOMAIN Fn(m)'.inputs :
               Fn(m)'.inputs[i][1] < m /\ Fn(m)'.inputs[i][2] \in 1..Results(Fn(m).inputs[i][1])'
        <5>1. ASSUME NEW i \in DOMAIN inputs
              PROVE  inputs[i][1] < m /\ inputs[i][2] \in 1..Results(inputs[i][1])'
          BY <4>3
        <5> QED BY <4>1, <5>1
      <4> QED BY <1>2, <4>1, <4>2, <4>4
    <3> QED BY <1>1, <2>1, <3>1, <3>2
  <2> QED BY <2>1 DEF GraphInv
<1>11. StartInv'
  BY <1>3 DEF StartInv, Starting
<1> QED BY <1>9, <1>10, <1>11

LEMMA ApplyCounts ==
    ASSUME IInv, NEW kind \in Kinds, NEW inputs \in InputsOf(kind), Apply(kind, inputs),
           NEW uses, Lists(uses), Counts(uses)
    PROVE  /\ Lists(uses)' /\ Counts(uses)'
           /\ \A m \in Leaves \cup Functions : Arrived(uses, m)' = Arrived(uses, m)
           /\ \A m \in Functions : given[m] # 0 => Uses(m)' = Uses(m)
           /\ \A m \in Functions' \ Functions : Uses(m)' = {} /\ given'[m] = 0
<1> DEFINE N == Node(Len(graph) + 1)
<1>0. PICK n : n = N
  OBVIOUS
<1>1. /\ n \in Nodes /\ n \notin Functions /\ n \notin Leaves /\ n \in Nat
      /\ Functions' = Functions \cup {n}
      /\ \A m \in Functions : Fn(m)' = Fn(m) /\ m < n
      /\ \A m \in Leaves : m < n
      /\ Fn(n)' = [kind |-> kind, inputs |-> inputs]
  BY <1>0, ApplyFacts
<1>2. /\ stack = <<>> /\ UNCHANGED <<reached, given, heap, grad, stack>>
      /\ deps' = Counted(deps, inputs)
      /\ slots' = [slots EXCEPT ![n] = [o \in 1..Outputs(kind) |-> Null]]
  BY <1>0 DEF Apply
<1>3. Types /\ GraphInv /\ Types' /\ GraphInv'
  BY ApplyTypes DEF IInv
<1>4. ~Starting /\ ~Starting' /\ Len(stack) = 0
  BY <1>2 DEF Starting
<1> HIDE DEF N
<1>5. DOMAIN uses = {} /\ Listed(uses) = {} /\ uses \in Seq(Functions \X {1, 2})
  <2>1. uses \in Seq(Functions \X {1, 2}) /\ Len(uses) = 0
    BY <1>4 DEF Lists
  <2> QED BY <2>1 DEF Listed
<1>6. Lists(uses)'
  <2>1. uses \in Seq(Functions' \X {1, 2}) /\ Len(uses) = 0
    <3>1. uses = <<>>
      BY <1>4, <1>5 DEF Lists
    <3> QED BY <3>1
  <2> QED BY <1>2, <1>4, <1>5, <2>1 DEF Lists
<1>7. ASSUME NEW m
      PROVE  /\ Uses(m)' = Uses(m) \cup NewUses(n, inputs, m)
             /\ Uses(m) \cap NewUses(n, inputs, m) = {}
             /\ \A e \in NewUses(n, inputs, m) : e[1] = n
             /\ NewUses(n, inputs, m) = {} => {j \in DOMAIN inputs : inputs[j][1] = m} = {}
             /\ NewUses(n, inputs, m) # {} =>
                   m \in Leaves \cup {NoGrad} \/ (m \in Functions /\ given[m] = 0)
             /\ Outstanding(uses, m)' = Outstanding(uses, m) \cup NewUses(n, inputs, m)
             /\ Arrived(uses, m)' = Arrived(uses, m)
  <2>1. /\ Uses(m)' = Uses(m) \cup NewUses(n, inputs, m)
        /\ Uses(m) \cap NewUses(n, inputs, m) = {}
        /\ \A e \in NewUses(n, inputs, m) : e[1] = n
        /\ NewUses(n, inputs, m) = {} => {j \in DOMAIN inputs : inputs[j][1] = m} = {}
        /\ NewUses(n, inputs, m) # {} =>
              m \in Leaves \cup {NoGrad} \/ (m \in Functions /\ given[m] = 0)
    BY <1>0, ApplyUses DEF N
  <2>2. given[n] = 0 /\ given' = given
    BY <1>1, <1>2, <1>3 DEF Types
  <2>3. Outstanding(uses, m)' = {e \in Uses(m)' : given[e[1]] = 0 \/ e \in Listed(uses)}
    BY <2>2 DEF Outstanding, Listed
  <2>4. Outstanding(uses, m)' = Outstanding(uses, m) \cup NewUses(n, inputs, m)
    BY <2>1, <2>2, <2>3 DEF Outstanding
  <2>5. Arrived(uses, m)' = Uses(m)' \ Outstanding(uses, m)'
    BY DEF Arrived
  <2>6. Arrived(uses, m)' = Arrived(uses, m)
    BY <2>1, <2>4, <2>5 DEF Arrived, Outstanding
  <2> QED BY <2>1, <2>4, <2>6
<1>8. Uses(n)' = {} /\ given'[n] = 0 /\ reached'[n] = 0 /\ deps'[n] = 0 /\ NoneHeld(n)' /\ ~AllHeld(n)'
  <2>1. Uses(n) = {}
    <3>1. \A e \in Uses(n) : e[1] \in Functions /\ n < e[1]
      BY <1>3, UsesAre DEF Consumers
    <3> QED BY <1>1, <1>3, <3>1, FunctionsAre
  <2>2. NewUses(n, inputs, n) = {}
    <3>1. NewUses(n, inputs, n) # {} =>
              n \in Leaves \cup {NoGrad} \/ (n \in Functions /\ given[n] = 0)
      BY <1>7, Zenon
    <3>2. n # NoGrad
      BY <1>1, <1>3, FunctionsAre
    <3> QED BY <1>1, <3>1, <3>2
  <2>3. slots'[n] = [o \in 1..Outputs(kind) |-> Null] /\ Outputs(kind) \in {1, 2}
    BY <1>1, <1>2, <1>3 DEF Types, Outputs
  <2>4. NoneHeld(n)' /\ ~AllHeld(n)'
    BY <2>3 DEF NoneHeld, AllHeld
  <2>5. given'[n] = 0 /\ reached'[n] = 0
    BY <1>1, <1>2, <1>3 DEF Types
  <2>6. deps'[n] = 0
    <3>1. {j \in DOMAIN inputs : inputs[j][1] = n} = {}
      BY <1>7, <2>2
    <3>2. Cardinality({j \in DOMAIN inputs : inputs[j][1] = n}) = 0
      BY <3>1, FS_EmptySet
    <3>3. deps[n] = 0
      BY <1>1, <1>3 DEF Types
    <3> QED BY <1>1, <1>2, <3>2, <3>3 DEF Counted
  <2> QED BY <1>7, <2>1, <2>2, <2>4, <2>5, <2>6
<1>9. ASSUME NEW m \in Leaves \cup Functions
      PROVE  /\ deps'[m] = deps[m] + Cardinality({j \in DOMAIN inputs : inputs[j][1] = m})
             /\ Cardinality(Outstanding(uses, m)') =
                   Cardinality(Outstanding(uses, m))
                       + Cardinality({j \in DOMAIN inputs : inputs[j][1] = m})
             /\ Cardinality({j \in DOMAIN inputs : inputs[j][1] = m}) \in Nat
             /\ slots'[m] = slots[m] /\ deps[m] \in Nat /\ reached[m] \in Nat
             /\ Cardinality(Outstanding(uses, m)) \in Nat
  <2> DEFINE J == {j \in DOMAIN inputs : inputs[j][1] = m}
             A == Outstanding(uses, m)
             B == NewUses(n, inputs, m)
  <2>1. IsFiniteSet(J) /\ Cardinality(J) \in Nat
    <3>1. J \subseteq {1, 2}
      BY InputsAre DEF IInv
    <3>2. IsFiniteSet({1, 2})
      <4>1. IsFiniteSet({1})
        BY FS_Singleton
      <4>2. IsFiniteSet({1} \cup {2})
        BY <4>1, FS_AddElement
      <4>3. {1} \cup {2} = {1, 2}
        OBVIOUS
      <4> QED BY <4>2, <4>3
    <3> QED BY <3>1, <3>2, FS_Subset, FS_CardinalityType
  <2>2. IsFiniteSet(B) /\ Cardinality(B) = Cardinality(J)
    <3> DEFINE f == [j \in J |-> <<n, j>>]
    <3>1. f \in Bijection(J, B)
      <4>1. f \in [J -> B] /\ \A i, j \in J : f[i] = f[j] => i = j
        BY DEF NewUses
      <4>2. \A e \in B : \E j \in J : f[j] = e
        BY DEF NewUses
      <4> HIDE DEF f, J, B
      <4> QED BY <4>1, <4>2 DEF Bijection, Injection, Surjection, IsInjective
    <3> HIDE DEF f, J, B
    <3> QED BY <2>1, <3>1, FS_Bijection DEF ExistsBijection
  <2>3. A \cap B = {} /\ IsFiniteSet(A) /\ Cardinality(A) \in Nat
    BY <1>3, <1>7, FiniteUses DEF Outstanding
  <2>4. Outstanding(uses, m)' = A \cup B
    BY <1>7
  <2> HIDE DEF A, B, J
  <2>5. Cardinality(A \cup B) = Cardinality(A) + Cardinality(J)
    <3>1. Cardinality(A \cap B) = 0
      BY <2>3, FS_EmptySet
    <3>2. Cardinality(A \cup B) = Cardinality(A) + Cardinality(B) - Cardinality(A \cap B)
      BY <2>2, <2>3, FS_Union
    <3> QED BY <2>1, <2>2, <2>3, <3>1, <3>2
  <2>6. m \in Nodes /\ m # n
    BY <1>1, <1>3, FunctionsAre
  <2>7. deps'[m] = deps[m] + Cardinality(J) /\ slots'[m] = slots[m]
    BY <1>2, <1>3, <2>6 DEF Counted, Types, J
  <2>8. deps[m] \in Nat /\ reached[m] \in Nat
    BY <1>3, <2>6 DEF Types
  <2> QED BY <2>1, <2>3, <2>4, <2>5, <2>7, <2>8 DEF A, J
<1>10. Counts(uses)'
  <2>1. ASSUME NEW m \in Leaves \cup Functions'
        PROVE  IF given'[m] = 0
               THEN /\ deps'[m] = reached'[m] + Cardinality(Outstanding(uses, m)')
                    /\ AllHeld(m)' => reached'[m] < deps'[m]
                    /\ reached'[m] = 0 => NoneHeld(m)'
                    /\ Uses(m)' = {} => deps'[m] = 0
               ELSE Outstanding(uses, m)' = {} /\ reached'[m] = 0 /\ NoneHeld(m)'
    <3>1. CASE m = n
      <4>1. Outstanding(uses, n)' = {}
        BY <1>8 DEF Outstanding
      <4> QED BY <1>8, <3>1, <4>1, FS_EmptySet
    <3>2. CASE m \in Leaves \cup Functions
      <4>1. /\ AllHeld(m)' <=> AllHeld(m)
            /\ NoneHeld(m)' <=> NoneHeld(m)
            /\ given'[m] = given[m] /\ reached'[m] = reached[m]
        BY <1>2, <1>9, <3>2 DEF AllHeld, NoneHeld
      <4>2. CASE given[m] = 0
        <5>1. Uses(m)' = {} => deps'[m] = 0
          <6>1. ASSUME Uses(m)' = {} PROVE deps'[m] = 0
            <7>1. Uses(m) = {} /\ NewUses(n, inputs, m) = {}
              BY <1>7, <6>1
            <7>2. {j \in DOMAIN inputs : inputs[j][1] = m} = {}
              BY <1>7, <7>1
            <7>3. Cardinality({j \in DOMAIN inputs : inputs[j][1] = m}) = 0
              BY <7>2, FS_EmptySet
            <7>4. deps[m] = 0
              BY <3>2, <4>2, <7>1 DEF Counts
            <7> QED BY <1>9, <3>2, <7>3, <7>4
          <6> QED BY <6>1
        <5>2. deps[m] = reached[m] + Cardinality(Outstanding(uses, m))
              /\ (AllHeld(m) => reached[m] < deps[m]) /\ (reached[m] = 0 => NoneHeld(m))
          BY <3>2, <4>2 DEF Counts
        <5> HIDE DEF AllHeld, NoneHeld
        <5>3. deps'[m] = reached'[m] + Cardinality(Outstanding(uses, m)')
              /\ (AllHeld(m)' => reached'[m] < deps'[m])
          <6>1. PICK c, k, k2 : /\ c = Cardinality({j \in DOMAIN inputs : inputs[j][1] = m})
                                /\ k = Cardinality(Outstanding(uses, m))
                                /\ k2 = Cardinality(Outstanding(uses, m)')
            OBVIOUS
          <6>2. /\ deps'[m] = deps[m] + c /\ k2 = k + c /\ c \in Nat /\ k \in Nat
                /\ deps[m] \in Nat /\ reached[m] \in Nat
            BY <1>9, <3>2, <6>1
          <6>3. deps[m] = reached[m] + k
            BY <5>2, <6>1
          <6>4. deps'[m] = reached'[m] + k2
            BY <4>1, <6>2, <6>3
          <6>5. AllHeld(m)' => reached'[m] < deps'[m]
            BY <4>1, <5>2, <6>2
          <6> QED BY <6>1, <6>4, <6>5
        <5> QED BY <4>1, <4>2, <5>1, <5>2, <5>3
      <4>3. CASE given[m] # 0
        <5>1. m \in Functions
          BY <1>3, <3>2, <4>3, FunctionsAre DEF Types
        <5>2. NewUses(n, inputs, m) = {}
          <6>1. NewUses(n, inputs, m) # {} =>
                    m \in Leaves \cup {NoGrad} \/ (m \in Functions /\ given[m] = 0)
            BY <1>7, Zenon
          <6>2. m # NoGrad /\ m \notin Leaves
            BY <1>3, <5>1, FunctionsAre
          <6> QED BY <4>3, <6>1, <6>2
        <5>3. Outstanding(uses, m)' = Outstanding(uses, m)
          <6>1. Outstanding(uses, m)' = Outstanding(uses, m) \cup NewUses(n, inputs, m)
            BY <1>7, Zenon
          <6> QED BY <5>2, <6>1
        <5> QED BY <3>2, <4>1, <4>3, <5>3 DEF Counts
      <4> QED BY <4>2, <4>3
    <3> QED BY <1>1, <3>1, <3>2
  <2>2. ASSUME NEW l \in Leaves PROVE reached'[l] > 0 => AllHeld(l)'
    <3>1. AllHeld(l)' <=> AllHeld(l)
      BY <1>9 DEF AllHeld
    <3> QED BY <1>2, <3>1 DEF Counts
  <2>3. ASSUME NEW m \in Functions', given'[m] = 0, NEW e \in Arrived(uses, m)'
        PROVE  (slots[m][Fn(e[1]).inputs[e[2]][2]])' # Null
    <3>1. e \in Arrived(uses, m)
      BY <1>7
    <3>2. m \in Functions
      <4>1. Uses(m) # {}
        BY <3>1 DEF Arrived
      <4>2. m # n
        BY <1>7, <1>8, <4>1
      <4> QED BY <1>1, <4>2
    <3>3. e[1] \in Functions
      BY <3>1 DEF Arrived, Uses
    <3>4. (slots[m][Fn(e[1]).inputs[e[2]][2]])' = slots[m][Fn(e[1]).inputs[e[2]][2]]
      BY <1>1, <1>9, <3>2, <3>3
    <3>5. given[m] = 0
      BY <1>2, <2>3
    <3> QED BY <3>1, <3>2, <3>4, <3>5 DEF Counts
  <2> QED BY <2>1, <2>2, <2>3 DEF Counts
<1>11. ASSUME NEW m \in Functions, given[m] # 0 PROVE Uses(m)' = Uses(m)
  <2>1. NewUses(n, inputs, m) # {} =>
            m \in Leaves \cup {NoGrad} \/ (m \in Functions /\ given[m] = 0)
    BY <1>7, Zenon
  <2>2. m # NoGrad /\ m \notin Leaves
    BY <1>3, FunctionsAre
  <2>3. Uses(m)' = Uses(m) \cup NewUses(n, inputs, m)
    BY <1>7, Zenon
  <2> QED BY <1>11, <2>1, <2>2, <2>3
<1> QED BY <1>1, <1>6, <1>7, <1>8, <1>10, <1>11

LEMMA ApplyInv ==
    ASSUME IInv, NEW kind \in Kinds, NEW inputs \in InputsOf(kind), Apply(kind, inputs)
    PROVE  IInv'
<1>1. PICK uses : Lists(uses) /\ Counts(uses)
  BY DEF IInv
<1>2. Lists(uses)' /\ Counts(uses)'
  BY <1>1, ApplyCounts
<1>3. Types' /\ GraphInv' /\ StartInv'
  BY ApplyTypes
<1> QED BY <1>2, <1>3 DEF IInv

-----------------------------------------------------------------------------
(* A step that leaves the graph alone.                                     *)
LEMMA SameGraph ==
    ASSUME graph' = graph
    PROVE  /\ Functions' = Functions /\ Sinks' = Sinks
           /\ \A n : Fn(n)' = Fn(n) /\ Uses(n)' = Uses(n) /\ Results(n)' = Results(n)
           /\ \A n : LiveEdges(n)' = LiveEdges(n)
           /\ GraphInv => GraphInv'
<1>1. Functions' = Functions
  BY DEF Functions
<1>2. \A n : Fn(n)' = Fn(n)
  BY DEF Fn
<1>3. \A n : LiveEdges(n)' = LiveEdges(n)
  BY <1>2 DEF LiveEdges
<1>4. \A n, m : Edges(n, m)' = Edges(n, m)
  BY <1>2 DEF Edges
<1>5. \A n : Uses(n)' = Uses(n) /\ Consumers(n)' = Consumers(n)
  BY <1>1, <1>4 DEF Uses, Consumers
<1>6. Sinks' = Sinks
  BY <1>1, <1>5 DEF Sinks
<1>7. \A n : Results(n)' = Results(n)
  BY <1>1, <1>2 DEF Results, Outputs
<1>8. GraphInv => GraphInv'
  BY <1>1, <1>2, <1>3, <1>7 DEF GraphInv
<1> QED BY <1>1, <1>2, <1>3, <1>5, <1>6, <1>7, <1>8

LEMMA BackwardCounts ==
    ASSUME IInv, NEW n \in Sinks, Backward(n), NEW uses, Lists(uses), Counts(uses)
    PROVE  /\ Types' /\ GraphInv' /\ StartInv' /\ Lists(uses)' /\ Counts(uses)' /\ Starting'
           /\ \A m : Arrived(uses, m)' = Arrived(uses, m) /\ Uses(m)' = Uses(m)
<1>1. /\ stack = <<>> /\ given[n] = 0 /\ Outputs(Fn(n).kind) = 1
      /\ heap' = Append(heap, 1) /\ stack' = <<<<n, 1, Len(heap) + 1>>>>
      /\ UNCHANGED <<graph, deps, reached, slots, given, grad>>
  BY DEF Backward
<1>2. /\ Functions' = Functions /\ Sinks' = Sinks
      /\ \A m : Fn(m)' = Fn(m) /\ Uses(m)' = Uses(m) /\ Results(m)' = Results(m)
      /\ GraphInv'
  BY <1>1, SameGraph DEF IInv
<1>3. Types
  BY DEF IInv
<1>4. n \in Functions /\ n \in Nodes
  BY <1>3, FunctionsAre DEF Sinks
<1>5. /\ heap' \in Seq(Nat \ {0}) /\ Len(heap') = Len(heap) + 1 /\ Len(heap) \in Nat
      /\ 0..Len(heap) \subseteq 0..Len(heap')
  BY <1>1, <1>3 DEF Types
<1>6. slots' \in [Nodes -> Seq(0..Len(heap'))] /\ grad' \in [Leaves -> 0..Len(heap')]
  <2>1. Seq(0..Len(heap)) \subseteq Seq(0..Len(heap'))
    BY <1>5
  <2> QED BY <1>1, <1>3, <1>5, <2>1 DEF Types
<1>7. stack' \in Seq(Nodes \X {1, 2} \X (1..Len(heap')))
  <2>1. <<n, 1, Len(heap) + 1>> \in Nodes \X {1, 2} \X (1..Len(heap'))
    BY <1>4, <1>5
  <2> QED BY <1>1, <2>1
<1>8. Types'
  BY <1>1, <1>2, <1>3, <1>5, <1>6, <1>7 DEF Types
<1>9. Starting' /\ Len(stack') = 1 /\ stack'[1] = <<n, 1, Len(heap) + 1>>
  BY <1>1, <1>2 DEF Starting
<1>10. StartInv'
  <2>1. Results(n) = 1
    BY <1>1, <1>4 DEF Results
  <2>2. Results(n)' = 1
    BY <1>2, <2>1
  <2>3. stack'[1][1] = n /\ stack'[1][2] = 1
    BY <1>9
  <2>4. (given[n] = 0)'
    BY <1>1
  <2> QED BY <1>9, <2>2, <2>3, <2>4 DEF StartInv
<1>11. Lists(uses)'
  <2>1. Len(uses) = 0 /\ uses \in Seq(Functions \X {1, 2})
    BY <1>1 DEF Lists, Starting
  <2>2. DOMAIN uses = {}
    BY <2>1
  <2> QED BY <1>2, <1>9, <2>1, <2>2 DEF Lists
<1>12. \A m : Outstanding(uses, m)' = Outstanding(uses, m) /\ Arrived(uses, m)' = Arrived(uses, m)
  BY <1>1, <1>2 DEF Outstanding, Arrived, Listed
<1>13. \A m : (AllHeld(m)' <=> AllHeld(m)) /\ (NoneHeld(m)' <=> NoneHeld(m))
  BY <1>1 DEF AllHeld, NoneHeld
<1>14. Counts(uses)'
  BY <1>1, <1>2, <1>12, <1>13 DEF Counts
<1> QED BY <1>2, <1>8, <1>9, <1>10, <1>11, <1>12, <1>14

LEMMA BackwardInv ==
    ASSUME IInv, NEW n \in Sinks, Backward(n)
    PROVE  IInv'
<1>1. PICK uses : Lists(uses) /\ Counts(uses)
  BY DEF IInv
<1>2. Types' /\ GraphInv' /\ StartInv' /\ Lists(uses)' /\ Counts(uses)'
  BY <1>1, BackwardCounts
<1> QED BY <1>2 DEF IInv

-----------------------------------------------------------------------------
(* The delivery at the top.                                                *)
HeadFacts(d, uses) ==
    /\ d = stack[1] /\ d \in Nodes \X {1, 2} \X (1..Len(heap)) /\ Len(stack) \in Nat \ {0}
    /\ d[1] \in Leaves \cup Functions /\ d[1] \in Nodes /\ given[d[1]] = 0
    /\ DOMAIN slots[d[1]] = 1..Results(d[1]) /\ d[2] \in 1..Results(d[1])
    /\ Results(d[1]) \in {1, 2} /\ d[3] \in 1..Len(heap)
    /\ Starting => /\ d[1] \in Sinks /\ Len(stack) = 1 /\ Uses(d[1]) = {} /\ deps[d[1]] = 0
                   /\ reached[d[1]] = 0 /\ Results(d[1]) = 1 /\ d[2] = 1 /\ uses = <<>>
    /\ ~Starting => /\ Len(uses) = Len(stack) /\ uses[1] \in Outstanding(uses, d[1])
                    /\ d[1] \notin Sinks /\ given[uses[1][1]] # 0
                    /\ Fn(uses[1][1]).inputs[uses[1][2]] = <<d[1], d[2]>>

LEMMA HeadIs ==
    ASSUME Types, GraphInv, StartInv, NEW uses, Lists(uses), Counts(uses), stack # <<>>
    PROVE  HeadFacts(Head(stack), uses)
<1> DEFINE d == stack[1]
           n == d[1]
<1>1. /\ Head(stack) = d /\ d \in Nodes \X {1, 2} \X (1..Len(heap)) /\ Len(stack) \in Nat \ {0}
      /\ 1 \in DOMAIN stack
  <2> DEFINE T == Nodes \X {1, 2} \X (1..Len(heap))
  <2>1. stack \in Seq(T)
    BY HeapIs
  <2> HIDE DEF T
  <2>2. Head(stack) = d /\ d \in T /\ Len(stack) \in Nat \ {0} /\ 1 \in DOMAIN stack
    BY <2>1
  <2> QED BY <2>2 DEF T
<1>2. d[1] \in Nodes /\ d[2] \in {1, 2} /\ d[3] \in 1..Len(heap) /\ d = <<d[1], d[2], d[3]>>
  BY <1>1
<1>3. Results(n) \in {1, 2}
  BY DEF Results, Outputs
<1>4. CASE Starting
  <2>1. n \in Sinks /\ Len(stack) = 1 /\ d[2] = 1 /\ given[n] = 0 /\ Results(n) = 1
    BY <1>4 DEF StartInv, Starting
  <2>2. n \in Functions /\ Uses(n) = {}
    BY <2>1, UsesAre
  <2>3. Outstanding(uses, n) = {}
    BY <2>2 DEF Outstanding
  <2>4. deps[n] = 0 /\ deps[n] = reached[n] + 0 /\ reached[n] \in Nat
    <3>1. Cardinality(Outstanding(uses, n)) = 0
      BY <2>3, FS_EmptySet
    <3>2. deps[n] = reached[n] + Cardinality(Outstanding(uses, n)) /\ deps[n] = 0
      BY <2>1, <2>2 DEF Counts
    <3>3. reached[n] \in Nat
      BY <1>2, HeapIs
    <3> HIDE DEF n
    <3> QED BY <3>1, <3>2, <3>3
  <2>5. uses = <<>>
    BY <1>4 DEF Lists
  <2>6. DOMAIN slots[n] = 1..Results(n)
    BY <2>2, HeapIs
  <2> HIDE DEF n, d
  <2>7. HeadFacts(d, uses)
    BY <1>1, <1>2, <1>3, <1>4, <2>1, <2>2, <2>4, <2>5, <2>6 DEF HeadFacts, n, d
  <2> QED BY <1>1, <2>7
<1>5. CASE ~Starting
  <2>1. Len(uses) = Len(stack) /\ uses \in Seq(Functions \X {1, 2})
    BY <1>5 DEF Lists
  <2>2. 1 \in DOMAIN uses
    BY <1>1, <2>1
  <2> DEFINE u == uses[1]
  <2>3. /\ u \in Functions \X {1, 2} /\ given[u[1]] # 0 /\ u[2] \in DOMAIN Fn(u[1]).inputs
        /\ Fn(u[1]).inputs[u[2]] = <<n, d[2]>> /\ u \in Listed(uses)
    <3>1. u \in Listed(uses)
      BY <2>2 DEF Listed
    <3>2. u \in Functions \X {1, 2}
      BY <2>1, <2>2
    <3>3. given[u[1]] # 0 /\ u[2] \in DOMAIN Fn(u[1]).inputs
      BY <2>2 DEF Lists
    <3>4. Fn(u[1]).inputs[u[2]] = <<n, d[2]>>
      BY <2>2, Zenon DEF Lists
    <3> HIDE DEF u, n, d
    <3> QED BY <3>1, <3>2, <3>3, <3>4
  <2>4. u \in Uses(n)
    BY <2>3 DEF Uses, Edges
  <2>5. u \in Outstanding(uses, n)
    BY <2>3, <2>4 DEF Outstanding
  <2>6. n < u[1] /\ d[2] \in 1..Results(n)
    <3>1. u[1] \in Functions
      BY <2>3
    <3>2. \A i \in DOMAIN Fn(u[1]).inputs :
             Fn(u[1]).inputs[i][1] < u[1] /\ Fn(u[1]).inputs[i][2] \in 1..Results(Fn(u[1]).inputs[i][1])
      BY <3>1 DEF GraphInv
    <3>3. Fn(u[1]).inputs[u[2]][1] = n /\ Fn(u[1]).inputs[u[2]][2] = d[2]
      BY <2>3
    <3> HIDE DEF u, n, d
    <3> QED BY <2>3, <3>2, <3>3
  <2>7. n \in Leaves \cup Functions
    <3>1. u[1] \in Functions
      BY <2>3
    <3>2. u[1] \in Nat /\ u[1] <= NumLeaves + Len(graph) /\ n \in Nat /\ 1 <= n
      BY <1>2, <3>1, FunctionsAre DEF Nodes
    <3> HIDE DEF u, n, d
    <3> QED BY <2>6, <3>2, FunctionsAre DEF Leaves
  <2>8. given[n] = 0
    BY <2>5, <2>7, FunctionsAre DEF Counts, Types
  <2>9. n \notin Sinks
    BY <1>5, <1>1 DEF Starting
  <2>10. DOMAIN slots[n] = 1..Results(n)
    BY <2>7, HeapIs
  <2> HIDE DEF n, d, u
  <2>11. HeadFacts(d, uses)
    BY <1>1, <1>2, <1>3, <1>5, <2>1, <2>3, <2>5, <2>6, <2>7, <2>8, <2>9, <2>10 DEF HeadFacts, n, d, u
  <2> QED BY <1>1, <2>11
<1> QED BY <1>4, <1>5

(* The deliveries below the top, and their uses.                           *)
Rest(uses) == IF uses = <<>> THEN <<>> ELSE Tail(uses)

RestFacts(uses, s, t) ==
    /\ s \in Seq(Nodes \X {1, 2} \X (1..Len(heap)))
    /\ Len(s) = Len(stack) - 1 /\ Len(stack) \in Nat \ {0} /\ Len(stack) - 1 \in Nat
    /\ DOMAIN s = 1..(Len(stack) - 1)
    /\ \A j \in 1..(Len(stack) - 1) : j + 1 \in DOMAIN stack /\ s[j] = stack[j + 1]
    /\ t \in Seq(Functions \X {1, 2}) /\ Len(t) = Len(stack) - 1
    /\ DOMAIN t = 1..(Len(stack) - 1)
    /\ \A j \in 1..(Len(stack) - 1) :
          /\ j + 1 \in DOMAIN uses /\ t[j] = uses[j + 1]
          /\ given[t[j][1]] # 0 /\ t[j][2] \in DOMAIN Fn(t[j][1]).inputs
          /\ Fn(t[j][1]).inputs[t[j][2]] = <<s[j][1], s[j][2]>>
    /\ \A i, j \in DOMAIN t : t[i] = t[j] => i = j
    /\ Listed(t) = Listed(uses) \ {uses[1]}

LEMMA RestIs ==
    ASSUME Types, StartInv, NEW uses, Lists(uses), stack # <<>>, NEW t, t = Rest(uses)
    PROVE  RestFacts(uses, Tail(stack), t)
<1> DEFINE T == Nodes \X {1, 2} \X (1..Len(heap))
           P == Functions \X {1, 2}
           k == Len(stack) - 1
           s == Tail(stack)
<1>1. stack \in Seq(T) /\ Len(stack) \in Nat \ {0} /\ k \in Nat
  <2>1. stack \in Seq(T)
    BY HeapIs
  <2> HIDE DEF T
  <2>2. Len(stack) \in Nat \ {0}
    BY <2>1
  <2> QED BY <2>1, <2>2
<1>2. /\ s \in Seq(T) /\ Len(s) = k /\ DOMAIN s = 1..k
      /\ \A j \in 1..k : j + 1 \in DOMAIN stack /\ s[j] = stack[j + 1]
  <2> HIDE DEF T
  <2> QED BY <1>1
<1>3. /\ uses \in Seq(P) /\ \A i, j \in DOMAIN uses : uses[i] = uses[j] => i = j
      /\ Len(uses) = IF Starting THEN 0 ELSE Len(stack)
  BY DEF Lists
<1>4. Starting => k = 0
  BY DEF StartInv
<1>5. /\ t \in Seq(P) /\ Len(t) = k /\ DOMAIN t = 1..k
      /\ \A j \in 1..k : j + 1 \in DOMAIN uses /\ t[j] = uses[j + 1]
  <2>1. CASE Starting
    <3>1. uses = <<>> /\ k = 0
      BY <1>3, <1>4, <2>1
    <3>2. t = <<>>
      BY <3>1 DEF Rest
    <3>3. \A j : j \notin 1..0
      OBVIOUS
    <3>4. t \in Seq(P) /\ Len(t) = 0 /\ DOMAIN t = 1..0
      BY <3>2
    <3> QED BY <3>1, <3>3, <3>4
  <2>2. CASE ~Starting
    <3>1. Len(uses) = k + 1
      BY <1>1, <1>3, <2>2
    <3>2. uses # <<>> /\ t = Tail(uses)
      <4>1. uses # <<>>
        BY <1>1, <3>1
      <4> QED BY <4>1 DEF Rest
    <3> HIDE DEF P, k
    <3>3. /\ t \in Seq(P) /\ Len(t) = k /\ DOMAIN t = 1..k
          /\ \A j \in 1..k : j + 1 \in DOMAIN uses /\ t[j] = uses[j + 1]
      BY <1>1, <1>3, <3>1, <3>2
    <3> QED BY <3>3
  <2> QED BY <2>1, <2>2
<1>6. DOMAIN uses = 1..Len(uses) /\ Len(uses) \in Nat
  BY <1>3
<1> HIDE DEF T, P, k, s
<1>7. ASSUME NEW j \in 1..k
      PROVE  /\ given[t[j][1]] # 0 /\ t[j][2] \in DOMAIN Fn(t[j][1]).inputs
             /\ Fn(t[j][1]).inputs[t[j][2]] = <<s[j][1], s[j][2]>>
  <2>1. j + 1 \in DOMAIN uses /\ t[j] = uses[j + 1] /\ s[j] = stack[j + 1]
    BY <1>2, <1>5
  <2>2. LET m == uses[j + 1][1]
            i == uses[j + 1][2]
        IN  /\ given[m] # 0 /\ i \in DOMAIN Fn(m).inputs
            /\ Fn(m).inputs[i] = <<stack[j + 1][1], stack[j + 1][2]>>
    BY <2>1, Zenon DEF Lists
  <2> QED BY <2>1, <2>2
<1>8. ASSUME NEW i \in DOMAIN t, NEW j \in DOMAIN t, t[i] = t[j] PROVE i = j
  <2>1. i \in 1..k /\ j \in 1..k
    BY <1>5
  <2>2. i + 1 \in DOMAIN uses /\ j + 1 \in DOMAIN uses /\ uses[i + 1] = uses[j + 1]
    BY <1>5, <1>8, <2>1
  <2>3. i + 1 = j + 1
    BY <1>3, <2>2
  <2> QED BY <2>1, <2>3
<1>9. Listed(t) = Listed(uses) \ {uses[1]}
  <2>1. ASSUME NEW e \in Listed(t) PROVE e \in Listed(uses) \ {uses[1]}
    <3>1. PICK j \in 1..k : e = t[j]
      BY <1>5 DEF Listed
    <3>2. j + 1 \in DOMAIN uses /\ e = uses[j + 1]
      BY <1>5, <3>1
    <3>3. 1 \in DOMAIN uses /\ j + 1 # 1
      BY <1>6, <3>1, <3>2
    <3> QED BY <1>3, <3>2, <3>3 DEF Listed
  <2>2. ASSUME NEW e \in Listed(uses), e # uses[1] PROVE e \in Listed(t)
    <3>1. PICK j \in DOMAIN uses : e = uses[j]
      BY DEF Listed
    <3>2. j # 1 /\ j \in 1..Len(uses)
      BY <1>6, <2>2, <3>1
    <3>3. Len(uses) = k + 1 /\ k \in Nat
      BY <1>1, <1>3, <1>6, <3>1 DEF k
    <3>4. j - 1 \in 1..k /\ (j - 1) + 1 = j
      BY <3>2, <3>3
    <3>5. t[j - 1] = uses[j]
      BY <1>5, <3>4
    <3> QED BY <1>5, <3>1, <3>4, <3>5 DEF Listed
  <2> QED BY <2>1, <2>2
<1> QED BY <1>1, <1>2, <1>5, <1>7, <1>8, <1>9 DEF RestFacts, T, P, k, s

(* Its node's slots and the buffers once it is received.                   *)
ReceiveFacts(d) ==
    /\ SlotsWith(d) \in Seq(0..Len(heap)) /\ Len(SlotsWith(d)) = Len(slots[d[1]])
    /\ DOMAIN SlotsWith(d) = 1..Results(d[1]) /\ SlotsWith(d)[d[2]] \in 1..Len(heap)
    /\ \A o \in 1..Results(d[1]) :
          o # d[2] \/ slots[d[1]][o] # Null => SlotsWith(d)[o] = slots[d[1]][o]
    /\ slots[d[1]][d[2]] = Null => SlotsWith(d)[d[2]] = d[3]
    /\ HeapWith(d) \in Seq(Nat \ {0}) /\ Len(HeapWith(d)) = Len(heap)

LEMMA Received ==
    ASSUME Types, NEW uses, NEW d, HeadFacts(d, uses)
    PROVE  ReceiveFacts(d)
<1> DEFINE n == d[1]
           o == d[2]
           s == slots[n]
           S == SlotsWith(d)
           H == HeapWith(d)
<1>1. /\ n \in Nodes /\ o \in 1..Results(n) /\ d[3] \in 1..Len(heap) /\ Results(n) \in {1, 2}
      /\ Len(heap) \in Nat /\ DOMAIN s = 1..Results(n)
  BY HeapIs DEF HeadFacts
<1>2. s \in Seq(0..Len(heap)) /\ Len(s) \in Nat /\ DOMAIN s = 1..Len(s)
  <2>1. s \in Seq(0..Len(heap))
    BY <1>1, HeapIs
  <2> HIDE DEF s
  <2> QED BY <2>1
<1>3. S = IF s[o] = Null THEN [s EXCEPT ![o] = d[3]] ELSE s
  BY DEF SlotsWith
<1>4. H = IF s[o] = Null THEN heap ELSE [heap EXCEPT ![s[o]] = @ + heap[d[3]]]
  BY DEF HeapWith
<1>5. heap \in Seq(Nat \ {0}) /\ DOMAIN heap = 1..Len(heap)
  BY DEF Types
<1> HIDE DEF n, o, s, S, H
<1>6. s[o] \in 0..Len(heap) /\ s[o] # Null => s[o] \in 1..Len(heap)
  BY <1>1, <1>2 DEF Null
<1>7. S \in Seq(0..Len(heap)) /\ Len(S) = Len(s) /\ DOMAIN S = 1..Results(n)
  <2> DEFINE B == 0..Len(heap)
             b == d[3]
  <2>1. b \in B /\ s \in Seq(B) /\ o \in DOMAIN s
    BY <1>1, <1>2
  <2>2. S = IF s[o] = Null THEN [s EXCEPT ![o] = b] ELSE s
    BY <1>3
  <2> HIDE DEF B, b
  <2>3. S \in Seq(B) /\ Len(S) = Len(s) /\ DOMAIN S = DOMAIN s
    BY <2>1, <2>2
  <2> QED BY <1>1, <2>3 DEF B
<1>8. S[o] \in 1..Len(heap)
  BY <1>1, <1>2, <1>3, <1>6
<1>9. /\ \A p \in 1..Results(n) : p # o \/ s[p] # Null => S[p] = s[p]
      /\ s[o] = Null => S[o] = d[3]
  BY <1>1, <1>2, <1>3
<1>10. H \in Seq(Nat \ {0}) /\ Len(H) = Len(heap)
  <2>1. CASE s[o] = Null
    BY <1>4, <1>5, <2>1
  <2>2. CASE s[o] # Null
    <3> DEFINE v == heap[s[o]] + heap[d[3]]
    <3>1. heap[s[o]] \in Nat \ {0} /\ heap[d[3]] \in Nat \ {0} /\ s[o] \in DOMAIN heap
      BY <1>1, <1>2, <1>5, <1>6, <2>2
    <3>2. v \in Nat \ {0}
      BY <3>1
    <3>3. H = [heap EXCEPT ![s[o]] = v]
      BY <1>4, <2>2
    <3> HIDE DEF v
    <3> QED BY <1>5, <3>1, <3>2, <3>3
  <2> QED BY <2>1, <2>2
<1> QED BY <1>7, <1>8, <1>9, <1>10 DEF ReceiveFacts, n, o, s, S, H

(* A step that takes the delivery off the stack and runs no function.      *)
LEMMA TailLists ==
    ASSUME Types, GraphInv, StartInv, NEW uses, Lists(uses), Counts(uses), stack # <<>>, ~Starting,
           graph' = graph, given' = given, stack' = Tail(stack), NEW t, t = Rest(uses)
    PROVE  /\ Lists(t)' /\ ~Starting' /\ Listed(t) = Listed(uses) \ {uses[1]}
           /\ \A m : Outstanding(t, m)' = Outstanding(uses, m) \ {uses[1]}
           /\ stack' \in Seq(Nodes \X {1, 2} \X (1..Len(heap)))
<1> DEFINE k == Len(stack) - 1
<1>1. /\ Functions' = Functions /\ Sinks' = Sinks
      /\ \A m : Fn(m)' = Fn(m) /\ Uses(m)' = Uses(m) /\ Results(m)' = Results(m)
  BY SameGraph
<1>2. /\ t \in Seq(Functions \X {1, 2}) /\ Len(t) = k /\ DOMAIN t = 1..k /\ k \in Nat
      /\ Len(stack') = k /\ DOMAIN stack' = 1..k
      /\ \A j \in 1..k :
            /\ given[t[j][1]] # 0 /\ t[j][2] \in DOMAIN Fn(t[j][1]).inputs
            /\ Fn(t[j][1]).inputs[t[j][2]] = <<stack'[j][1], stack'[j][2]>>
      /\ \A i, j \in DOMAIN t : t[i] = t[j] => i = j
      /\ Listed(t) = Listed(uses) \ {uses[1]}
      /\ stack' \in Seq(Nodes \X {1, 2} \X (1..Len(heap)))
  <2>1. RestFacts(uses, stack', t)
    BY RestIs
  <2> QED BY <2>1, Zenon DEF RestFacts
<1> HIDE DEF k
<1>3. ~Starting'
  <2>1. ASSUME Starting' PROVE FALSE
    <3>1. stack' # <<>> /\ stack'[1][1] \in Sinks
      BY <1>1, <2>1 DEF Starting
    <3>2. 1 \in 1..k
      <4> DEFINE T == Nodes \X {1, 2} \X (1..Len(heap))
      <4>1. stack' \in Seq(T)
        BY <1>2
      <4> HIDE DEF T
      <4>2. Len(stack') # 0
        BY <3>1, <4>1
      <4>3. k \in Nat /\ k # 0
        BY <1>2, <4>2
      <4> QED BY <4>3
    <3>3. /\ t[1][2] \in DOMAIN Fn(t[1][1]).inputs /\ t[1] \in Functions \X {1, 2}
          /\ Fn(t[1][1]).inputs[t[1][2]][1] = stack'[1][1]
      <4>1. /\ t[1][2] \in DOMAIN Fn(t[1][1]).inputs
            /\ Fn(t[1][1]).inputs[t[1][2]] = <<stack'[1][1], stack'[1][2]>>
        BY <1>2, <3>2, Zenon
      <4>2. t[1] \in Functions \X {1, 2}
        BY <1>2, <3>2
      <4>3. <<stack'[1][1], stack'[1][2]>>[1] = stack'[1][1]
        OBVIOUS
      <4>4. Fn(t[1][1]).inputs[t[1][2]][1] = stack'[1][1]
        BY <4>1, <4>3, Zenon
      <4> QED BY <4>1, <4>2, <4>4, Zenon
    <3>4. t[1] \in Uses(stack'[1][1])
      BY <3>3 DEF Uses, Edges
    <3> QED BY <3>1, <3>4, UsesAre
  <2> QED BY <2>1
<1>4. Lists(t)'
  <2>1. \A j \in DOMAIN t : (LET m == t[j][1]
                                i == t[j][2]
                            IN  /\ given[m] # 0 /\ i \in DOMAIN Fn(m).inputs
                                /\ Fn(m).inputs[i] = <<stack[j][1], stack[j][2]>>)'
    BY <1>1, <1>2
  <2>2. t \in Seq(Functions' \X {1, 2}) /\ Len(t) = Len(stack')
    BY <1>1, <1>2
  <2> QED BY <1>2, <1>3, <2>1, <2>2 DEF Lists
<1>5. ASSUME NEW m PROVE Outstanding(t, m)' = Outstanding(uses, m) \ {uses[1]}
  <2>1. Outstanding(t, m)' = {e \in Uses(m) : given[e[1]] = 0 \/ e \in Listed(t)}
    BY <1>1 DEF Outstanding, Listed
  <2>2. given[uses[1][1]] # 0
    <3>1. 1 \in DOMAIN uses
      <4>1. uses \in Seq(Functions \X {1, 2}) /\ Len(uses) = Len(stack) /\ Len(stack) \in Nat \ {0}
        BY DEF Lists, Types
      <4> QED BY <4>1
    <3> QED BY <3>1 DEF Lists
  <2> QED BY <1>2, <2>1, <2>2 DEF Outstanding
<1> QED BY <1>2, <1>3, <1>4, <1>5

(* The last outstanding use, and one of several.                           *)
LEMMA OneLess ==
    ASSUME NEW S, IsFiniteSet(S), NEW x \in S
    PROVE  Cardinality(S) \in Nat \ {0} /\ Cardinality(S \ {x}) = Cardinality(S) - 1
           /\ (Cardinality(S) = 1 => S \ {x} = {})
<1>1. Cardinality(S) \in Nat /\ Cardinality(S) # 0
  BY FS_CardinalityType, FS_EmptySet
<1>2. IsFiniteSet(S \ {x}) /\ Cardinality(S \ {x}) = Cardinality(S) - 1
  BY FS_RemoveElement
<1>3. Cardinality(S \ {x}) = 0 => S \ {x} = {}
  BY <1>2, FS_EmptySet
<1> HIDE DEF Cardinality
<1> QED BY <1>1, <1>2, <1>3

(* Deliveries complete their node exactly if they are its last.            *)
LEMMA LastFires ==
    ASSUME Types, GraphInv, NEW uses, Counts(uses), NEW d, HeadFacts(d, uses)
    PROVE  /\ Fires(d) => /\ \A o \in 1..Results(d[1]) : SlotsWith(d)[o] # Null
                          /\ Outstanding(uses, d[1]) \ {uses[1]} = {}
           /\ ~Fires(d) => /\ ~Starting
                           /\ deps[d[1]] = reached[d[1]] + 1
                                 + Cardinality(Outstanding(uses, d[1]) \ {uses[1]})
                           /\ (\A o \in 1..Results(d[1]) : SlotsWith(d)[o] # Null) =>
                                 reached[d[1]] + 1 < deps[d[1]]
<1> DEFINE n == d[1]
           A == Outstanding(uses, n)
           full == \A o \in 1..Results(n) : SlotsWith(d)[o] # Null
<1>1. /\ n \in Leaves \cup Functions /\ n \in Nodes /\ given[n] = 0 /\ d[2] \in 1..Results(n)
      /\ deps[n] \in Nat /\ reached[n] \in Nat
  BY DEF HeadFacts, Types
<1>2. deps[n] = reached[n] + Cardinality(A) /\ IsFiniteSet(A)
  BY <1>1, FiniteUses DEF Counts
<1>3. ReceiveFacts(d)
  BY Received
<1>4. full <=> \A o \in DOMAIN SlotsWith(d) : SlotsWith(d)[o] # Null
  BY <1>3 DEF ReceiveFacts
<1>5. Fires(d) <=> full /\ deps[n] \in {0, reached[n] + 1}
  BY <1>4 DEF Fires
<1>6. CASE Starting
  <2>1. Results(n) = 1 /\ d[2] = 1 /\ Uses(n) = {} /\ deps[n] = 0
    BY <1>6 DEF HeadFacts
  <2>2. SlotsWith(d)[1] # Null
    <3>1. SlotsWith(d)[d[2]] \in 1..Len(heap)
      BY <1>3 DEF ReceiveFacts
    <3>2. Len(heap) \in Nat
      BY DEF Types
    <3> QED BY <2>1, <3>1, <3>2 DEF Null
  <2>3. \A o \in 1..1 : o = 1
    OBVIOUS
  <2>4. full
    BY <2>1, <2>2, <2>3
  <2>5. A = {}
    BY <2>1 DEF Outstanding
  <2> QED BY <1>5, <2>1, <2>4, <2>5
<1>7. CASE ~Starting
  <2>1. uses[1] \in A
    BY <1>7 DEF HeadFacts
  <2> DEFINE u == uses[1]
             c == Cardinality(A)
             b == Cardinality(A \ {u})
  <2> HIDE DEF A, u, full
  <2>2. c \in Nat \ {0} /\ b = c - 1 /\ (c = 1 => A \ {u} = {})
    <3>1. u \in A /\ IsFiniteSet(A)
      BY <1>2, <2>1 DEF u
    <3> QED BY <3>1, OneLess, Zenon
  <2>3. deps[n] = reached[n] + c
    BY <1>2
  <2> HIDE DEF c, b
  <2>4. Fires(d) => full /\ c = 1
    BY <1>1, <1>5, <2>2, <2>3
  <2>5. deps[n] = reached[n] + 1 + b
    BY <1>1, <2>2, <2>3
  <2>6. ~Fires(d) /\ full => reached[n] + 1 < deps[n]
    BY <1>1, <1>5, <2>2, <2>3
  <2> QED BY <1>7, <2>2, <2>4, <2>5, <2>6 DEF A, u, full, b
<1> QED BY <1>6, <1>7

LEMMA WaitsCounts ==
    ASSUME IInv, stack # <<>>, NEW d, d = Head(stack), Waits(d),
           NEW uses, Lists(uses), Counts(uses), NEW t, t = Rest(uses)
    PROVE  /\ Types' /\ GraphInv' /\ StartInv' /\ Lists(t)' /\ Counts(t)' /\ ~Starting
<1> DEFINE n == d[1]
           u == uses[1]
<1>1. Types /\ GraphInv /\ StartInv /\ HeadFacts(d, uses)
  BY HeadIs DEF IInv
<1>2. ReceiveFacts(d)
  BY <1>1, Received
<1>3. /\ ~Fires(d)
      /\ reached' = [reached EXCEPT ![n] = @ + 1]
      /\ slots'   = [slots EXCEPT ![n] = SlotsWith(d)]
      /\ heap'    = HeapWith(d)
      /\ stack'   = Tail(stack)
      /\ UNCHANGED <<graph, deps, given, grad>>
  BY DEF Waits
<1>4. /\ ~Starting /\ deps[n] = reached[n] + 1 + Cardinality(Outstanding(uses, n) \ {u})
      /\ (\A o \in 1..Results(n) : SlotsWith(d)[o] # Null) => reached[n] + 1 < deps[n]
  BY <1>1, <1>3, LastFires
<1>5. /\ Lists(t)' /\ ~Starting'
      /\ \A m : Outstanding(t, m)' = Outstanding(uses, m) \ {u}
      /\ stack' \in Seq(Nodes \X {1, 2} \X (1..Len(heap)))
  BY <1>1, <1>3, <1>4, TailLists
<1>6. /\ Functions' = Functions /\ GraphInv'
      /\ \A m : Fn(m)' = Fn(m) /\ Uses(m)' = Uses(m) /\ Results(m)' = Results(m)
  BY <1>1, <1>3, SameGraph
<1>7. /\ n \in Leaves \cup Functions /\ n \in Nodes /\ given[n] = 0 /\ d[2] \in 1..Results(n)
      /\ DOMAIN slots[n] = 1..Results(n)
      /\ u \in Outstanding(uses, n) /\ Fn(u[1]).inputs[u[2]] = <<n, d[2]>>
  BY <1>1, <1>4 DEF HeadFacts
<1>8. /\ slots'[n] = SlotsWith(d) /\ \A m \in Nodes \ {n} : slots'[m] = slots[m]
      /\ reached'[n] = reached[n] + 1 /\ \A m \in Nodes \ {n} : reached'[m] = reached[m]
      /\ reached' \in [Nodes -> Nat] /\ reached[n] \in Nat
      /\ slots' \in [Nodes -> Seq(0..Len(heap))]
  <2>1. slots \in [Nodes -> Seq(0..Len(heap))] /\ reached \in [Nodes -> Nat]
    BY <1>1 DEF Types
  <2> DEFINE S == SlotsWith(d)
  <2>2. S \in Seq(0..Len(heap)) /\ slots' = [slots EXCEPT ![n] = S]
    BY <1>2, <1>3 DEF ReceiveFacts
  <2> HIDE DEF S
  <2> QED BY <1>3, <1>7, <2>1, <2>2 DEF S
<1>9. Len(heap') = Len(heap) /\ heap' \in Seq(Nat \ {0})
  BY <1>2, <1>3 DEF ReceiveFacts
<1>10. Types'
  <2>1. \A m \in Leaves \cup Functions : Len(slots'[m]) = Results(m)
    <3>1. Len(SlotsWith(d)) = Len(slots[n])
      BY <1>2 DEF ReceiveFacts
    <3> QED BY <1>1, <1>7, <1>8, <3>1, FunctionsAre DEF Types
  <2>2. \A m \in Nodes \ (Leaves \cup Functions) : slots'[m] = <<>> /\ deps'[m] = 0 /\ reached'[m] = 0
    BY <1>1, <1>3, <1>7, <1>8 DEF Types
  <2> QED BY <1>1, <1>3, <1>5, <1>6, <1>8, <1>9, <2>1, <2>2 DEF Types
<1>11. StartInv'
  BY <1>5 DEF StartInv
<1>12. AllHeld(n)' <=> \A o \in 1..Results(n) : SlotsWith(d)[o] # Null
  BY <1>2, <1>8 DEF AllHeld, ReceiveFacts
<1>13. ASSUME NEW m \in Leaves \cup Functions, m # n
       PROVE  /\ Outstanding(t, m)' = Outstanding(uses, m) /\ slots'[m] = slots[m]
              /\ (AllHeld(m)' <=> AllHeld(m)) /\ (NoneHeld(m)' <=> NoneHeld(m))
              /\ reached'[m] = reached[m] /\ Arrived(t, m)' = Arrived(uses, m)
  <2>1. u \notin Uses(m)
    BY <1>7, <1>13, <1>1, UsesAre
  <2>2. Outstanding(t, m)' = Outstanding(uses, m)
    <3>1. Outstanding(t, m)' = Outstanding(uses, m) \ {u}
      BY <1>5, Zenon
    <3> QED BY <2>1, <3>1 DEF Outstanding
  <2>3. m \in Nodes \ {n}
    BY <1>1, <1>13, FunctionsAre
  <2>4. slots'[m] = slots[m] /\ reached'[m] = reached[m]
    BY <1>8, <2>3
  <2>5. Arrived(t, m)' = Uses(m)' \ Outstanding(t, m)'
    BY DEF Arrived
  <2>6. Arrived(t, m)' = Arrived(uses, m)
    BY <1>6, <2>2, <2>5 DEF Arrived
  <2> QED BY <2>2, <2>4, <2>6 DEF AllHeld, NoneHeld
<1>14. Counts(t)'
  <2>1. ASSUME NEW m \in Leaves \cup Functions
        PROVE  IF given'[m] = 0
               THEN /\ deps'[m] = reached'[m] + Cardinality(Outstanding(t, m)')
                    /\ AllHeld(m)' => reached'[m] < deps'[m]
                    /\ reached'[m] = 0 => NoneHeld(m)'
                    /\ Uses(m)' = {} => deps'[m] = 0
               ELSE Outstanding(t, m)' = {} /\ reached'[m] = 0 /\ NoneHeld(m)'
    <3>1. CASE m = n
      <4>1. Outstanding(t, n)' = Outstanding(uses, n) \ {u}
        BY <1>5, Zenon
      <4>2. deps'[n] = reached'[n] + Cardinality(Outstanding(t, n)')
        BY <1>3, <1>4, <1>8, <4>1
      <4>3. AllHeld(n)' => reached'[n] < deps'[n]
        BY <1>3, <1>4, <1>8, <1>12
      <4>4. reached'[n] # 0
        BY <1>8
      <4>5. Uses(n)' # {}
        BY <1>6, <1>7 DEF Outstanding
      <4> QED BY <1>3, <1>7, <3>1, <4>2, <4>3, <4>4, <4>5
    <3>2. CASE m # n
      <4>1. /\ Outstanding(t, m)' = Outstanding(uses, m)
            /\ (AllHeld(m)' <=> AllHeld(m)) /\ (NoneHeld(m)' <=> NoneHeld(m))
            /\ reached'[m] = reached[m]
        BY <1>13, <3>2
      <4> QED BY <1>3, <1>6, <4>1 DEF Counts
    <3> QED BY <3>1, <3>2
  <2>2. ASSUME NEW l \in Leaves PROVE reached'[l] > 0 => AllHeld(l)'
    <3>1. CASE l = n
      <4>1. Results(n) = 1 /\ d[2] = 1
        <5>1. Results(n) = 1
          BY <1>1, <3>1, FunctionsAre DEF Results
        <5> QED BY <1>7, <5>1
      <4>2. SlotsWith(d)[1] # Null
        <5>1. SlotsWith(d)[d[2]] \in 1..Len(heap) /\ Len(heap) \in Nat
          BY <1>1, <1>2 DEF ReceiveFacts, Types
        <5> QED BY <4>1, <5>1 DEF Null
      <4>3. \A o \in 1..1 : o = 1
        OBVIOUS
      <4> QED BY <1>12, <3>1, <4>1, <4>2, <4>3
    <3>2. CASE l # n
      BY <1>13, <3>2 DEF Counts
    <3> QED BY <3>1, <3>2
  <2>3. ASSUME NEW m \in Functions, given[m] = 0, NEW e \in Arrived(t, m)'
        PROVE  slots'[m][Fn(e[1]).inputs[e[2]][2]] # Null
    <3>1. CASE m = n
      <4>1. e \in Uses(n) /\ (e \in Outstanding(uses, n) => e = u)
        <5>1. Outstanding(t, n)' = Outstanding(uses, n) \ {u}
          BY <1>5, Zenon
        <5>2. Arrived(t, n)' = Uses(n)' \ Outstanding(t, n)'
          BY DEF Arrived
        <5> QED BY <1>6, <2>3, <3>1, <5>1, <5>2
      <4> DEFINE o == Fn(e[1]).inputs[e[2]][2]
      <4>2. CASE e = u
        <5>1. o = d[2]
          BY <1>7, <4>2
        <5>2. SlotsWith(d)[d[2]] \in 1..Len(heap) /\ Len(heap) \in Nat
          BY <1>1, <1>2 DEF ReceiveFacts, Types
        <5>3. SlotsWith(d)[o] # Null
          BY <5>1, <5>2 DEF Null
        <5> QED BY <1>8, <3>1, <5>3
      <4>3. CASE e # u
        <5>1. e \in Arrived(uses, n)
          BY <4>1, <4>3 DEF Arrived
        <5>2. slots[n][o] # Null
          BY <2>3, <3>1, <5>1 DEF Counts
        <5>3. o \in 1..Results(n)
          <6>1. /\ e[1] \in Functions /\ e[2] \in DOMAIN Fn(e[1]).inputs
                /\ Fn(e[1]).inputs[e[2]][1] = n
            BY <1>1, <4>1, UsesAre
          <6> QED BY <1>1, <6>1 DEF GraphInv
        <5>4. SlotsWith(d)[o] = slots[n][o]
          BY <1>2, <5>2, <5>3 DEF ReceiveFacts
        <5> QED BY <1>8, <3>1, <5>2, <5>4
      <4> QED BY <4>2, <4>3
    <3>2. CASE m # n
      <4>1. Arrived(t, m)' = Arrived(uses, m) /\ slots'[m] = slots[m]
        BY <1>13, <3>2
      <4> QED BY <2>3, <4>1 DEF Counts
    <3> QED BY <3>1, <3>2
  <2>4. ASSUME NEW m \in Functions, given'[m] = 0, NEW e \in Arrived(t, m)'
        PROVE  slots'[m][Fn(e[1]).inputs[e[2]][2]] # Null
    <3>1. given[m] = 0
      BY <1>3, <2>4
    <3> QED BY <2>3, <2>4, <3>1
  <2> QED BY <1>6, <2>1, <2>2, <2>4 DEF Counts
<1> QED BY <1>4, <1>5, <1>6, <1>10, <1>11, <1>14

LEMMA AccumulateCounts ==
    ASSUME IInv, stack # <<>>, NEW d, d = Head(stack), RunAccumulate(d),
           NEW uses, Lists(uses), Counts(uses), NEW t, t = Rest(uses)
    PROVE  Types' /\ GraphInv' /\ StartInv' /\ Lists(t)' /\ Counts(t)' /\ ~Starting
<1> DEFINE n == d[1]
           u == uses[1]
<1>1. Types /\ GraphInv /\ StartInv /\ HeadFacts(d, uses)
  BY HeadIs DEF IInv
<1>2. ReceiveFacts(d)
  BY <1>1, Received
<1>3. /\ Fires(d) /\ n \in Leaves
      /\ IF grad[n] = Null
         THEN grad' = [grad EXCEPT ![n] = SlotsWith(d)[1]] /\ heap' = HeapWith(d)
         ELSE heap' = [HeapWith(d) EXCEPT ![grad[n]] = @ + HeapWith(d)[SlotsWith(d)[1]]]
              /\ UNCHANGED grad
      /\ deps'    = [deps EXCEPT ![n] = 0]
      /\ reached' = [reached EXCEPT ![n] = 0]
      /\ slots'   = [slots EXCEPT ![n] = <<Null>>]
      /\ stack'   = Tail(stack)
      /\ UNCHANGED <<graph, given>>
  BY DEF RunAccumulate, DepsReset
<1>4. Outstanding(uses, n) \ {u} = {}
  BY <1>1, <1>3, LastFires
<1>5. ~Starting
  BY <1>1, <1>3, FunctionsAre DEF HeadFacts, Sinks
<1>6. /\ Lists(t)' /\ ~Starting'
      /\ \A m : Outstanding(t, m)' = Outstanding(uses, m) \ {u}
      /\ stack' \in Seq(Nodes \X {1, 2} \X (1..Len(heap)))
  <2>1. graph' = graph /\ given' = given /\ stack' = Tail(stack)
    BY <1>3
  <2> QED BY <1>1, <1>5, <2>1, TailLists
<1>7. /\ Functions' = Functions /\ GraphInv'
      /\ \A m : Fn(m)' = Fn(m) /\ Uses(m)' = Uses(m) /\ Results(m)' = Results(m)
  BY <1>1, <1>3, SameGraph
<1>8. /\ n \in Nodes /\ given[n] = 0 /\ d[2] = 1 /\ Results(n) = 1 /\ n \notin Functions
      /\ u \in Outstanding(uses, n) /\ d[2] \in 1..Results(n)
  <2>1. Results(n) = 1 /\ n \notin Functions
    BY <1>1, <1>3, FunctionsAre DEF Results
  <2> QED BY <1>1, <1>5, <2>1 DEF HeadFacts
<1>9. /\ slots'[n] = <<Null>> /\ \A m \in Nodes \ {n} : slots'[m] = slots[m]
      /\ reached'[n] = 0 /\ \A m \in Nodes \ {n} : reached'[m] = reached[m]
      /\ deps'[n] = 0 /\ \A m \in Nodes \ {n} : deps'[m] = deps[m]
      /\ reached' \in [Nodes -> Nat] /\ deps' \in [Nodes -> Nat]
      /\ slots' \in [Nodes -> Seq(0..Len(heap))]
  <2>1. /\ slots \in [Nodes -> Seq(0..Len(heap))] /\ reached \in [Nodes -> Nat]
        /\ deps \in [Nodes -> Nat] /\ Len(heap) \in Nat
    <3>1. Len(heap) \in Nat
      BY <1>1 DEF Types
    <3> QED BY <1>1, <3>1, Zenon DEF Types
  <2> DEFINE S == <<Null>>
  <2>2. S \in Seq(0..Len(heap)) /\ slots' = [slots EXCEPT ![n] = S]
    BY <1>3, <2>1 DEF Null
  <2> HIDE DEF S
  <2> QED BY <1>3, <1>8, <2>1, <2>2 DEF S
<1>10. /\ SlotsWith(d)[1] \in 1..Len(heap) /\ HeapWith(d) \in Seq(Nat \ {0})
       /\ Len(HeapWith(d)) = Len(heap) /\ Len(heap) \in Nat
  <2>1. Len(heap) \in Nat
    BY <1>1 DEF Types
  <2>2. /\ SlotsWith(d)[d[2]] \in 1..Len(heap) /\ HeapWith(d) \in Seq(Nat \ {0})
        /\ Len(HeapWith(d)) = Len(heap)
    BY <1>2, Zenon DEF ReceiveFacts
  <2>3. SlotsWith(d)[1] \in 1..Len(heap)
    BY <1>8, <2>2, Zenon
  <2> QED BY <2>1, <2>2, <2>3, Zenon
<1>11. /\ heap' \in Seq(Nat \ {0}) /\ Len(heap') = Len(heap)
       /\ grad' \in [Leaves -> 0..Len(heap)] /\ \A l \in Leaves \ {n} : grad'[l] = grad[l]
  <2>1. grad \in [Leaves -> 0..Len(heap)]
    BY <1>1 DEF Types
  <2> DEFINE H == HeapWith(d)
             b == SlotsWith(d)[1]
  <2>2. H \in Seq(Nat \ {0}) /\ Len(H) = Len(heap) /\ Len(heap) \in Nat /\ b \in 1..Len(heap)
    BY <1>10
  <2>3. IF grad[n] = Null
        THEN grad' = [grad EXCEPT ![n] = b] /\ heap' = H
        ELSE heap' = [H EXCEPT ![grad[n]] = @ + H[b]] /\ UNCHANGED grad
    BY <1>3
  <2> HIDE DEF H, b
  <2>4. CASE grad[n] = Null
    BY <1>3, <2>1, <2>2, <2>3, <2>4
  <2>5. CASE grad[n] # Null
    <3>1. grad[n] \in 1..Len(heap) /\ grad[n] \in DOMAIN H
      BY <1>3, <2>1, <2>2, <2>5 DEF Null
    <3> DEFINE v == H[grad[n]] + H[b]
    <3>2. v \in Nat \ {0}
      <4>1. H[grad[n]] \in Nat \ {0} /\ H[b] \in Nat \ {0}
        BY <2>2, <3>1
      <4> QED BY <4>1
    <3>3. heap' = [H EXCEPT ![grad[n]] = v]
      BY <2>3, <2>5
    <3> HIDE DEF v
    <3> QED BY <2>1, <2>2, <2>3, <2>5, <3>1, <3>2, <3>3
  <2> QED BY <2>4, <2>5
<1>12. Types'
  <2>1. ASSUME NEW m \in Leaves \cup Functions PROVE Len(slots'[m]) = Results(m)
    <3>1. CASE m = n
      <4>1. Len(<<Null>>) = 1
        OBVIOUS
      <4> QED BY <1>8, <1>9, <3>1, <4>1
    <3>2. CASE m # n
      <4>1. m \in Nodes /\ Len(slots[m]) = Results(m)
        BY <1>1, FunctionsAre DEF Types
      <4> QED BY <1>9, <3>2, <4>1
    <3> QED BY <3>1, <3>2
  <2>2. \A m \in Nodes \ (Leaves \cup Functions) : slots'[m] = <<>> /\ deps'[m] = 0 /\ reached'[m] = 0
    <3>1. \A m \in Nodes \ (Leaves \cup Functions) : slots[m] = <<>> /\ deps[m] = 0 /\ reached[m] = 0
      BY <1>1, Zenon DEF Types
    <3>2. n \in Leaves
      BY <1>3
    <3> QED BY <1>9, <3>1, <3>2
  <2>3. /\ graph' \in Seq([kind : Kinds, inputs : Seq((Nodes \cup {NoGrad}) \X {1, 2})])
        /\ Len(graph') <= MaxFunctions /\ given' \in [Nodes -> Nat]
        /\ \A m \in Nodes \ Functions : given'[m] = 0
    BY <1>1, <1>3, Zenon DEF Types
  <2>4. /\ heap' \in Seq(Nat \ {0}) /\ grad' \in [Leaves -> 0..Len(heap')]
        /\ slots' \in [Nodes -> Seq(0..Len(heap'))]
        /\ stack' \in Seq(Nodes \X {1, 2} \X (1..Len(heap')))
        /\ deps' \in [Nodes -> Nat] /\ reached' \in [Nodes -> Nat]
    BY <1>6, <1>9, <1>11, Zenon
  <2>5. \A m \in Nodes \ (Leaves \cup Functions) :
           slots'[m] = <<>> /\ deps'[m] = 0 /\ reached'[m] = 0
    BY <2>2
  <2> QED BY <1>7, <2>1, <2>3, <2>4, <2>5, Zenon DEF Types
<1>13. StartInv'
  BY <1>6 DEF StartInv
<1>14. NoneHeld(n)' /\ ~AllHeld(n)'
  BY <1>9 DEF NoneHeld, AllHeld
<1>15. ASSUME NEW m \in Leaves \cup Functions, m # n
       PROVE  /\ Outstanding(t, m)' = Outstanding(uses, m) /\ slots'[m] = slots[m]
              /\ (AllHeld(m)' <=> AllHeld(m)) /\ (NoneHeld(m)' <=> NoneHeld(m))
              /\ reached'[m] = reached[m] /\ deps'[m] = deps[m] /\ Arrived(t, m)' = Arrived(uses, m)
  <2>1. u \notin Uses(m)
    BY <1>8, <1>15, <1>1, UsesAre DEF Outstanding
  <2>2. Outstanding(t, m)' = Outstanding(uses, m)
    <3>1. Outstanding(t, m)' = Outstanding(uses, m) \ {u}
      BY <1>6, Zenon
    <3> QED BY <2>1, <3>1 DEF Outstanding
  <2>3. m \in Nodes \ {n}
    BY <1>1, <1>15, FunctionsAre
  <2>4. slots'[m] = slots[m] /\ reached'[m] = reached[m] /\ deps'[m] = deps[m]
    BY <1>9, <2>3
  <2>5. Arrived(t, m)' = Uses(m)' \ Outstanding(t, m)'
    BY DEF Arrived
  <2>6. Arrived(t, m)' = Arrived(uses, m)
    BY <1>7, <2>2, <2>5 DEF Arrived
  <2> QED BY <2>2, <2>4, <2>6 DEF AllHeld, NoneHeld
<1>16. Counts(t)'
  <2>1. ASSUME NEW m \in Leaves \cup Functions
        PROVE  IF given'[m] = 0
               THEN /\ deps'[m] = reached'[m] + Cardinality(Outstanding(t, m)')
                    /\ AllHeld(m)' => reached'[m] < deps'[m]
                    /\ reached'[m] = 0 => NoneHeld(m)'
                    /\ Uses(m)' = {} => deps'[m] = 0
               ELSE Outstanding(t, m)' = {} /\ reached'[m] = 0 /\ NoneHeld(m)'
    <3>1. CASE m = n
      <4>1. Outstanding(t, n)' = {}
        <5>1. Outstanding(t, n)' = Outstanding(uses, n) \ {u}
          BY <1>6, Zenon
        <5> QED BY <1>4, <5>1
      <4>2. Cardinality(Outstanding(t, n)') = 0
        BY <4>1, FS_EmptySet
      <4> QED BY <1>9, <1>14, <3>1, <4>1, <4>2
    <3>2. CASE m # n
      <4>1. /\ Outstanding(t, m)' = Outstanding(uses, m)
            /\ (AllHeld(m)' <=> AllHeld(m)) /\ (NoneHeld(m)' <=> NoneHeld(m))
            /\ reached'[m] = reached[m] /\ deps'[m] = deps[m]
        BY <1>15, <3>2
      <4> QED BY <1>3, <1>7, <4>1 DEF Counts
    <3> QED BY <3>1, <3>2
  <2>2. ASSUME NEW l \in Leaves PROVE reached'[l] > 0 => AllHeld(l)'
    <3>1. CASE l = n
      BY <1>9, <3>1
    <3>2. CASE l # n
      BY <1>15, <3>2 DEF Counts
    <3> QED BY <3>1, <3>2
  <2>3. ASSUME NEW m \in Functions, given[m] = 0, NEW e \in Arrived(t, m)'
        PROVE  slots'[m][Fn(e[1]).inputs[e[2]][2]] # Null
    <3>1. m # n
      BY <1>8
    <3>2. Arrived(t, m)' = Arrived(uses, m) /\ slots'[m] = slots[m]
      BY <1>15, <3>1
    <3> QED BY <2>3, <3>2 DEF Counts
  <2>4. ASSUME NEW m \in Functions, given'[m] = 0, NEW e \in Arrived(t, m)'
        PROVE  slots'[m][Fn(e[1]).inputs[e[2]][2]] # Null
    <3>1. given[m] = 0
      BY <1>3, <2>4
    <3> QED BY <2>3, <2>4, <3>1
  <2> QED BY <1>7, <2>1, <2>2, <2>4 DEF Counts
<1> QED BY <1>5, <1>6, <1>7, <1>12, <1>13, <1>16

(* What RunFunction changes.                                               *)
Buffer(d, i) ==
    IF SharesGradient(Fn(d[1]).kind) THEN SlotsWith(d)[1] ELSE Len(heap) + i

RunEffect(d, v, edges) ==
    LET n == d[1]
        ins == Fn(n).inputs
    IN
    /\ Fires(d) /\ n \notin Leaves
    /\ given'   = [given EXCEPT ![n] = v]
    /\ reached' = [reached EXCEPT ![n] = 0]
    /\ slots'   = [slots EXCEPT ![n] = [o \in 1..Results(n) |-> Null]]
    /\ heap'    = IF SharesGradient(Fn(n).kind) THEN HeapWith(d)
                  ELSE HeapWith(d) \o [i \in DOMAIN ins |-> v]
    /\ stack'   = [j \in DOMAIN edges |->
                      <<ins[edges[j]][1], ins[edges[j]][2], Buffer(d, edges[j])>>] \o Tail(stack)
    /\ UNCHANGED <<graph, deps, grad>>
    /\ v \in Nat \ {0}
    /\ v = IF Results(n) = 2
           THEN HeapWith(d)[SlotsWith(d)[1]] + HeapWith(d)[SlotsWith(d)[2]]
           ELSE HeapWith(d)[SlotsWith(d)[1]]
    /\ InOrder(n, edges)
    /\ \A o \in 1..Results(n) : SlotsWith(d)[o] \in 1..Len(heap)

LEMMA RunIs ==
    ASSUME Types, GraphInv, NEW uses, Counts(uses), NEW d, HeadFacts(d, uses), RunFunction(d)
    PROVE  \E v, edges : RunEffect(d, v, edges)
<1> DEFINE n == d[1]
           S == SlotsWith(d)
           H == HeapWith(d)
           v == ValueOf(H, S)
           edges == ServedEdges(n)
<1>1. ReceiveFacts(d) /\ Results(n) \in {1, 2} /\ n \notin Leaves /\ n \in Leaves \cup Functions
  BY Received DEF HeadFacts, RunFunction
<1>2. \A o \in 1..Results(n) : S[o] # Null
  BY LastFires DEF RunFunction
<1>3. DOMAIN S = 1..Results(n)
  BY <1>1 DEF ReceiveFacts
<1>4. ASSUME NEW o \in 1..Results(n) PROVE S[o] \in 1..Len(heap) /\ H[S[o]] \in Nat \ {0}
  <2>1. S \in Seq(0..Len(heap)) /\ H \in Seq(Nat \ {0}) /\ Len(H) = Len(heap) /\ Len(heap) \in Nat
    BY <1>1 DEF ReceiveFacts, Types
  <2> HIDE DEF S, H
  <2>2. S[o] \in 0..Len(heap) /\ S[o] # Null
    <3>1. o \in DOMAIN S /\ S[o] # Null
      BY <1>2, <1>3, Zenon DEF S
    <3> QED BY <2>1, <3>1
  <2>3. S[o] \in 1..Len(heap)
    BY <2>1, <2>2 DEF Null
  <2> QED BY <2>1, <2>3
<1>5. v = IF Results(n) = 2 THEN H[S[1]] + H[S[2]] ELSE H[S[1]]
  <2> HIDE DEF S, H
  <2>1. \A o \in 1..Results(n) : H[S[o]] \in Nat
    BY <1>4
  <2> QED BY <1>1, <1>3, <2>1, ValueIs
<1>6. v \in Nat \ {0}
  <2> HIDE DEF S, H, v
  <2>1. CASE Results(n) = 2
    <3>1. H[S[1]] \in Nat \ {0} /\ H[S[2]] \in Nat \ {0}
      BY <1>4, <2>1
    <3> QED BY <1>5, <2>1, <3>1
  <2>2. CASE Results(n) = 1
    <3>1. H[S[1]] \in Nat \ {0}
      BY <1>4, <2>2
    <3> QED BY <1>5, <2>2, <3>1
  <2> QED BY <1>1, <2>1, <2>2
<1>7. InOrder(n, edges)
  BY <1>1, ServedInOrder
<1>8. slots' = [slots EXCEPT ![n] = [o \in 1..Results(n) |-> Null]]
  BY <1>3 DEF RunFunction
<1>9. /\ Fires(d) /\ n \notin Leaves
      /\ given'   = [given EXCEPT ![n] = v]
      /\ reached' = [reached EXCEPT ![n] = 0]
      /\ heap'    = IF SharesGradient(Fn(n).kind) THEN HeapWith(d)
                    ELSE HeapWith(d) \o [i \in DOMAIN Fn(n).inputs |-> v]
      /\ UNCHANGED <<graph, deps, grad>>
  BY DEF RunFunction, ValueOf
<1>10. stack' = [j \in DOMAIN edges |->
                   <<Fn(n).inputs[edges[j]][1], Fn(n).inputs[edges[j]][2], Buffer(d, edges[j])>>]
                 \o Tail(stack)
  BY DEF RunFunction, Buffer
<1>11. v = IF Results(d[1]) = 2
           THEN HeapWith(d)[SlotsWith(d)[1]] + HeapWith(d)[SlotsWith(d)[2]]
           ELSE HeapWith(d)[SlotsWith(d)[1]]
  BY <1>5
<1>12. \A o \in 1..Results(d[1]) : SlotsWith(d)[o] \in 1..Len(heap)
  BY <1>4
<1> HIDE DEF v, edges
<1>13. RunEffect(d, v, edges)
  BY <1>6, <1>7, <1>8, <1>9, <1>10, <1>11, <1>12, Zenon DEF RunEffect
<1> QED BY <1>13

Concatenated(c, a, b, S) ==
    /\ c \in Seq(S) /\ Len(c) = Len(a) + Len(b) /\ DOMAIN c = 1..(Len(a) + Len(b))
    /\ \A j \in 1..Len(a) : c[j] = a[j]
    /\ \A j \in 1..Len(b) : c[Len(a) + j] = b[j]

LEMMA ConcatIs ==
    ASSUME NEW S, NEW a \in Seq(S), NEW b \in Seq(S)
    PROVE  Concatenated(a \o b, a, b, S)
BY DEF Concatenated

(* The uses of the stack once function n has run.                          *)
RunUses(n, edges, uses) == [j \in DOMAIN edges |-> <<n, edges[j]>>] \o Rest(uses)

RunStack(d, edges, uses, t) ==
    LET n == d[1]
        ins == Fn(n).inputs
        k == Len(edges)
    IN
    /\ k \in {1, 2} /\ Len(t) = k + Len(stack) - 1 /\ Len(stack') = Len(t)
    /\ DOMAIN t = 1..Len(t) /\ DOMAIN stack' = 1..Len(t) /\ Len(t) \in Nat
    /\ Len(stack) \in Nat \ {0}
    /\ \A j \in 1..k : /\ edges[j] \in LiveEdges(n) /\ t[j] = <<n, edges[j]>>
                       /\ stack'[j] = <<ins[edges[j]][1], ins[edges[j]][2], Buffer(d, edges[j])>>
    /\ \A j \in (k + 1)..Len(t) :
          LET i == j - k + 1 IN
          /\ i \in DOMAIN stack /\ i # 1 /\ stack'[j] = stack[i]
          /\ i \in DOMAIN uses /\ t[j] = uses[i]
    /\ stack' \in Seq(Nodes \X {1, 2} \X (1..Len(heap')))
    /\ t \in Seq(Functions \X {1, 2})
    /\ heap' \in Seq(Nat \ {0}) /\ Len(heap') >= Len(heap) /\ Len(heap') \in Nat
    /\ Len(heap) \in Nat

LEMMA RunStackIs ==
    ASSUME Types, GraphInv, StartInv, stack # <<>>, NEW d, d = Head(stack),
           NEW v, NEW edges, RunEffect(d, v, edges),
           NEW uses, Lists(uses), HeadFacts(d, uses), NEW t, t = RunUses(d[1], edges, uses)
    PROVE  RunStack(d, edges, uses, t)
<1> DEFINE n == d[1]
           ins == Fn(n).inputs
           k == Len(edges)
           m == Len(stack) - 1
           r == Rest(uses)
           s == Tail(stack)
           T == Nodes \X {1, 2} \X (1..Len(heap'))
           P == Functions \X {1, 2}
           a == [j \in DOMAIN edges |-> <<ins[edges[j]][1], ins[edges[j]][2], Buffer(d, edges[j])>>]
           b == [j \in DOMAIN edges |-> <<n, edges[j]>>]
<1>1. /\ n \in Functions /\ InOrder(n, edges) /\ v \in Nat \ {0}
      /\ \A o \in 1..Results(n) : SlotsWith(d)[o] \in 1..Len(heap)
      /\ heap' = IF SharesGradient(Fn(n).kind) THEN HeapWith(d)
                 ELSE HeapWith(d) \o [i \in DOMAIN ins |-> v]
  BY DEF RunEffect, HeadFacts
<1>2. /\ edges \in Seq({1, 2}) /\ k \in {1, 2} /\ DOMAIN edges = 1..k
      /\ \A j \in 1..k : edges[j] \in LiveEdges(n)
  BY <1>1 DEF InOrder
<1>3. ReceiveFacts(d)
  BY Received
<1>4. /\ Fn(n) \in [kind : Kinds, inputs : Seq((Nodes \cup {NoGrad}) \X {1, 2})]
      /\ DOMAIN ins = 1..Len(ins) /\ Len(ins) \in {1, 2}
      /\ \A i \in LiveEdges(n) : /\ i \in DOMAIN ins /\ i \in 1..Len(ins)
                                 /\ ins[i][1] \in Nodes /\ ins[i][2] \in {1, 2}
  <2>1. /\ Fn(n) \in [kind : Kinds, inputs : Seq((Nodes \cup {NoGrad}) \X {1, 2})]
        /\ DOMAIN ins = 1..Len(ins) /\ Len(ins) \in {1, 2}
    BY <1>1, FunctionsAre DEF GraphInv
  <2>2. ins \in Seq((Nodes \cup {NoGrad}) \X {1, 2})
    BY <2>1
  <2>3. ASSUME NEW i \in LiveEdges(n)
        PROVE  /\ i \in DOMAIN ins /\ ins[i][1] \in Nodes /\ ins[i][2] \in {1, 2}
    <3>1. i \in DOMAIN ins /\ ins[i][1] # NoGrad
      BY DEF LiveEdges
    <3>2. ins[i] \in (Nodes \cup {NoGrad}) \X {1, 2}
      BY <2>2, <3>1
    <3> QED BY <3>1, <3>2
  <2> QED BY <2>1, <2>3
<1>5. /\ heap' \in Seq(Nat \ {0}) /\ Len(heap') \in Nat /\ Len(heap) \in Nat
      /\ Len(heap') = IF SharesGradient(Fn(n).kind) THEN Len(heap) ELSE Len(heap) + Len(ins)
  <2> DEFINE H == HeapWith(d)
             c == [i \in DOMAIN ins |-> v]
             V == Nat \ {0}
  <2>1. H \in Seq(V) /\ Len(H) = Len(heap) /\ Len(heap) \in Nat
    BY <1>3 DEF ReceiveFacts, Types
  <2>2. c \in Seq(V) /\ Len(c) = Len(ins)
    <3>1. c \in [1..Len(ins) -> V] /\ Len(ins) \in Nat
      <4>1. DOMAIN ins = 1..Len(ins) /\ Len(ins) \in Nat /\ v \in V
        BY <1>1, <1>4
      <4> HIDE DEF V, ins
      <4> QED BY <4>1
    <3> HIDE DEF V, c
    <3> QED BY <3>1, FunctionSeq, Zenon
  <2>3. heap' = IF SharesGradient(Fn(n).kind) THEN H ELSE H \o c
    BY <1>1
  <2> HIDE DEF H, c, V
  <2>4. H \o c \in Seq(V) /\ Len(H \o c) = Len(heap) + Len(ins)
    <3>1. Concatenated(H \o c, H, c, V)
      BY <2>1, <2>2, ConcatIs, Zenon
    <3> QED BY <2>1, <2>2, <3>1, Zenon DEF Concatenated
  <2>5. Len(ins) \in Nat
    BY <1>4
  <2> HIDE DEF ins
  <2> QED BY <2>1, <2>3, <2>4, <2>5 DEF V
<1>6. \A i \in LiveEdges(n) : Buffer(d, i) \in 1..Len(heap')
  <2>1. ASSUME NEW i \in LiveEdges(n) PROVE Buffer(d, i) \in 1..Len(heap')
    <3>1. CASE SharesGradient(Fn(n).kind)
      <4>1. 1 \in 1..Results(n)
        BY <1>1 DEF Results, Outputs
      <4>2. Buffer(d, i) = SlotsWith(d)[1] /\ Len(heap') = Len(heap)
        BY <1>5, <3>1 DEF Buffer
      <4>3. SlotsWith(d)[1] \in 1..Len(heap)
        BY <1>1, <4>1
      <4> QED BY <4>2, <4>3, Zenon
    <3>2. CASE ~SharesGradient(Fn(n).kind)
      <4>1. Buffer(d, i) = Len(heap) + i /\ Len(heap') = Len(heap) + Len(ins) /\ Len(heap) \in Nat
        BY <1>5, <3>2 DEF Buffer
      <4>2. i \in 1..Len(ins) /\ Len(ins) \in Nat
        BY <1>4
      <4> HIDE DEF ins
      <4> QED BY <4>1, <4>2
    <3> QED BY <3>1, <3>2
  <2> QED BY <2>1
<1>7. RestFacts(uses, s, r)
  BY RestIs
<1>8. /\ s \in Seq(T) /\ Len(s) = m /\ DOMAIN s = 1..m /\ m \in Nat
      /\ r \in Seq(P) /\ Len(r) = m /\ DOMAIN r = 1..m
      /\ \A j \in 1..m : /\ j + 1 \in DOMAIN stack /\ s[j] = stack[j + 1]
                         /\ j + 1 \in DOMAIN uses /\ r[j] = uses[j + 1]
  <2>1. Seq(Nodes \X {1, 2} \X (1..Len(heap))) \subseteq Seq(T)
    <3>1. 1..Len(heap) \subseteq 1..Len(heap')
      <4>1. Len(heap') >= Len(heap) /\ Len(heap) \in Nat /\ Len(heap') \in Nat
        <5>1. Len(ins) \in Nat
          BY <1>4
        <5> HIDE DEF ins
        <5> QED BY <1>5, <5>1
      <4> QED BY <4>1
    <3> DEFINE A == 1..Len(heap)
               B == 1..Len(heap')
    <3> HIDE DEF A, B
    <3>2. Nodes \X {1, 2} \X A \subseteq Nodes \X {1, 2} \X B
      BY <3>1 DEF A, B
    <3> QED BY <3>2 DEF A, B
  <2> HIDE DEF T
  <2> QED BY <1>7, <2>1, Zenon DEF RestFacts
<1>9. a \in Seq(T) /\ Len(a) = k /\ \A j \in 1..k : a[j] =
                   <<ins[edges[j]][1], ins[edges[j]][2], Buffer(d, edges[j])>>
  <2>1. \A j \in 1..k : <<ins[edges[j]][1], ins[edges[j]][2], Buffer(d, edges[j])>> \in T
    <3>1. ASSUME NEW j \in 1..k
          PROVE  <<ins[edges[j]][1], ins[edges[j]][2], Buffer(d, edges[j])>> \in T
      <4>1. PICK e : e = edges[j]
        OBVIOUS
      <4>2. e \in LiveEdges(n)
        BY <1>2, <4>1
      <4>3. ins[e][1] \in Nodes /\ ins[e][2] \in {1, 2} /\ Buffer(d, e) \in 1..Len(heap')
        BY <1>4, <1>6, <4>2
      <4>4. <<ins[e][1], ins[e][2], Buffer(d, e)>> \in T
        BY <4>3
      <4> QED BY <4>1, <4>4
    <3> QED BY <3>1
  <2> HIDE DEF T, ins
  <2>2. a \in [1..k -> T] /\ k \in Nat
    BY <1>2, <2>1
  <2>3. a \in Seq(T) /\ Len(a) = k
    <3> HIDE DEF a
    <3> QED BY <2>2, FunctionSeq, Zenon
  <2> QED BY <1>2, <2>3
<1>10. b \in Seq(P) /\ Len(b) = k /\ \A j \in 1..k : b[j] = <<n, edges[j]>>
  <2>1. b \in [1..k -> P] /\ k \in Nat
    <3>1. \A j \in 1..k : edges[j] \in {1, 2}
      BY <1>2
    <3> QED BY <1>1, <1>2, <3>1
  <2>2. b \in Seq(P) /\ Len(b) = k
    <3> HIDE DEF b, P
    <3> QED BY <2>1, FunctionSeq, Zenon
  <2> QED BY <1>2, <2>2
<1>11. stack' = a \o s /\ t = b \o r
  BY DEF RunEffect, RunUses
<1> HIDE DEF a, b, s, r, T, P, ins
<1>12. /\ stack' \in Seq(T) /\ Len(stack') = k + m /\ DOMAIN stack' = 1..(k + m)
       /\ \A j \in 1..k : stack'[j] = a[j]
       /\ \A j \in 1..m : stack'[k + j] = s[j]
  <2>1. Concatenated(a \o s, a, s, T)
    BY <1>8, <1>9, ConcatIs, Zenon
  <2>2. Len(a) = k /\ Len(s) = m /\ stack' = a \o s
    BY <1>8, <1>9, <1>11
  <2> HIDE DEF k, m
  <2> QED BY <2>1, <2>2, Zenon DEF Concatenated
<1>13. /\ t \in Seq(P) /\ Len(t) = k + m /\ DOMAIN t = 1..(k + m)
       /\ \A j \in 1..k : t[j] = b[j]
       /\ \A j \in 1..m : t[k + j] = r[j]
  <2>1. Concatenated(b \o r, b, r, P)
    BY <1>8, <1>10, ConcatIs, Zenon
  <2>2. Len(b) = k /\ Len(r) = m /\ t = b \o r
    BY <1>8, <1>10, <1>11
  <2> HIDE DEF k, m
  <2> QED BY <2>1, <2>2, Zenon DEF Concatenated
<1>14. Len(stack) \in Nat \ {0} /\ k + m = k + Len(stack) - 1
  BY <1>2 DEF Types
<1> HIDE DEF k, m
<1>15. ASSUME NEW j \in (k + 1)..(k + m), NEW i, i = j - k + 1
       PROVE  /\ i \in DOMAIN stack /\ i # 1 /\ stack'[j] = stack[i]
              /\ i \in DOMAIN uses /\ t[j] = uses[i]
  <2>1. k \in Nat /\ m \in Nat
    BY <1>2, <1>8
  <2>2. PICK q : q = j - k
    OBVIOUS
  <2>3. q \in 1..m /\ k + q = j /\ i = q + 1 /\ i # 1
    BY <1>15, <2>1, <2>2
  <2> QED BY <1>8, <1>12, <1>13, <2>3
<1>16. Len(heap') >= Len(heap) /\ k + m \in Nat
  <2>1. Len(ins) \in Nat /\ k \in Nat
    BY <1>2, <1>4
  <2> QED BY <1>5, <1>8, <2>1
<1>17. \A j \in 1..k : /\ edges[j] \in LiveEdges(n) /\ t[j] = <<n, edges[j]>>
                       /\ stack'[j] = <<ins[edges[j]][1], ins[edges[j]][2], Buffer(d, edges[j])>>
  BY <1>2, <1>9, <1>10, <1>12, <1>13
<1>18. \A j \in (k + 1)..Len(t) :
          LET i == j - k + 1 IN
          /\ i \in DOMAIN stack /\ i # 1 /\ stack'[j] = stack[i]
          /\ i \in DOMAIN uses /\ t[j] = uses[i]
  BY <1>13, <1>15
<1>19. /\ Len(t) = k + Len(stack) - 1 /\ Len(stack') = Len(t)
       /\ DOMAIN t = 1..Len(t) /\ DOMAIN stack' = 1..Len(t) /\ Len(t) \in Nat
  BY <1>12, <1>13, <1>14, <1>16
<1>20. stack' \in Seq(T) /\ t \in Seq(P)
  BY <1>12, <1>13
<1>21. RunStack(d, edges, uses, t)
  BY <1>2, <1>5, <1>14, <1>16, <1>17, <1>18, <1>19, <1>20, Zenon DEF RunStack, k, n, ins, T, P
<1> QED BY <1>21

LEMMA RunLists ==
    ASSUME Types, GraphInv, StartInv, stack # <<>>, NEW d, d = Head(stack),
           NEW v, NEW edges, RunEffect(d, v, edges),
           NEW uses, Lists(uses), HeadFacts(d, uses), NEW t, t = RunUses(d[1], edges, uses)
    PROVE  /\ Lists(t)' /\ ~Starting'
           /\ Listed(t) = {<<d[1], i>> : i \in LiveEdges(d[1])} \cup (Listed(uses) \ {uses[1]})
<1> DEFINE n == d[1]
           k == Len(edges)
<1>1. RunStack(d, edges, uses, t)
  BY RunStackIs
<1>2. /\ given' = [given EXCEPT ![n] = v] /\ v # 0 /\ n \in Functions /\ n \in Nodes
      /\ given[n] = 0 /\ InOrder(n, edges) /\ graph' = graph
  BY DEF RunEffect, HeadFacts
<1>3. /\ Functions' = Functions /\ Sinks' = Sinks
      /\ \A m : Fn(m)' = Fn(m) /\ Uses(m)' = Uses(m) /\ Results(m)' = Results(m)
  BY <1>2, SameGraph
<1>4. \A m : m # n => given'[m] = given[m]
  BY <1>2 DEF Types
<1>5. given'[n] # 0
  BY <1>2 DEF Types
<1>6. /\ k \in {1, 2} /\ Len(t) = k + Len(stack) - 1 /\ Len(stack') = Len(t) /\ Len(t) \in Nat
      /\ DOMAIN t = 1..Len(t) /\ DOMAIN stack' = 1..Len(t) /\ Len(stack) \in Nat \ {0}
  BY <1>1 DEF RunStack
<1>7. ASSUME NEW j \in 1..k
      PROVE  /\ edges[j] \in LiveEdges(n) /\ t[j] = <<n, edges[j]>>
             /\ stack'[j] = <<Fn(n).inputs[edges[j]][1], Fn(n).inputs[edges[j]][2], Buffer(d, edges[j])>>
  BY <1>1, Zenon DEF RunStack
<1>8. ASSUME NEW j \in (k + 1)..Len(t), NEW i, i = j - k + 1
      PROVE  /\ i \in DOMAIN stack /\ i # 1 /\ stack'[j] = stack[i]
             /\ i \in DOMAIN uses /\ t[j] = uses[i] /\ t[j][1] # n
             /\ given[t[j][1]] # 0 /\ t[j][2] \in DOMAIN Fn(t[j][1]).inputs
             /\ Fn(t[j][1]).inputs[t[j][2]] = <<stack'[j][1], stack'[j][2]>>
  <2>1. /\ i \in DOMAIN stack /\ i # 1 /\ stack'[j] = stack[i]
        /\ i \in DOMAIN uses /\ t[j] = uses[i]
    BY <1>1, <1>8, Zenon DEF RunStack
  <2>2. LET m == uses[i][1]
            e == uses[i][2]
        IN  /\ given[m] # 0 /\ e \in DOMAIN Fn(m).inputs
            /\ Fn(m).inputs[e] = <<stack[i][1], stack[i][2]>>
    BY <2>1, Zenon DEF Lists
  <2> QED BY <1>2, <2>1, <2>2
<1>17. ASSUME NEW j \in (k + 1)..Len(t), NEW i, i = j - k + 1
       PROVE  i # 1 /\ i \in DOMAIN uses /\ t[j] = uses[i]
  BY <1>1, <1>17, Zenon DEF RunStack
<1>9. \A j \in 1..Len(t) : j \in 1..k \/ j \in (k + 1)..Len(t)
  BY <1>6
<1>10. ASSUME NEW j \in 1..Len(t)
       PROVE  /\ given'[t[j][1]] # 0 /\ t[j][2] \in DOMAIN Fn(t[j][1]).inputs
              /\ Fn(t[j][1]).inputs[t[j][2]] = <<stack'[j][1], stack'[j][2]>>
  <2>1. CASE j \in 1..k
    <3>1. PICK i : i = edges[j]
      OBVIOUS
    <3>2. t[j] = <<n, i>> /\ i \in DOMAIN Fn(n).inputs
      BY <1>7, <2>1, <3>1 DEF LiveEdges
    <3>3. t[j][1] = n /\ t[j][2] = i
      BY <3>2
    <3>4. stack'[j] = <<Fn(n).inputs[i][1], Fn(n).inputs[i][2], Buffer(d, i)>>
      BY <1>7, <2>1, <3>1
    <3>5. stack'[j][1] = Fn(n).inputs[i][1] /\ stack'[j][2] = Fn(n).inputs[i][2]
      BY <3>4
    <3>6. Fn(n).inputs[i] = <<Fn(n).inputs[i][1], Fn(n).inputs[i][2]>>
      <4>1. Fn(n).inputs[i] \in (Nodes \cup {NoGrad}) \X {1, 2}
        <5>1. Fn(n).inputs \in Seq((Nodes \cup {NoGrad}) \X {1, 2})
          BY <1>2, FunctionsAre
        <5> QED BY <3>2, <5>1
      <4> QED BY <4>1
    <3>7. Fn(n).inputs[i] = <<stack'[j][1], stack'[j][2]>>
      BY <3>5, <3>6, Zenon
    <3> QED BY <1>5, <3>2, <3>3, <3>7
  <2>2. CASE j \in (k + 1)..Len(t)
    <3>1. PICK i : i = j - k + 1
      OBVIOUS
    <3>2. /\ t[j][1] # n /\ given[t[j][1]] # 0 /\ t[j][2] \in DOMAIN Fn(t[j][1]).inputs
          /\ Fn(t[j][1]).inputs[t[j][2]] = <<stack'[j][1], stack'[j][2]>>
      BY <1>8, <2>2, <3>1
    <3>3. given'[t[j][1]] = given[t[j][1]]
      BY <1>4, <3>2
    <3> QED BY <3>2, <3>3
  <2> QED BY <1>9, <2>1, <2>2
<1>11. \A i, j \in DOMAIN t : t[i] = t[j] => i = j
  <2>1. ASSUME NEW i \in 1..Len(t), NEW j \in 1..Len(t), t[i] = t[j] PROVE i = j
    <3>1. CASE i \in 1..k /\ j \in 1..k
      <4>1. edges[i] = edges[j]
        BY <1>7, <2>1, <3>1
      <4>2. i \in DOMAIN edges /\ j \in DOMAIN edges
        BY <1>2, <3>1 DEF InOrder
      <4> QED BY <1>2, <4>1, <4>2 DEF InOrder
    <3>2. CASE i \in 1..k /\ j \in (k + 1)..Len(t)
      <4>1. t[i][1] = n
        BY <1>7, <3>2
      <4>2. t[j][1] # n
        BY <1>8, <3>2
      <4> QED BY <2>1, <4>1, <4>2
    <3>3. CASE j \in 1..k /\ i \in (k + 1)..Len(t)
      <4>1. t[j][1] = n
        BY <1>7, <3>3
      <4>2. t[i][1] # n
        BY <1>8, <3>3
      <4> QED BY <2>1, <4>1, <4>2
    <3>4. CASE i \in (k + 1)..Len(t) /\ j \in (k + 1)..Len(t)
      <4>1. PICK p, q : p = i - k + 1 /\ q = j - k + 1
        OBVIOUS
      <4>2. p \in DOMAIN uses /\ q \in DOMAIN uses /\ uses[p] = uses[q]
        <5> HIDE DEF k
        <5>1. p \in DOMAIN uses /\ t[i] = uses[p]
          BY <1>17, <3>4, <4>1
        <5>2. q \in DOMAIN uses /\ t[j] = uses[q]
          BY <1>17, <3>4, <4>1
        <5> QED BY <2>1, <5>1, <5>2
      <4>3. p = q
        BY <4>2 DEF Lists
      <4>4. i \in Int /\ j \in Int /\ k \in Int
        BY <1>6
      <4> HIDE DEF k
      <4> QED BY <4>1, <4>3, <4>4
    <3> QED BY <1>9, <3>1, <3>2, <3>3, <3>4
  <2> QED BY <1>6, <2>1
<1>12. ~Starting'
  <2>1. stack'[1][1] \notin Sinks
    <3>1. 1 \in 1..k
      BY <1>6
    <3>2. PICK i : i = edges[1]
      OBVIOUS
    <3>3. i \in LiveEdges(n) /\ stack'[1] = <<Fn(n).inputs[i][1], Fn(n).inputs[i][2], Buffer(d, i)>>
      BY <1>7, <3>1, <3>2
    <3>4. stack'[1][1] = Fn(n).inputs[i][1] /\ i \in DOMAIN Fn(n).inputs
      BY <3>3 DEF LiveEdges
    <3>5. n \in Consumers(stack'[1][1])
      BY <1>2, <3>4 DEF Consumers, Edges
    <3> QED BY <3>5 DEF Sinks
  <2> QED BY <1>3, <2>1 DEF Starting
<1>13. Lists(t)'
  <2>1. \A j \in DOMAIN t : (LET m == t[j][1]
                                i == t[j][2]
                            IN  /\ given[m] # 0 /\ i \in DOMAIN Fn(m).inputs
                                /\ Fn(m).inputs[i] = <<stack[j][1], stack[j][2]>>)'
    BY <1>3, <1>6, <1>10
  <2>2. t \in Seq(Functions' \X {1, 2}) /\ Len(t) = Len(stack')
    BY <1>1, <1>3 DEF RunStack
  <2> QED BY <1>11, <1>12, <2>1, <2>2 DEF Lists
<1>14. Listed(t) = {<<n, i>> : i \in LiveEdges(n)} \cup (Listed(uses) \ {uses[1]})
  <2> DEFINE A == {<<n, i>> : i \in LiveEdges(n)}
  <2>1. ASSUME NEW e \in Listed(t) PROVE e \in A \cup (Listed(uses) \ {uses[1]})
    <3>1. PICK j \in 1..Len(t) : e = t[j]
      BY <1>6 DEF Listed
    <3>2. CASE j \in 1..k
      BY <1>7, <3>1, <3>2
    <3>3. CASE j \in (k + 1)..Len(t)
      <4>1. PICK i : i = j - k + 1
        OBVIOUS
      <4>2. i # 1 /\ i \in DOMAIN uses /\ e = uses[i]
        <5> HIDE DEF k
        <5> QED BY <1>17, <3>1, <3>3, <4>1
      <4>3. 1 \in DOMAIN uses
        <5>1. DOMAIN uses = 1..Len(uses) /\ Len(uses) \in Nat
          BY DEF Lists
        <5> QED BY <4>2, <5>1
      <4>4. uses[i] # uses[1]
        BY <4>2, <4>3 DEF Lists
      <4> QED BY <4>2, <4>4 DEF Listed
    <3> QED BY <1>9, <3>2, <3>3
  <2>2. ASSUME NEW i \in LiveEdges(n) PROVE <<n, i>> \in Listed(t)
    <3>1. PICK j \in DOMAIN edges : i = edges[j]
      BY <1>2 DEF InOrder
    <3>2. j \in 1..k
      BY <1>2, <3>1 DEF InOrder
    <3>3. j \in DOMAIN t /\ t[j] = <<n, i>>
      BY <1>6, <1>7, <3>1, <3>2
    <3> QED BY <3>3 DEF Listed
  <2>3. ASSUME NEW e \in Listed(uses), e # uses[1] PROVE e \in Listed(t)
    <3>1. PICK i \in DOMAIN uses : e = uses[i]
      BY DEF Listed
    <3>2. i # 1 /\ i \in 1..Len(uses) /\ Len(uses) = Len(stack)
      <4>1. DOMAIN uses = 1..Len(uses) /\ Len(uses) = IF Starting THEN 0 ELSE Len(stack)
        BY DEF Lists
      <4> QED BY <2>3, <3>1, <4>1
    <3>3. PICK j : j = k + i - 1
      OBVIOUS
    <3>4. j \in (k + 1)..Len(t) /\ j - k + 1 = i
      <4> HIDE DEF k
      <4> QED BY <1>6, <3>2, <3>3
    <3>5. t[j] = uses[i] /\ j \in DOMAIN t
      <4>1. j \in DOMAIN t
        <5> HIDE DEF k
        <5> QED BY <1>6, <3>4
      <4> HIDE DEF k
      <4> QED BY <1>17, <3>4, <4>1
    <3> QED BY <3>1, <3>5 DEF Listed
  <2> QED BY <2>1, <2>2, <2>3
<1> QED BY <1>12, <1>13, <1>14

LEMMA SeqMonotone ==
    ASSUME NEW A, NEW B, A \subseteq B
    PROVE  Seq(A) \subseteq Seq(B)
OBVIOUS

LEMMA RunCounts ==
    ASSUME IInv, stack # <<>>, NEW d, d = Head(stack), NEW v, NEW edges, RunEffect(d, v, edges),
           NEW uses, Lists(uses), Counts(uses), NEW t, t = RunUses(d[1], edges, uses)
    PROVE  /\ Types' /\ GraphInv' /\ StartInv' /\ Lists(t)' /\ Counts(t)' /\ ~Starting'
           /\ \A m \in Leaves \cup Functions : m # d[1] => Arrived(t, m)' = Arrived(uses, m)
<1> DEFINE n == d[1]
           u == uses[1]
<1>1. Types /\ GraphInv /\ StartInv /\ HeadFacts(d, uses)
  BY HeadIs DEF IInv
<1>2. /\ Lists(t)' /\ ~Starting'
      /\ Listed(t) = {<<n, i>> : i \in LiveEdges(n)} \cup (Listed(uses) \ {u})
  BY <1>1, RunLists
<1>3. RunStack(d, edges, uses, t)
  BY <1>1, RunStackIs
<1>4. /\ Fires(d) /\ n \notin Leaves
      /\ given'   = [given EXCEPT ![n] = v]
      /\ reached' = [reached EXCEPT ![n] = 0]
      /\ slots'   = [slots EXCEPT ![n] = [o \in 1..Results(n) |-> Null]]
      /\ UNCHANGED <<graph, deps, grad>>
      /\ v \in Nat \ {0}
  BY DEF RunEffect
<1>5. /\ Functions' = Functions /\ GraphInv'
      /\ \A m : Fn(m)' = Fn(m) /\ Uses(m)' = Uses(m) /\ Results(m)' = Results(m)
  BY <1>1, <1>4, SameGraph
<1>6. /\ n \in Functions /\ n \in Nodes /\ given[n] = 0 /\ Results(n) \in {1, 2}
  BY <1>1, <1>4 DEF HeadFacts
<1>7. Outstanding(uses, n) \ {u} = {}
  BY <1>1, <1>4, LastFires
<1>8. /\ heap' \in Seq(Nat \ {0}) /\ Len(heap') >= Len(heap) /\ Len(heap') \in Nat
      /\ Len(heap) \in Nat /\ stack' \in Seq(Nodes \X {1, 2} \X (1..Len(heap')))
  BY <1>3, Zenon DEF RunStack
<1>9. 0..Len(heap) \subseteq 0..Len(heap')
  BY <1>8
<1>10. /\ slots'[n] = [o \in 1..Results(n) |-> Null] /\ \A m \in Nodes \ {n} : slots'[m] = slots[m]
       /\ reached'[n] = 0 /\ \A m \in Nodes \ {n} : reached'[m] = reached[m]
       /\ given'[n] = v /\ \A m : m # n => given'[m] = given[m]
       /\ reached' \in [Nodes -> Nat] /\ given' \in [Nodes -> Nat]
       /\ slots' \in [Nodes -> Seq(0..Len(heap'))]
       /\ Len(slots'[n]) = Results(n) /\ DOMAIN slots'[n] = 1..Results(n)
  <2> DEFINE B == 0..Len(heap')
             s == [o \in 1..Results(n) |-> Null]
  <2>1. /\ slots \in [Nodes -> Seq(0..Len(heap))] /\ reached \in [Nodes -> Nat]
        /\ given \in [Nodes -> Nat]
    BY <1>1, Zenon DEF Types
  <2>2. s \in [1..Results(n) -> B] /\ Results(n) \in Nat
    BY <1>6, <1>8 DEF Null
  <2>3. s \in Seq(B) /\ Len(s) = Results(n) /\ DOMAIN s = 1..Results(n)
    <3> HIDE DEF s, B
    <3> QED BY <2>2, FunctionSeq, Zenon
  <2>4. slots \in [Nodes -> Seq(B)]
    <3>1. Seq(0..Len(heap)) \subseteq Seq(B)
      BY <1>9, SeqMonotone, Zenon
    <3> HIDE DEF B
    <3> QED BY <2>1, <3>1
  <2>5. slots' = [slots EXCEPT ![n] = s]
    BY <1>4
  <2> HIDE DEF B, s
  <2>6. slots' \in [Nodes -> Seq(B)] /\ slots'[n] = s /\ \A m \in Nodes \ {n} : slots'[m] = slots[m]
    BY <1>6, <2>3, <2>4, <2>5
  <2>7. /\ reached'[n] = 0 /\ \A m \in Nodes \ {n} : reached'[m] = reached[m]
        /\ given'[n] = v /\ \A m : m # n => given'[m] = given[m]
        /\ reached' \in [Nodes -> Nat] /\ given' \in [Nodes -> Nat]
    BY <1>4, <1>6, <2>1
  <2> QED BY <2>3, <2>6, <2>7 DEF B, s
<1>11. Types'
  <2>1. grad' \in [Leaves -> 0..Len(heap')]
    <3>1. grad \in [Leaves -> 0..Len(heap)]
      BY <1>1, Zenon DEF Types
    <3> QED BY <1>4, <1>9, <3>1
  <2>2. \A m \in Leaves \cup Functions : Len(slots'[m]) = Results(m)
    BY <1>1, <1>10, FunctionsAre DEF Types
  <2>3. \A m \in Nodes \ (Leaves \cup Functions) : slots'[m] = <<>> /\ deps'[m] = 0 /\ reached'[m] = 0
    <3>1. ASSUME NEW m \in Nodes \ (Leaves \cup Functions)
          PROVE  slots'[m] = <<>> /\ deps'[m] = 0 /\ reached'[m] = 0
      <4>1. m \in Nodes \ {n}
        BY <1>6
      <4>2. slots[m] = <<>> /\ deps[m] = 0 /\ reached[m] = 0
        BY <1>1 DEF Types
      <4>3. slots'[m] = slots[m] /\ reached'[m] = reached[m] /\ deps' = deps
        BY <1>4, <1>10, <4>1
      <4> QED BY <4>2, <4>3
    <3> QED BY <3>1
  <2>4. \A m \in Nodes \ Functions : given'[m] = 0
    <3>1. \A m \in Nodes \ Functions : given[m] = 0 /\ m # n
      BY <1>1, <1>6 DEF Types
    <3> QED BY <1>10, <3>1
  <2>5. /\ graph' = graph /\ deps' = deps
        /\ graph \in Seq([kind : Kinds, inputs : Seq((Nodes \cup {NoGrad}) \X {1, 2})])
        /\ Len(graph) <= MaxFunctions /\ deps \in [Nodes -> Nat]
    BY <1>1, <1>4 DEF Types
  <2> QED BY <1>5, <1>8, <1>10, <2>1, <2>2, <2>3, <2>4, <2>5 DEF Types
<1>12. StartInv'
  BY <1>2 DEF StartInv
<1>13. NoneHeld(n)'
  BY <1>10 DEF NoneHeld
<1>14. ASSUME NEW m \in Leaves \cup Functions, m # n
       PROVE  /\ Outstanding(t, m)' = Outstanding(uses, m) /\ slots'[m] = slots[m]
              /\ (AllHeld(m)' <=> AllHeld(m)) /\ (NoneHeld(m)' <=> NoneHeld(m))
              /\ reached'[m] = reached[m] /\ Arrived(t, m)' = Arrived(uses, m)
              /\ given'[m] = given[m] /\ m \in Nodes
  <2>1. m \in Nodes \ {n} /\ m # NoGrad
    BY <1>1, <1>14, FunctionsAre
  <2>2. u \in Uses(m) => u \notin Listed(uses)
    <3>1. ASSUME u \in Uses(m), u \in Listed(uses) PROVE FALSE
      <4>1. CASE Starting
        <5>1. uses = <<>>
          BY <1>1, <4>1 DEF HeadFacts
        <5> QED BY <3>1, <5>1 DEF Listed
      <4>2. CASE ~Starting
        <5>1. u \in Uses(n)
          BY <1>1, <4>2 DEF HeadFacts, Outstanding
        <5> QED BY <1>1, <1>14, <3>1, <5>1, UsesAre
      <4> QED BY <4>1, <4>2
    <3> QED BY <3>1
  <2>3. ASSUME NEW e \in Uses(m)
        PROVE  (given'[e[1]] = 0 \/ e \in Listed(t)) <=> (given[e[1]] = 0 \/ e \in Listed(uses))
    <3>1. /\ e \in Functions \X {1, 2} /\ e = <<e[1], e[2]>>
          /\ e[2] \in DOMAIN Fn(e[1]).inputs /\ Fn(e[1]).inputs[e[2]][1] = m
      BY <1>1, UsesAre
    <3>2. CASE e[1] = n
      <4>1. e[2] \in LiveEdges(n)
        BY <2>1, <3>1, <3>2 DEF LiveEdges
      <4>2. e \in Listed(t)
        BY <1>2, <3>1, <3>2, <4>1
      <4> QED BY <1>6, <3>2, <4>2
    <3>3. CASE e[1] # n
      <4>1. given'[e[1]] = given[e[1]]
        BY <1>10, <3>3
      <4>2. e \in Listed(t) <=> e \in Listed(uses)
        BY <1>2, <2>2, <3>3
      <4> QED BY <4>1, <4>2
    <3> QED BY <3>2, <3>3
  <2>4. Outstanding(t, m)' = {e \in Uses(m) : given'[e[1]] = 0 \/ e \in Listed(t)}
    BY <1>5 DEF Outstanding, Listed
  <2>5. Outstanding(t, m)' = Outstanding(uses, m)
    BY <2>3, <2>4 DEF Outstanding
  <2>6. Arrived(t, m)' = Uses(m)' \ Outstanding(t, m)'
    BY DEF Arrived
  <2>7. Arrived(t, m)' = Arrived(uses, m)
    BY <1>5, <2>5, <2>6 DEF Arrived
  <2>8. slots'[m] = slots[m] /\ reached'[m] = reached[m] /\ given'[m] = given[m]
    BY <1>10, <1>14, <2>1
  <2> QED BY <2>1, <2>5, <2>7, <2>8 DEF AllHeld, NoneHeld
<1>15. Outstanding(t, n)' = {}
  <2>1. ASSUME NEW e \in Outstanding(t, n)' PROVE FALSE
    <3>1. e \in Uses(n) /\ (given'[e[1]] = 0 \/ e \in Listed(t))
      BY <1>5, <2>1 DEF Outstanding, Listed
    <3>2. n < e[1] /\ n \in Nat /\ e[1] \in Nat
      <4>1. n < e[1] /\ e[1] \in Functions
        BY <1>1, <3>1, UsesAre
      <4> QED BY <1>1, <1>6, <4>1, FunctionsAre
    <3>3. e[1] # n /\ given'[e[1]] = given[e[1]]
      <4>1. e[1] # n
        BY <3>2
      <4> QED BY <1>10, <4>1
    <3>4. given[e[1]] = 0 \/ (e \in Listed(uses) /\ e # u)
      BY <1>2, <3>1, <3>3
    <3>5. e \in Outstanding(uses, n)
      BY <3>1, <3>4 DEF Outstanding
    <3>6. e = u
      BY <1>7, <3>5
    <3>7. given[e[1]] # 0
      <4>1. CASE Starting
        <5>1. Uses(n) = {}
          BY <1>1, <4>1 DEF HeadFacts
        <5> QED BY <3>1, <5>1
      <4>2. CASE ~Starting
        BY <1>1, <3>6, <4>2 DEF HeadFacts
      <4> QED BY <4>1, <4>2
    <3> QED BY <3>4, <3>6, <3>7
  <2> QED BY <2>1
<1>16. Counts(t)'
  <2>1. ASSUME NEW m \in Leaves \cup Functions
        PROVE  IF given'[m] = 0
               THEN /\ deps'[m] = reached'[m] + Cardinality(Outstanding(t, m)')
                    /\ AllHeld(m)' => reached'[m] < deps'[m]
                    /\ reached'[m] = 0 => NoneHeld(m)'
                    /\ Uses(m)' = {} => deps'[m] = 0
               ELSE Outstanding(t, m)' = {} /\ reached'[m] = 0 /\ NoneHeld(m)'
    <3>1. CASE m = n
      BY <1>4, <1>10, <1>13, <1>15, <3>1
    <3>2. CASE m # n
      <4>1. /\ Outstanding(t, m)' = Outstanding(uses, m)
            /\ (AllHeld(m)' <=> AllHeld(m)) /\ (NoneHeld(m)' <=> NoneHeld(m))
            /\ reached'[m] = reached[m] /\ given'[m] = given[m]
        BY <1>14, <3>2
      <4>2. deps' = deps /\ Uses(m)' = Uses(m)
        BY <1>4, <1>5
      <4> QED BY <4>1, <4>2 DEF Counts
    <3> QED BY <3>1, <3>2
  <2>2. ASSUME NEW l \in Leaves PROVE reached'[l] > 0 => AllHeld(l)'
    <3>1. l # n
      BY <1>4
    <3> QED BY <1>14, <3>1 DEF Counts
  <2>3. ASSUME NEW m \in Functions, given'[m] = 0, NEW e \in Arrived(t, m)'
        PROVE  slots'[m][Fn(e[1]).inputs[e[2]][2]] # Null
    <3>1. m # n
      BY <1>4, <1>10, <2>3
    <3>2. Arrived(t, m)' = Arrived(uses, m) /\ slots'[m] = slots[m] /\ given[m] = 0
      BY <1>14, <2>3, <3>1
    <3> QED BY <2>3, <3>2 DEF Counts
  <2> QED BY <1>5, <2>1, <2>2, <2>3 DEF Counts
<1> QED BY <1>2, <1>5, <1>11, <1>12, <1>14, <1>16

LEMMA WaitsInv ==
    ASSUME IInv, stack # <<>>, Waits(Head(stack))
    PROVE  IInv'
<1>1. PICK uses : Lists(uses) /\ Counts(uses)
  BY DEF IInv
<1>2. PICK d, t : d = Head(stack) /\ t = Rest(uses)
  OBVIOUS
<1>3. Types' /\ GraphInv' /\ StartInv' /\ Lists(t)' /\ Counts(t)'
  BY <1>1, <1>2, WaitsCounts
<1> QED BY <1>3 DEF IInv

LEMMA RunFunctionInv ==
    ASSUME IInv, stack # <<>>, RunFunction(Head(stack))
    PROVE  IInv'
<1>1. PICK uses : Lists(uses) /\ Counts(uses)
  BY DEF IInv
<1>2. PICK d : d = Head(stack)
  OBVIOUS
<1>3. Types /\ GraphInv /\ StartInv /\ HeadFacts(d, uses)
  BY <1>1, <1>2, HeadIs DEF IInv
<1>4. PICK v, edges : RunEffect(d, v, edges)
  BY <1>1, <1>2, <1>3, RunIs
<1>5. PICK t : t = RunUses(d[1], edges, uses)
  OBVIOUS
<1>6. Types' /\ GraphInv' /\ StartInv' /\ Lists(t)' /\ Counts(t)'
  BY <1>1, <1>2, <1>4, <1>5, RunCounts
<1> QED BY <1>6 DEF IInv

LEMMA RunAccumulateInv ==
    ASSUME IInv, stack # <<>>, RunAccumulate(Head(stack))
    PROVE  IInv'
<1>1. PICK uses : Lists(uses) /\ Counts(uses)
  BY DEF IInv
<1>2. PICK d, t : d = Head(stack) /\ t = Rest(uses)
  OBVIOUS
<1>3. Types' /\ GraphInv' /\ StartInv' /\ Lists(t)' /\ Counts(t)'
  BY <1>1, <1>2, AccumulateCounts
<1> QED BY <1>3 DEF IInv

LEMMA SameInv ==
    ASSUME IInv, UNCHANGED vars
    PROVE  IInv'
<1>1. UNCHANGED <<graph, deps, reached, slots, given, heap, grad, stack>>
  BY DEF vars
<1>2. /\ Functions' = Functions /\ Sinks' = Sinks /\ GraphInv'
      /\ \A m : Fn(m)' = Fn(m) /\ Uses(m)' = Uses(m) /\ Results(m)' = Results(m)
  BY <1>1, SameGraph DEF IInv
<1>3. Types'
  BY <1>1, <1>2 DEF IInv, Types
<1>4. (Starting' <=> Starting) /\ StartInv'
  BY <1>1, <1>2 DEF IInv, Starting, StartInv
<1>5. PICK uses : Lists(uses) /\ Counts(uses)
  BY DEF IInv
<1>6. Lists(uses)'
  BY <1>1, <1>2, <1>4, <1>5 DEF Lists
<1>7. \A m : /\ Outstanding(uses, m)' = Outstanding(uses, m)
             /\ Arrived(uses, m)' = Arrived(uses, m)
             /\ (AllHeld(m)' <=> AllHeld(m)) /\ (NoneHeld(m)' <=> NoneHeld(m))
  BY <1>1, <1>2 DEF Outstanding, Arrived, Listed, AllHeld, NoneHeld
<1>8. Counts(uses)'
  BY <1>1, <1>2, <1>5, <1>7 DEF Counts
<1> QED BY <1>2, <1>3, <1>4, <1>6, <1>8 DEF IInv

LEMMA NextInv == IInv /\ [Next]_vars => IInv'
<1> SUFFICES ASSUME IInv, [Next]_vars PROVE IInv'
  OBVIOUS
<1>1. ASSUME NEW kind \in Kinds, NEW inputs \in InputsOf(kind), Apply(kind, inputs) PROVE IInv'
  BY <1>1, ApplyInv
<1>2. ASSUME NEW n \in Sinks, Backward(n) PROVE IInv'
  BY <1>2, BackwardInv
<1>3. ASSUME stack # <<>>, Waits(Head(stack)) PROVE IInv'
  BY <1>3, WaitsInv
<1>4. ASSUME stack # <<>>, RunFunction(Head(stack)) PROVE IInv'
  BY <1>4, RunFunctionInv
<1>5. ASSUME stack # <<>>, RunAccumulate(Head(stack)) PROVE IInv'
  BY <1>5, RunAccumulateInv
<1>6. ASSUME UNCHANGED vars PROVE IInv'
  BY <1>6, SameInv
<1> QED BY <1>1, <1>2, <1>3, <1>4, <1>5, <1>6 DEF Next

(* The types, and the counts BackwardPartial compares: a node is reached   *)
(* no more often than IncreaseDependenciesNumber counted, and a leaf that  *)
(* waits less often.                                                       *)
THEOREM TypeCorrect == Spec => []TypeOK
<1>1. Spec => []IInv
  BY InitInv, NextInv, PTL DEF Spec
<1>2. IInv => TypeOK
  <2> SUFFICES ASSUME IInv PROVE TypeOK
    OBVIOUS
  <2>1. PICK uses : Lists(uses) /\ Counts(uses)
    BY DEF IInv
  <2>2. Types /\ GraphInv
    BY DEF IInv
  <2>3. \A n \in Nodes : reached[n] <= deps[n]
    <3>1. ASSUME NEW n \in Nodes PROVE reached[n] <= deps[n]
      <4>1. deps[n] \in Nat /\ reached[n] \in Nat
        BY <2>2 DEF Types
      <4>2. CASE n \notin Leaves \cup Functions
        BY <2>2, <4>1, <4>2 DEF Types
      <4>3. CASE n \in Leaves \cup Functions /\ given[n] = 0
        <5>1. deps[n] = reached[n] + Cardinality(Outstanding(uses, n))
          BY <2>1, <4>3 DEF Counts
        <5>2. Cardinality(Outstanding(uses, n)) \in Nat
          BY <2>2, FiniteUses
        <5> QED BY <4>1, <5>1, <5>2
      <4>4. CASE n \in Leaves \cup Functions /\ given[n] # 0
        <5>1. reached[n] = 0
          BY <2>1, <4>4 DEF Counts
        <5> QED BY <4>1, <5>1
      <4> QED BY <4>2, <4>3, <4>4
    <3> QED BY <3>1
  <2>4. ASSUME NEW l \in Leaves, reached[l] > 0 PROVE reached[l] < deps[l]
    <3>1. given[l] = 0
      BY <2>2, FunctionsAre DEF Types
    <3>2. AllHeld(l)
      BY <2>1, <2>4 DEF Counts
    <3> QED BY <2>1, <3>1, <3>2 DEF Counts
  <2>5. /\ slots \in [Nodes -> Seq(Nat)] /\ heap \in Seq(Nat)
    <3>1. Len(heap) \in Nat /\ 0..Len(heap) \subseteq Nat
      BY <2>2 DEF Types
    <3>2. Seq(0..Len(heap)) \subseteq Seq(Nat) /\ Seq(Nat \ {0}) \subseteq Seq(Nat)
      BY <3>1, SeqMonotone
    <3> QED BY <2>2, <3>2 DEF Types
  <2> QED BY <2>2, <2>3, <2>4, <2>5 DEF Types, TypeOK
<1> QED BY <1>1, <1>2, PTL

(* Apply and BackwardPartial: once Backward has been called on every       *)
(* result, every function has run and no node holds gradients or counts.   *)
THEOREM Drains == Spec => []EngineDrains
<1>1. Spec => []IInv
  BY InitInv, NextInv, PTL DEF Spec
<1>2. IInv => EngineDrains
  <2> SUFFICES ASSUME IInv, stack = <<>>, AllOutputsUsed, \A n \in Sinks : given[n] # 0
               PROVE  /\ \A n \in Functions : given[n] # 0
                      /\ \A l \in Leaves : deps[l] = 0
                      /\ \A n \in Nodes : reached[n] = 0 /\ \A o \in DOMAIN slots[n] : slots[n][o] = Null
    BY DEF EngineDrains
  <2>1. PICK uses : Lists(uses) /\ Counts(uses)
    BY DEF IInv
  <2>2. Types /\ GraphInv
    BY DEF IInv
  <2>3. Listed(uses) = {}
    <3>1. uses \in Seq(Functions \X {1, 2}) /\ Len(uses) = 0
      BY <2>1 DEF Lists, Starting
    <3>2. DOMAIN uses = {}
      BY <3>1
    <3> QED BY <3>2 DEF Listed
  <2>4. ASSUME NEW n, \A e \in Uses(n) : given[e[1]] # 0
        PROVE  Outstanding(uses, n) = {} /\ Arrived(uses, n) = Uses(n)
    BY <2>3, <2>4 DEF Outstanding, Arrived
  <2>5. ASSUME NEW n \in Leaves \cup Functions, given[n] = 0, \A e \in Uses(n) : given[e[1]] # 0
        PROVE  deps[n] = reached[n] /\ ~AllHeld(n) /\ reached[n] \in Nat
    <3>1. Cardinality(Outstanding(uses, n)) = 0
      BY <2>4, <2>5, FS_EmptySet
    <3>2. deps[n] \in Nat /\ reached[n] \in Nat
      BY <2>2, FunctionsAre DEF Types
    <3>3. deps[n] = reached[n] + Cardinality(Outstanding(uses, n))
          /\ (AllHeld(n) => reached[n] < deps[n])
      BY <2>1, <2>5 DEF Counts
    <3> QED BY <3>1, <3>2, <3>3
  <2>6. \A n \in Functions : given[n] # 0
    <3> DEFINE N == NumLeaves + Len(graph)
               U == {n \in Functions : given[n] = 0}
    <3>1. SUFFICES ASSUME U # {} PROVE FALSE
      OBVIOUS
    <3>2. N \in Nat /\ U \in SUBSET (0..N)
      BY <2>2, FunctionsAre
    <3>3. PICK n \in U : \A m \in U : m <= n
      <4> HIDE DEF U, N
      <4> QED BY <3>1, <3>2, Greatest
    <3>4. ASSUME NEW e \in Uses(n) PROVE given[e[1]] # 0
      <4>1. e[1] \in Functions /\ n < e[1]
        BY <2>2, UsesAre
      <4>2. ~(e[1] <= n)
        BY <2>2, <4>1, FunctionsAre
      <4> QED BY <3>3, <4>1, <4>2
    <3>5. ~AllHeld(n)
      BY <2>5, <3>4
    <3>6. AllHeld(n)
      <4>1. DOMAIN slots[n] = 1..Outputs(Fn(n).kind)
        <5>1. slots[n] \in Seq(0..Len(heap)) /\ Len(slots[n]) = Results(n)
          BY <2>2, FunctionsAre DEF Types
        <5> QED BY <5>1 DEF Results
      <4>2. ASSUME NEW o \in 1..Outputs(Fn(n).kind) PROVE slots[n][o] # Null
        <5>1. n \in Functions \ Sinks
          OBVIOUS
        <5>2. PICK m, i : /\ m \in Functions /\ i \in DOMAIN Fn(m).inputs
                          /\ Fn(m).inputs[i] = <<n, o>>
          BY <4>2, <5>1 DEF AllOutputsUsed
        <5>3. i \in {1, 2} /\ Fn(m).inputs[i][1] = n /\ Fn(m).inputs[i][2] = o
          BY <2>2, <5>2, UsesAre
        <5>4. <<m, i>> \in Uses(n)
          BY <5>2, <5>3 DEF Uses, Edges
        <5>5. <<m, i>> \in Arrived(uses, n)
          BY <2>4, <3>4, <5>4
        <5>6. \A e \in Arrived(uses, n) : slots[n][Fn(e[1]).inputs[e[2]][2]] # Null
          BY <2>1 DEF Counts
        <5> QED BY <5>3, <5>5, <5>6
      <4> QED BY <4>1, <4>2 DEF AllHeld
    <3> QED BY <3>5, <3>6
  <2>7. \A n : \A e \in Uses(n) : given[e[1]] # 0
    BY <2>6 DEF Uses
  <2>8. \A n \in Functions : reached[n] = 0 /\ NoneHeld(n)
    BY <2>1, <2>6 DEF Counts
  <2>9. ASSUME NEW l \in Leaves PROVE deps[l] = 0 /\ reached[l] = 0 /\ NoneHeld(l)
    <3>1. given[l] = 0
      BY <2>2, FunctionsAre DEF Types
    <3>2. deps[l] = reached[l] /\ ~AllHeld(l) /\ reached[l] \in Nat
      BY <2>5, <2>7, <3>1
    <3>3. reached[l] = 0
      BY <2>1, <3>2 DEF Counts
    <3> QED BY <2>1, <3>1, <3>2, <3>3 DEF Counts
  <2>10. \A n \in Nodes \ (Leaves \cup Functions) : reached[n] = 0 /\ slots[n] = <<>>
    BY <2>2 DEF Types
  <2>11. ASSUME NEW n \in Nodes
         PROVE  reached[n] = 0 /\ \A o \in DOMAIN slots[n] : slots[n][o] = Null
    BY <2>8, <2>9, <2>10 DEF NoneHeld
  <2> QED BY <2>6, <2>9, <2>11
<1> QED BY <1>1, <1>2, PTL

LEMMA NextLeavesFirst ==
    IInv /\ LeafGradientsFirst /\ [Next]_vars => LeafGradientsFirst'
<1> SUFFICES ASSUME IInv, LeafGradientsFirst, [Next]_vars PROVE LeafGradientsFirst'
  OBVIOUS
<1>1. CASE stack' = stack
  BY <1>1 DEF LeafGradientsFirst
<1>2. ASSUME NEW n \in Sinks, Backward(n) PROVE LeafGradientsFirst'
  <2>1. stack' = <<<<n, 1, Len(heap) + 1>>>>
    BY <1>2 DEF Backward
  <2>2. \A i \in DOMAIN stack' : i = 1
    BY <2>1
  <2> QED BY <2>2 DEF LeafGradientsFirst
<1>3. ASSUME stack # <<>>, stack' = Tail(stack) PROVE LeafGradientsFirst'
  <2>1. PICK uses : Lists(uses)
    BY DEF IInv
  <2>2. RestFacts(uses, stack', Rest(uses))
    BY <1>3, <2>1, RestIs DEF IInv
  <2>3. PICK k : k = Len(stack) - 1
    OBVIOUS
  <2>4. /\ k \in Nat /\ DOMAIN stack' = 1..k
        /\ \A j \in 1..k : j + 1 \in DOMAIN stack /\ stack'[j] = stack[j + 1]
    BY <2>2, <2>3, Zenon DEF RestFacts
  <2>5. ASSUME NEW i \in 1..k, NEW j \in 1..k, i < j, stack'[j][1] \in Leaves
        PROVE  stack'[i][1] \in Leaves
    <3>1. /\ i + 1 \in DOMAIN stack /\ stack'[i] = stack[i + 1]
          /\ j + 1 \in DOMAIN stack /\ stack'[j] = stack[j + 1]
      BY <2>4
    <3>2. i + 1 < j + 1
      BY <2>4, <2>5
    <3> QED BY <2>5, <3>1, <3>2 DEF LeafGradientsFirst
  <2> QED BY <2>4, <2>5 DEF LeafGradientsFirst
<1>4. ASSUME stack # <<>>, RunFunction(Head(stack)) PROVE LeafGradientsFirst'
  <2>1. PICK uses : Lists(uses) /\ Counts(uses)
    BY DEF IInv
  <2>2. PICK d : d = Head(stack)
    OBVIOUS
  <2>3. Types /\ GraphInv /\ StartInv /\ HeadFacts(d, uses)
    BY <1>4, <2>1, <2>2, HeadIs DEF IInv
  <2>4. PICK v, edges : RunEffect(d, v, edges)
    BY <1>4, <2>1, <2>2, <2>3, RunIs
  <2>5. PICK t : t = RunUses(d[1], edges, uses)
    OBVIOUS
  <2>6. RunStack(d, edges, uses, t)
    BY <1>4, <2>1, <2>2, <2>3, <2>4, <2>5, RunStackIs
  <2>7. /\ d[1] \notin Leaves /\ InOrder(d[1], edges) /\ d = stack[1]
        /\ DOMAIN stack = 1..Len(stack) /\ Len(stack) \in Nat \ {0}
    <3>1. DOMAIN stack = 1..Len(stack)
      BY <2>3 DEF Types
    <3> QED BY <2>3, <2>4, <3>1, Zenon DEF RunEffect, HeadFacts
  <2>8. ASSUME NEW i \in DOMAIN stack PROVE stack[i][1] \notin Leaves
    <3>1. i = 1 \/ 1 < i
      BY <2>7
    <3>2. 1 \in DOMAIN stack
      BY <2>7
    <3> QED BY <2>7, <3>1, <3>2 DEF LeafGradientsFirst
  <2>9. PICK k, ins : k = Len(edges) /\ ins = Fn(d[1]).inputs
    OBVIOUS
  <2>10. /\ k \in {1, 2} /\ Len(t) \in Nat /\ DOMAIN stack' = 1..Len(t)
         /\ \A j \in 1..k : stack'[j] = <<ins[edges[j]][1], ins[edges[j]][2], Buffer(d, edges[j])>>
         /\ \A j \in (k + 1)..Len(t) : j - k + 1 \in DOMAIN stack /\ stack'[j] = stack[j - k + 1]
    BY <2>6, <2>9, Zenon DEF RunStack
  <2>11. ASSUME NEW i \in 1..Len(t), NEW j \in 1..Len(t), i < j, stack'[j][1] \in Leaves
         PROVE  stack'[i][1] \in Leaves
    <3>1. CASE j \in (k + 1)..Len(t)
      <4>1. j - k + 1 \in DOMAIN stack /\ stack'[j] = stack[j - k + 1]
        BY <2>10, <3>1
      <4>2. stack'[j][1] \notin Leaves
        BY <2>8, <4>1
      <4> QED BY <2>11, <4>2
    <3>2. CASE j \in 1..k
      <4>1. i \in 1..k
        BY <2>10, <2>11, <3>2
      <4>2. i \in DOMAIN edges /\ j \in DOMAIN edges
        <5>1. DOMAIN edges = 1..k
          BY <2>7, <2>9 DEF InOrder
        <5> QED BY <3>2, <4>1, <5>1
      <4>3. ServedBefore(d[1], edges[i], edges[j])
        BY <2>7, <2>11, <4>2 DEF InOrder
      <4>4. stack'[i][1] = ins[edges[i]][1] /\ stack'[j][1] = ins[edges[j]][1]
        BY <2>10, <3>2, <4>1
      <4> QED BY <2>9, <2>11, <4>3, <4>4 DEF ServedBefore
    <3>3. j \in 1..k \/ j \in (k + 1)..Len(t)
      BY <2>10
    <3> QED BY <3>1, <3>2, <3>3
  <2> QED BY <2>10, <2>11 DEF LeafGradientsFirst
<1> QED BY <1>1, <1>2, <1>3, <1>4 DEF Next, vars, Apply, Waits, RunAccumulate

(* BackwardPartial flushes AccumulateGrad edges before it recurses: no     *)
(* gradient of a leaf waits below a delivery to a function.                *)
THEOREM LeavesServedFirst == Spec => []LeafGradientsFirst
<1>1. Spec => []IInv
  BY InitInv, NextInv, PTL DEF Spec
<1>2. Init => LeafGradientsFirst
  BY DEF Init, LeafGradientsFirst
<1> QED BY <1>1, <1>2, NextLeavesFirst, PTL DEF Spec

-----------------------------------------------------------------------------
(* The values of gradients, where additions are residual.                  *)

(* The sum over the uses in S of the gradients of the functions they are   *)
(* inputs of.                                                              *)
SumOver(w, S) == Total([e \in S |-> w[e[1]]], S)

LEMMA SumIs ==
    ASSUME NEW w, NEW S, IsFiniteSet(S), \A e \in S : w[e[1]] \in Nat
    PROVE  /\ SumOver(w, S) \in Nat
           /\ S = {} => SumOver(w, S) = 0
           /\ \A x \in S : SumOver(w, S) = w[x[1]] + SumOver(w, S \ {x})
<1> DEFINE f == [e \in S |-> w[e[1]]]
<1>1. \A e \in S : f[e] \in Nat /\ f[e] = w[e[1]]
  OBVIOUS
<1>2. SumOver(w, S) = Total(f, S)
  BY DEF SumOver
<1>3. ASSUME NEW x \in S PROVE SumOver(w, S \ {x}) = Total(f, S \ {x})
  <2> DEFINE T == S \ {x}
             g == [e \in T |-> w[e[1]]]
  <2>1. \A e \in T : f[e] = g[e]
    OBVIOUS
  <2> HIDE DEF f, g, T
  <2>2. Weighed(f, T) = Weighed(g, T)
    BY <2>1 DEF Weighed
  <2> QED BY <2>2 DEF SumOver, Total, g, T
<1> HIDE DEF f
<1>4. /\ Total(f, S) \in Nat
      /\ S = {} => Total(f, S) = 0
      /\ \A x \in S : Total(f, S) = f[x] + Total(f, S \ {x})
  BY <1>1, TotalIs
<1> QED BY <1>1, <1>2, <1>3, <1>4

LEMMA SumSame ==
    ASSUME NEW w, NEW v, NEW S, \A e \in S : w[e[1]] = v[e[1]]
    PROVE  SumOver(w, S) = SumOver(v, S)
<1>1. [e \in S |-> w[e[1]]] = [e \in S |-> v[e[1]]]
  OBVIOUS
<1> QED BY <1>1 DEF SumOver

(* One use more.                                                           *)
LEMMA SumAdds ==
    ASSUME NEW w, NEW S, IsFiniteSet(S), NEW x, x \notin S,
           \A e \in S \cup {x} : w[e[1]] \in Nat
    PROVE  SumOver(w, S \cup {x}) = SumOver(w, S) + w[x[1]]
<1>1. PICK T : T = S \cup {x}
  OBVIOUS
<1>2. IsFiniteSet(T) /\ T \ {x} = S /\ x \in T /\ \A e \in T : w[e[1]] \in Nat
  BY <1>1, FS_AddElement
<1>3. SumOver(w, T) = w[x[1]] + SumOver(w, T \ {x})
  BY <1>2, SumIs
<1>4. SumOver(w, S) \in Nat /\ w[x[1]] \in Nat
  BY <1>1, <1>2, SumIs
<1>5. SumOver(w, S \cup {x}) = w[x[1]] + SumOver(w, S)
  BY <1>1, <1>2, <1>3, Zenon
<1> DEFINE a == SumOver(w, S)
           b == w[x[1]]
<1> HIDE DEF a, b
<1>6. a \in Nat /\ b \in Nat /\ SumOver(w, S \cup {x}) = b + a
  BY <1>4, <1>5 DEF a, b
<1>7. SumOver(w, S \cup {x}) = a + b
  BY <1>6
<1> QED BY <1>7 DEF a, b

-----------------------------------------------------------------------------
(* Additions are residual: x + y, where y is a kernel's result that was    *)
(* computed from x and is used nowhere else.                               *)
ResidualInv ==
    \A n \in Functions : Fn(n).kind = "add" =>
        LET x == Fn(n).inputs[1][1]
            y == Fn(n).inputs[2][1]
        IN  /\ x # NoGrad /\ x # y /\ y \in Functions
            /\ Fn(y).kind = "kernel" /\ Uses(y) = {<<n, 2>>} /\ ComputedFrom(y, x)

(* What the slots s of a node hold in the buffers h.                       *)
Held(h, b) == IF b = Null THEN 0 ELSE h[b]
HeldIn(h, s, k) == IF k = 2 THEN Held(h, s[1]) + Held(h, s[2]) ELSE Held(h, s[1])
HeldSum(n) == HeldIn(heap, slots[n], Results(n))

(* A delivery brings the gradient of the function it comes from; a node    *)
(* holds the sum of what has arrived, a leaf with what it has accumulated; *)
(* and a function was run with the sum over all uses of its results.       *)
StackValues(uses) ==
    \A j \in DOMAIN stack : heap[stack[j][3]] = IF Starting THEN 1 ELSE given[uses[j][1]]
FunctionValues(uses) ==
    \A n \in Functions : given[n] = 0 => HeldSum(n) = SumOver(given, Arrived(uses, n))
LeafValues(uses) ==
    \A l \in Leaves : Held(heap, grad[l]) + HeldSum(l) = SumOver(given, Arrived(uses, l))
GivenValues ==
    \A n \in Functions : given[n] # 0 =>
        given[n] = IF n \in Sinks THEN 1 ELSE SumOver(given, Uses(n))

Values(uses) ==
    StackValues(uses) /\ FunctionValues(uses) /\ LeafValues(uses) /\ GivenValues

(* Buffers are held once, except that of an addition on its way to both    *)
(* inputs.                                                                 *)
ToBranch(e) == Fn(e[1]).kind = "add" /\ e[2] = 2

SlotsOwned ==
    /\ \A m, n \in Nodes : \A o \in DOMAIN slots[m], p \in DOMAIN slots[n] :
          slots[m][o] = slots[n][p] /\ slots[m][o] # Null => m = n /\ o = p
    /\ \A l, n \in Leaves : grad[l] = grad[n] /\ grad[l] # Null => l = n
    /\ \A l \in Leaves, n \in Nodes : \A o \in DOMAIN slots[n] :
          slots[n][o] # Null => slots[n][o] # grad[l]
StackOwned(uses) ==
    /\ \A j \in DOMAIN stack, l \in Leaves : stack[j][3] # grad[l]
    /\ \A i, j \in DOMAIN stack : i < j /\ stack[i][3] = stack[j][3] =>
          i = 1 /\ j = 2 /\ ToBranch(uses[2]) /\ uses[1] = <<uses[2][1], 1>>
    /\ \A j \in DOMAIN stack, n \in Nodes : \A o \in DOMAIN slots[n] :
          stack[j][3] = slots[n][o] => ~Starting /\ j = 1 /\ ToBranch(uses[1])

Owned(uses) == SlotsOwned /\ StackOwned(uses)

(* A list of uses for which the whole invariant holds.                     *)
Right(uses) ==
    Lists(uses) /\ Counts(uses) /\ ResidualInv /\ Values(uses) /\ Owned(uses)

ValueInv == Types /\ GraphInv /\ StartInv /\ \E uses : Right(uses)

-----------------------------------------------------------------------------
LEMMA GivenIs ==
    ASSUME Types
    PROVE  /\ \A n : \A e \in Uses(n) : e[1] \in Functions /\ given[e[1]] \in Nat
           /\ \A n, uses : /\ Arrived(uses, n) \subseteq Uses(n)
                           /\ IsFiniteSet(Arrived(uses, n)) /\ IsFiniteSet(Uses(n))
<1>1. \A n : \A e \in Uses(n) : e[1] \in Functions /\ given[e[1]] \in Nat
  <2>1. given \in [Nodes -> Nat] /\ Functions \subseteq Nodes
    BY FunctionsAre DEF Types
  <2>2. \A n : \A e \in Uses(n) : e[1] \in Functions
    BY DEF Uses
  <2> QED BY <2>1, <2>2
<1>2. \A n, uses : Arrived(uses, n) \subseteq Uses(n)
  BY DEF Arrived
<1>3. \A n : Uses(n) \subseteq Functions \X {1, 2}
  BY FiniteUses
<1>4. \A n, uses : IsFiniteSet(Arrived(uses, n)) /\ IsFiniteSet(Uses(n))
  BY <1>2, <1>3, FiniteUses
<1> QED BY <1>1, <1>2, <1>4

LEMMA HeadUse ==
    ASSUME Types, GraphInv, NEW uses, NEW d, HeadFacts(d, uses), ~Starting
    PROVE  /\ uses[1] \in Uses(d[1]) /\ uses[1] \in Outstanding(uses, d[1])
           /\ uses[1] = <<uses[1][1], uses[1][2]>> /\ uses[1][1] \in Functions
           /\ Fn(uses[1][1]).inputs[uses[1][2]] = <<d[1], d[2]>>
           /\ given[uses[1][1]] # 0
<1>1. uses[1] \in Outstanding(uses, d[1]) /\ given[uses[1][1]] # 0
      /\ Fn(uses[1][1]).inputs[uses[1][2]] = <<d[1], d[2]>>
  BY DEF HeadFacts
<1>2. uses[1] \in Uses(d[1])
  BY <1>1 DEF Outstanding
<1>3. uses[1] = <<uses[1][1], uses[1][2]>>
  BY <1>2, UsesAre, Zenon
<1>4. uses[1][1] \in Functions
  BY <1>2, GivenIs
<1> QED BY <1>1, <1>2, <1>3, <1>4

(* The second input of an addition holds nothing before it is served, and  *)
(* runs then.                                                              *)
LEMMA BranchAlone ==
    ASSUME Types, GraphInv, ResidualInv, NEW uses, Counts(uses), FunctionValues(uses),
           NEW d, HeadFacts(d, uses), ~Starting, ToBranch(uses[1])
    PROVE  /\ d[1] \in Functions /\ Fn(d[1]).kind = "kernel" /\ Results(d[1]) = 1 /\ d[2] = 1
           /\ slots[d[1]][1] = Null /\ Fires(d)
<1> DEFINE n == d[1]
           u == uses[1]
           m == u[1]
<1>1. /\ u \in Uses(n) /\ u \in Outstanding(uses, n) /\ u = <<m, u[2]>> /\ m \in Functions
      /\ Fn(m).inputs[u[2]] = <<n, d[2]>> /\ u[2] = 2 /\ Fn(m).kind = "add"
  BY HeadUse DEF ToBranch
<1>2. /\ n \in Functions /\ Fn(n).kind = "kernel" /\ Uses(n) = {u}
  <2>1. Fn(m).inputs[2][1] = n /\ u = <<m, 2>>
    BY <1>1
  <2> QED BY <1>1, <2>1 DEF ResidualInv
<1>3. Results(n) = 1 /\ d[2] = 1 /\ given[n] = 0
  BY <1>2 DEF Results, Outputs, HeadFacts
<1>4. Arrived(uses, n) = {} /\ Outstanding(uses, n) = {u}
  BY <1>1, <1>2 DEF Arrived, Outstanding
<1>5. slots[n][1] = Null
  <2>1. HeldSum(n) = SumOver(given, {})
    BY <1>2, <1>3, <1>4 DEF FunctionValues
  <2>2. SumOver(given, {}) = 0
    BY SumIs, FS_EmptySet
  <2>3. Held(heap, slots[n][1]) = 0
    BY <1>3, <2>1, <2>2 DEF HeldSum, HeldIn
  <2>4. 1 \in DOMAIN slots[n] /\ n \in Nodes
    BY <1>2, <1>3, HeapIs, FunctionsAre
  <2>5. slots[n][1] # Null => heap[slots[n][1]] \in Nat \ {0}
    BY <2>4, HeapIs
  <2> QED BY <2>3, <2>5 DEF Held
<1>6. Fires(d)
  <2> SUFFICES ASSUME ~Fires(d) PROVE FALSE
    OBVIOUS
  <2>1. /\ deps[n] = reached[n] + 1 + Cardinality({})
        /\ (\A o \in 1..Results(n) : SlotsWith(d)[o] # Null) => reached[n] + 1 < deps[n]
    <3>1. Outstanding(uses, n) \ {u} = {}
      BY <1>4
    <3> QED BY <3>1, LastFires
  <2>2. ReceiveFacts(d)
    BY Received
  <2>3. \A o \in 1..Results(n) : SlotsWith(d)[o] # Null
    BY <1>3, <2>2 DEF ReceiveFacts, Null
  <2>4. reached[n] \in Nat /\ Cardinality({}) = 0
    <3>1. n \in Nodes
      BY <1>2, FunctionsAre
    <3> QED BY <3>1, FS_EmptySet DEF Types
  <2> QED BY <2>1, <2>3, <2>4
<1> QED BY <1>2, <1>3, <1>5, <1>6

(* The first input of an addition waits for the branch.                    *)
LEMMA InputWaits ==
    ASSUME Types, GraphInv, ResidualInv, NEW uses, Lists(uses), Counts(uses),
           NEW d, HeadFacts(d, uses), ~Starting, 2 \in DOMAIN uses,
           ToBranch(uses[2]), uses[1] = <<uses[2][1], 1>>
    PROVE  ~Fires(d)
<1> DEFINE x == d[1]
           m == uses[2][1]
           y == Fn(m).inputs[2][1]
           S == {z \in 1..y : z = y \/ \E e \in Uses(z) : given[e[1]] = 0}
<1>1. /\ uses[1] \in Uses(x) /\ m \in Functions /\ Fn(m).inputs[1] = <<x, d[2]>>
      /\ given[m] # 0 /\ Fn(m).kind = "add" /\ uses[2][2] = 2
  BY HeadUse DEF ToBranch
<1>2. /\ y \in Functions /\ x # y /\ Uses(y) = {<<m, 2>>} /\ ComputedFrom(y, x)
  BY <1>1 DEF ResidualInv
<1>3. uses[2] \in Outstanding(uses, y)
  <2>1. uses[2] \in Functions \X {1, 2}
    BY DEF Lists
  <2>2. uses[2] = <<m, 2>> /\ uses[2] \in Listed(uses)
    BY <1>1, <2>1 DEF Listed
  <2> QED BY <1>2, <2>2 DEF Outstanding
<1>4. \A z \in Functions : given[z] # 0 => \A e \in Uses(z) : given[e[1]] # 0
  BY DEF Counts, Outstanding
<1>5. given[y] = 0
  BY <1>2, <1>3 DEF Counts
<1>6. y \in Nat /\ y >= 1
  BY <1>2, FunctionsAre
<1>7. S \in SUBSET (1..y) /\ y \in S
  BY <1>6
<1>8. ClosedUnderInputs(S)
  <2>1. ASSUME NEW z \in S \cap Functions, NEW i \in DOMAIN Fn(z).inputs,
               Fn(z).inputs[i][1] # NoGrad
        PROVE  Fn(z).inputs[i][1] \in S
    <3> DEFINE c == Fn(z).inputs[i][1]
    <3>1. given[z] = 0
      BY <1>4, <1>5
    <3>2. i \in {1, 2} /\ <<z, i>> \in Uses(c)
      BY UsesAre DEF Uses, Edges
    <3>3. c < z /\ c \in Nat /\ c >= 1 /\ c <= y
      <4>1. c < z
        BY DEF GraphInv
      <4>2. c \in Nodes \cup {NoGrad} /\ z \in Nat /\ z <= y
        <5>1. Fn(z).inputs \in Seq((Nodes \cup {NoGrad}) \X {1, 2})
          BY FunctionsAre
        <5>2. Fn(z).inputs[i] \in (Nodes \cup {NoGrad}) \X {1, 2}
          BY <5>1
        <5> QED BY <1>6, <5>2
      <4>3. c \in Nat /\ c >= 1
        <5>1. c \in 1..Node(MaxFunctions)
          BY <2>1, <4>2 DEF Nodes
        <5> QED BY <5>1, FunctionsAre DEF Node
      <4> QED BY <1>6, <4>1, <4>2, <4>3
    <3>4. c \in 1..y
      BY <1>6, <3>3
    <3>5. \E e \in Uses(c) : given[e[1]] = 0
      BY <3>1, <3>2
    <3> HIDE DEF c
    <3> QED BY <3>4, <3>5 DEF c
  <2> QED BY <2>1 DEF ClosedUnderInputs
<1>9. x \in S
  <2> HIDE DEF S
  <2> QED BY <1>2, <1>7, <1>8 DEF ComputedFrom
<1>10. PICK e \in Uses(x) : given[e[1]] = 0
  BY <1>2, <1>9
<1>11. e # uses[1] /\ e \in Outstanding(uses, x) \ {uses[1]}
  BY <1>1, <1>10 DEF Outstanding
<1> QED BY <1>11, LastFires

-----------------------------------------------------------------------------
(* The first thing every step on the stack does: the buffer of the         *)
(* delivery joins its node's slots.  What it adds to is nobody else's, and *)
(* neither are the node's slots, unless an addition serves both inputs.    *)
Kept(d) ==
    /\ \A j \in DOMAIN stack \ {1} : HeapWith(d)[stack[j][3]] = heap[stack[j][3]]
    /\ \A m \in Nodes \ {d[1]} : \A o \in DOMAIN slots[m] :
          slots[m][o] # Null => HeapWith(d)[slots[m][o]] = heap[slots[m][o]]
    /\ \A l \in Leaves : grad[l] # Null => HeapWith(d)[grad[l]] = heap[grad[l]]

Joined(d) ==
    HeldIn(HeapWith(d), SlotsWith(d), Results(d[1])) = HeldSum(d[1]) + heap[d[3]]

OwnSlots(d, uses) ==
    /\ \A o, p \in 1..Results(d[1]) :
          SlotsWith(d)[o] = SlotsWith(d)[p] /\ SlotsWith(d)[o] # Null => o = p
    /\ \A m \in Nodes \ {d[1]}, o \in 1..Results(d[1]) : \A p \in DOMAIN slots[m] :
          SlotsWith(d)[o] = slots[m][p] /\ SlotsWith(d)[o] # Null =>
             ~Starting /\ ToBranch(uses[1])
    /\ \A l \in Leaves, o \in 1..Results(d[1]) :
          SlotsWith(d)[o] # Null => SlotsWith(d)[o] # grad[l]
    /\ \A j \in DOMAIN stack \ {1}, o \in 1..Results(d[1]) :
          SlotsWith(d)[o] = stack[j][3] =>
             ~Starting /\ j = 2 /\ ToBranch(uses[2]) /\ uses[1] = <<uses[2][1], 1>>

LEMMA Delivered ==
    ASSUME Types, GraphInv, StartInv, NEW uses, Right(uses), NEW d, HeadFacts(d, uses)
    PROVE  Kept(d) /\ Joined(d) /\ OwnSlots(d, uses)
<1> DEFINE n == d[1]
           q == d[2]
           b == d[3]
           s == slots[n]
           S == SlotsWith(d)
           H == HeapWith(d)
           k == Results(n)
<1>1. /\ n \in Leaves \cup Functions /\ n \in Nodes /\ d = stack[1] /\ 1 \in DOMAIN stack
      /\ k \in {1, 2} /\ q \in 1..k /\ DOMAIN s = 1..k /\ b \in 1..Len(heap) /\ b = stack[1][3]
      /\ Len(heap) \in Nat /\ DOMAIN heap = 1..Len(heap) /\ heap[b] \in Nat \ {0} /\ b # Null
  <2>1. Len(stack) \in Nat \ {0} /\ DOMAIN stack = 1..Len(stack)
    BY HeapIs DEF HeadFacts
  <2>2. 1 \in DOMAIN stack
    BY <2>1
  <2>3. /\ n \in Leaves \cup Functions /\ n \in Nodes /\ d = stack[1] /\ b = stack[1][3]
        /\ k \in {1, 2} /\ q \in 1..k /\ DOMAIN s = 1..k /\ b \in 1..Len(heap)
    BY DEF HeadFacts
  <2>4. /\ Len(heap) \in Nat /\ DOMAIN heap = 1..Len(heap)
        /\ \A c \in 1..Len(heap) : heap[c] \in Nat \ {0}
    BY HeapIs
  <2> HIDE DEF n, q, b, s, k
  <2> QED BY <2>2, <2>3, <2>4 DEF Null
<1>2. /\ \A o \in 1..k : s[o] \in 0..Len(heap) /\ (s[o] # Null => s[o] \in 1..Len(heap))
      /\ \A o \in 1..k : s[o] # Null => heap[s[o]] \in Nat \ {0}
  BY <1>1, HeapIs
<1>3. /\ \A m \in Nodes : \A o \in 1..k, p \in DOMAIN slots[m] :
            s[o] = slots[m][p] /\ s[o] # Null => n = m /\ o = p
      /\ \A l \in Leaves : \A o \in 1..k : s[o] # Null => s[o] # grad[l]
  BY <1>1 DEF Right, Owned, SlotsOwned
<1>4. /\ \A l \in Leaves : b # grad[l]
      /\ \A m \in Nodes : \A p \in DOMAIN slots[m] :
            b = slots[m][p] => ~Starting /\ ToBranch(uses[1])
      /\ \A j \in DOMAIN stack \ {1}, o \in 1..k : stack[j][3] # s[o]
  BY <1>1 DEF Right, Owned, StackOwned
<1>5. \A j \in DOMAIN stack \ {1} : stack[j][3] = b =>
            j = 2 /\ ToBranch(uses[2]) /\ uses[1] = <<uses[2][1], 1>>
  <2>1. \A j \in DOMAIN stack \ {1} : 1 < j
    BY HeapIs
  <2> QED BY <1>1, <2>1 DEF Right, Owned, StackOwned
<1>6. \A j \in DOMAIN stack \ {1} : ~Starting
  <2>1. Starting => DOMAIN stack = {1}
    <3>1. Starting => Len(stack) = 1
      BY DEF StartInv
    <3> QED BY <3>1, HeapIs
  <2> QED BY <2>1
<1>7. ~Starting /\ ToBranch(uses[1]) => k = 1 /\ q = 1 /\ s[1] = Null
  BY BranchAlone DEF Right, Values
<1>8. S = IF s[q] = Null THEN [s EXCEPT ![q] = b] ELSE s
  BY DEF SlotsWith
<1>9. H = IF s[q] = Null THEN heap ELSE [heap EXCEPT ![s[q]] = @ + heap[b]]
  BY DEF HeapWith
<1>10. HeldSum(n) = HeldIn(heap, s, k)
  BY DEF HeldSum
<1> HIDE DEF n, q, b, s, S, H, k
<1>11. CASE s[q] = Null
  <2>1. H = heap /\ S[q] = b /\ \A o \in 1..k : o # q => S[o] = s[o]
    BY <1>1, <1>8, <1>9, <1>11
  <2>2. Kept(d)
    BY <2>1 DEF Kept, H
  <2>3. HeldIn(H, S, k) = HeldIn(heap, s, k) + heap[b]
    <3>1. Held(heap, b) = heap[b] /\ Held(heap, s[q]) = 0
      BY <1>1, <1>11 DEF Held
    <3>2. \A o \in 1..k : Held(heap, s[o]) \in Nat
      BY <1>2 DEF Held
    <3>3. CASE k = 1
      BY <1>1, <2>1, <3>1, <3>3 DEF HeldIn
    <3>4. CASE k = 2
      <4>1. CASE q = 1
        <5>1. S[1] = b /\ S[2] = s[2] /\ Held(heap, s[2]) \in Nat
          BY <2>1, <3>2, <3>4, <4>1
        <5>2. HeldIn(H, S, k) = heap[b] + Held(heap, s[2])
          BY <2>1, <3>1, <3>4, <5>1 DEF HeldIn
        <5>3. HeldIn(heap, s, k) = 0 + Held(heap, s[2])
          BY <3>1, <3>4, <4>1 DEF HeldIn
        <5> QED BY <1>1, <5>1, <5>2, <5>3
      <4>2. CASE q = 2
        <5>1. S[2] = b /\ S[1] = s[1] /\ Held(heap, s[1]) \in Nat
          BY <2>1, <3>2, <3>4, <4>2
        <5>2. HeldIn(H, S, k) = Held(heap, s[1]) + heap[b]
          BY <2>1, <3>1, <3>4, <5>1 DEF HeldIn
        <5>3. HeldIn(heap, s, k) = Held(heap, s[1]) + 0
          BY <3>1, <3>4, <4>2 DEF HeldIn
        <5> QED BY <1>1, <5>1, <5>2, <5>3
      <4> QED BY <1>1, <3>4, <4>1, <4>2
    <3> QED BY <1>1, <3>3, <3>4
  <2>4. \A o, p \in 1..k : S[o] = S[p] /\ S[o] # Null => o = p
    <3>1. ASSUME NEW o \in 1..k, NEW p \in 1..k, S[o] = S[p], S[o] # Null, o # q, p # q PROVE o = p
      BY <1>1, <1>3, <2>1, <3>1
    <3>2. ASSUME NEW p \in 1..k, S[p] = b, p # q PROVE FALSE
      <4>1. b = s[p] /\ ~Starting /\ ToBranch(uses[1])
        BY <1>1, <1>4, <2>1, <3>2 DEF s
      <4> QED BY <1>7, <3>2, <4>1
    <3> QED BY <2>1, <3>1, <3>2
  <2>5. ASSUME NEW m \in Nodes \ {n}, NEW o \in 1..k, NEW p \in DOMAIN slots[m],
               S[o] = slots[m][p], S[o] # Null
        PROVE  ~Starting /\ ToBranch(uses[1])
    <3>1. CASE o = q
      BY <1>4, <2>1, <2>5, <3>1
    <3>2. CASE o # q
      BY <1>3, <2>1, <2>5, <3>2
    <3> QED BY <3>1, <3>2
  <2>6. \A l \in Leaves, o \in 1..k : S[o] # Null => S[o] # grad[l]
    BY <1>3, <1>4, <2>1
  <2>7. ASSUME NEW j \in DOMAIN stack \ {1}, NEW o \in 1..k, S[o] = stack[j][3]
        PROVE  ~Starting /\ j = 2 /\ ToBranch(uses[2]) /\ uses[1] = <<uses[2][1], 1>>
    <3>1. o = q
      BY <1>4, <2>1, <2>7
    <3> QED BY <1>5, <1>6, <2>1, <2>7, <3>1
  <2>8. Joined(d)
    BY <1>10, <2>3 DEF Joined, n, b, s, S, H, k
  <2>9. OwnSlots(d, uses)
    BY <2>4, <2>5, <2>6, <2>7 DEF OwnSlots, n, S, k
  <2> QED BY <2>2, <2>8, <2>9
<1>12. CASE s[q] # Null
  <2> DEFINE c == s[q]
  <2>1. S = s /\ c \in 1..Len(heap) /\ heap[c] \in Nat \ {0} /\ H[c] = heap[c] + heap[b]
        /\ \A i \in 1..Len(heap) : i # c => H[i] = heap[i]
    BY <1>1, <1>2, <1>8, <1>9, <1>12
  <2>2. ~(~Starting /\ ToBranch(uses[1]))
    BY <1>7, <1>12
  <2>3. Kept(d)
    <3>1. \A j \in DOMAIN stack \ {1} : stack[j][3] \in 1..Len(heap) /\ stack[j][3] # c
      BY <1>1, <1>4, HeapIs
    <3>2. \A m \in Nodes \ {n} : \A o \in DOMAIN slots[m] :
             slots[m][o] # Null => slots[m][o] \in 1..Len(heap) /\ slots[m][o] # c
      BY <1>1, <1>3, <1>12, HeapIs
    <3>3. \A l \in Leaves : grad[l] # Null => grad[l] \in 1..Len(heap) /\ grad[l] # c
      BY <1>1, <1>3, <1>12, HeapIs
    <3> HIDE DEF c
    <3> QED BY <2>1, <3>1, <3>2, <3>3 DEF Kept, H, n
  <2>4. HeldIn(H, S, k) = HeldIn(heap, s, k) + heap[b]
    <3>1. Held(H, s[q]) = heap[s[q]] + heap[b] /\ Held(heap, s[q]) = heap[s[q]]
      BY <1>12, <2>1 DEF Held
    <3>2. \A o \in 1..k : o # q => Held(H, s[o]) = Held(heap, s[o])
      <4>1. ASSUME NEW o \in 1..k, o # q PROVE Held(H, s[o]) = Held(heap, s[o])
        <5>1. s[o] # Null => s[o] # c
          <6>1. \A p \in DOMAIN slots[n] : s[o] = slots[n][p] /\ s[o] # Null => o = p
            BY <1>1, <1>3
          <6>2. q \in DOMAIN slots[n] /\ c = slots[n][q]
            BY <1>1 DEF s
          <6> QED BY <4>1, <6>1, <6>2
        <5>2. s[o] # Null => s[o] \in 1..Len(heap)
          BY <1>2
        <5> HIDE DEF c
        <5> QED BY <2>1, <5>1, <5>2 DEF Held
      <4> QED BY <4>1
    <3>3. \A o \in 1..k : Held(heap, s[o]) \in Nat
      BY <1>2 DEF Held
    <3>4. heap[s[q]] \in Nat /\ heap[b] \in Nat
      BY <1>1, <2>1
    <3>5. CASE k = 1
      BY <1>1, <2>1, <3>1, <3>5 DEF HeldIn
    <3>6. CASE k = 2
      <4>1. CASE q = 1
        <5>1. Held(H, s[2]) = Held(heap, s[2]) /\ Held(heap, s[2]) \in Nat
          BY <3>2, <3>3, <3>6, <4>1
        <5>2. HeldIn(H, S, k) = (heap[s[q]] + heap[b]) + Held(heap, s[2])
          BY <2>1, <3>1, <3>6, <4>1, <5>1 DEF HeldIn
        <5>3. HeldIn(heap, s, k) = heap[s[q]] + Held(heap, s[2])
          BY <3>1, <3>6, <4>1 DEF HeldIn
        <5> QED BY <3>4, <5>1, <5>2, <5>3
      <4>2. CASE q = 2
        <5>1. Held(H, s[1]) = Held(heap, s[1]) /\ Held(heap, s[1]) \in Nat
          BY <3>2, <3>3, <3>6, <4>2
        <5>2. HeldIn(H, S, k) = Held(heap, s[1]) + (heap[s[q]] + heap[b])
          BY <2>1, <3>1, <3>6, <4>2, <5>1 DEF HeldIn
        <5>3. HeldIn(heap, s, k) = Held(heap, s[1]) + heap[s[q]]
          BY <3>1, <3>6, <4>2 DEF HeldIn
        <5> QED BY <3>4, <5>1, <5>2, <5>3
      <4> QED BY <1>1, <3>6, <4>1, <4>2
    <3> QED BY <1>1, <3>5, <3>6
  <2>5. \A o, p \in 1..k : S[o] = S[p] /\ S[o] # Null => o = p
    <3>1. \A o \in 1..k : \A p \in DOMAIN slots[n] : s[o] = slots[n][p] /\ s[o] # Null => o = p
      BY <1>1, <1>3
    <3>2. \A o \in 1..k : \A p \in 1..k : s[o] = s[p] /\ s[o] # Null => o = p
      BY <1>1, <3>1 DEF s
    <3> HIDE DEF c
    <3> QED BY <2>1, <3>2
  <2>6. \A m \in Nodes \ {n}, o \in 1..k : \A p \in DOMAIN slots[m] :
           ~(S[o] = slots[m][p] /\ S[o] # Null)
    BY <1>3, <2>1
  <2>7. \A l \in Leaves, o \in 1..k : S[o] # Null => S[o] # grad[l]
    BY <1>3, <2>1
  <2>8. \A j \in DOMAIN stack \ {1}, o \in 1..k : S[o] # stack[j][3]
    BY <1>4, <2>1
  <2>9. Joined(d)
    BY <1>10, <2>4 DEF Joined, n, b, s, S, H, k
  <2>10. OwnSlots(d, uses)
    BY <2>5, <2>6, <2>7, <2>8 DEF OwnSlots, n, S, k
  <2> QED BY <2>3, <2>9, <2>10
<1> QED BY <1>11, <1>12

-----------------------------------------------------------------------------
LEMMA SameHeld ==
    ASSUME NEW h, NEW g, NEW s, NEW k \in {1, 2}, \A o \in 1..k : s[o] # Null => h[s[o]] = g[s[o]]
    PROVE  HeldIn(h, s, k) = HeldIn(g, s, k)
<1>1. \A o \in 1..k : Held(h, s[o]) = Held(g, s[o])
  BY DEF Held
<1>2. 1 \in 1..k /\ (k = 2 => 2 \in 1..k)
  OBVIOUS
<1> QED BY <1>1, <1>2, Zenon DEF HeldIn

LEMMA SameResidual ==
    ASSUME graph' = graph, ResidualInv
    PROVE  ResidualInv'
<1>1. Functions' = Functions /\ \A n : Fn(n)' = Fn(n) /\ Uses(n)' = Uses(n)
  BY SameGraph
<1>2. \A S : ClosedUnderInputs(S)' <=> ClosedUnderInputs(S)
  BY <1>1 DEF ClosedUnderInputs
<1>3. \A x, y : ComputedFrom(y, x)' <=> ComputedFrom(y, x)
  BY <1>2 DEF ComputedFrom
<1>4. NoGrad' = NoGrad
  BY DEF NoGrad
<1> QED BY <1>1, <1>3, <1>4, Zenon DEF ResidualInv

(* The use that is delivered joins those that have arrived at its node.    *)
LEMMA DeliverySum ==
    ASSUME Types, GraphInv, NEW uses, Right(uses), NEW d, HeadFacts(d, uses), ~Starting
    PROVE  /\ Uses(d[1]) \ (Outstanding(uses, d[1]) \ {uses[1]}) = Arrived(uses, d[1]) \cup {uses[1]}
           /\ \A m : m # d[1] =>
                 Uses(m) \ (Outstanding(uses, m) \ {uses[1]}) = Arrived(uses, m)
           /\ SumOver(given, Arrived(uses, d[1]) \cup {uses[1]})
                 = SumOver(given, Arrived(uses, d[1])) + heap[d[3]]
           /\ SumOver(given, Arrived(uses, d[1])) \in Nat
<1> DEFINE n == d[1]
           u == uses[1]
           A == Arrived(uses, n)
<1>1. u \in Uses(n) /\ u \in Outstanding(uses, n)
  BY HeadUse
<1>2. A = Uses(n) \ Outstanding(uses, n)
  BY DEF Arrived
<1>3. \A m : u \in Uses(m) => m = n
  BY <1>1, UsesAre
<1>4. Uses(n) \ (Outstanding(uses, n) \ {u}) = A \cup {u}
  BY <1>1, <1>2
<1>5. \A m : m # n => Uses(m) \ (Outstanding(uses, m) \ {u}) = Arrived(uses, m)
  BY <1>3 DEF Arrived
<1>6. heap[d[3]] = given[u[1]]
  <2>1. 1 \in DOMAIN stack /\ d = stack[1]
    <3>1. Len(stack) \in Nat \ {0} /\ DOMAIN stack = 1..Len(stack)
      BY HeapIs DEF HeadFacts
    <3> QED BY <3>1 DEF HeadFacts
  <2> QED BY <2>1 DEF Right, Values, StackValues
<1>7. IsFiniteSet(A) /\ u \notin A /\ \A e \in A \cup {u} : given[e[1]] \in Nat
  BY <1>1, <1>2, GivenIs
<1> HIDE DEF A
<1>8. SumOver(given, A \cup {u}) = SumOver(given, A) + given[u[1]]
  BY <1>7, SumAdds
<1>9. SumOver(given, A) \in Nat
  BY <1>7, SumIs
<1> QED BY <1>4, <1>5, <1>6, <1>8, <1>9 DEF A

(* Deliveries below the top, once it is taken off.                         *)
Below(uses, s, t) ==
    /\ DOMAIN s \subseteq Nat \ {0}
    /\ \A j \in DOMAIN s :
          j + 1 \in DOMAIN stack \ {1} /\ s[j] = stack[j + 1] /\ t[j] = uses[j + 1]

LEMMA BelowIs ==
    ASSUME Types, StartInv, NEW uses, Lists(uses), stack # <<>>, NEW t, t = Rest(uses)
    PROVE  Below(uses, Tail(stack), t)
<1>1. RestFacts(uses, Tail(stack), t)
  BY RestIs
<1>2. /\ Len(stack) - 1 \in Nat /\ DOMAIN Tail(stack) = 1..(Len(stack) - 1)
      /\ \A j \in 1..(Len(stack) - 1) :
            j + 1 \in DOMAIN stack /\ Tail(stack)[j] = stack[j + 1] /\ t[j] = uses[j + 1]
  BY <1>1, Zenon DEF RestFacts
<1>3. \A j \in 1..(Len(stack) - 1) : j \in Nat \ {0} /\ j + 1 # 1
  BY <1>2
<1> QED BY <1>2, <1>3 DEF Below

LEMMA WaitsRight ==
    ASSUME Types, GraphInv, StartInv, stack # <<>>, NEW d, d = Head(stack), Waits(d),
           NEW uses, Right(uses), HeadFacts(d, uses),
           NEW t, t = Rest(uses), Lists(t)', Counts(t)', ~Starting
    PROVE  Right(t)'
<1> DEFINE n == d[1]
           u == uses[1]
           H == HeapWith(d)
           S == SlotsWith(d)
           k == Results(n)
<1>1. /\ ~Fires(d) /\ slots' = [slots EXCEPT ![n] = S] /\ heap' = H /\ stack' = Tail(stack)
      /\ graph' = graph /\ given' = given /\ grad' = grad
  BY DEF Waits
<1>2. Kept(d) /\ Joined(d) /\ OwnSlots(d, uses) /\ ReceiveFacts(d)
  BY Delivered, Received
<1>3. /\ Functions' = Functions /\ Sinks' = Sinks
      /\ \A m : Uses(m)' = Uses(m) /\ Results(m)' = Results(m)
  BY <1>1, SameGraph
<1>4. ~Starting' /\ \A m : Outstanding(t, m)' = Outstanding(uses, m) \ {u}
  BY <1>1, TailLists DEF Right
<1>5. \A m : Arrived(t, m)' = Uses(m) \ (Outstanding(uses, m) \ {u})
  BY <1>3, <1>4 DEF Arrived
<1>6. /\ Arrived(t, n)' = Arrived(uses, n) \cup {u}
      /\ \A m : m # n => Arrived(t, m)' = Arrived(uses, m)
      /\ SumOver(given, Arrived(uses, n) \cup {u}) = SumOver(given, Arrived(uses, n)) + heap[d[3]]
      /\ SumOver(given, Arrived(uses, n)) \in Nat
  BY <1>5, DeliverySum
<1>7. /\ n \in Leaves \cup Functions /\ n \in Nodes /\ k \in {1, 2} /\ d[3] \in 1..Len(heap)
      /\ DOMAIN S = 1..k
  BY <1>2 DEF HeadFacts, ReceiveFacts
<1>8. slots'[n] = S /\ \A m \in Nodes \ {n} : slots'[m] = slots[m]
  <2>1. DOMAIN slots = Nodes
    BY DEF Types
  <2> HIDE DEF n, S
  <2> QED BY <1>1, <1>7, <2>1
<1>9. Below(uses, stack', t)
  BY <1>1, BelowIs DEF Right
<1>10. HeldSum(n)' = HeldSum(n) + heap[d[3]]
  BY <1>1, <1>2, <1>3, <1>8 DEF HeldSum, Joined
<1>11. ASSUME NEW m \in Leaves \cup Functions, m # n PROVE HeldSum(m)' = HeldSum(m)
  <2>1. DOMAIN slots[m] = 1..Results(m) /\ Results(m) \in {1, 2} /\ m \in Nodes \ {n}
    BY <1>11, HeapIs, FunctionsAre
  <2>2. \A o \in 1..Results(m) : slots[m][o] # Null => H[slots[m][o]] = heap[slots[m][o]]
    BY <1>2, <2>1 DEF Kept
  <2>3. HeldIn(H, slots[m], Results(m)) = HeldIn(heap, slots[m], Results(m))
    BY <2>1, <2>2, SameHeld
  <2> QED BY <1>1, <1>3, <1>8, <2>1, <2>3 DEF HeldSum
<1>12. \A l \in Leaves : Held(heap', grad'[l]) = Held(heap, grad[l])
  BY <1>1, <1>2 DEF Held, Kept
<1> HIDE DEF n, u, H, S, k
<1>13. StackValues(t)'
  <2>1. ASSUME NEW j \in DOMAIN stack' PROVE heap'[stack'[j][3]] = given'[t[j][1]]
    <3>1. PICK i : i = j + 1
      OBVIOUS
    <3>2. i \in DOMAIN stack \ {1} /\ stack'[j] = stack[i] /\ t[j] = uses[i]
      BY <1>9, <3>1 DEF Below
    <3>3. heap[stack[i][3]] = given[uses[i][1]]
      BY <3>2 DEF Right, Values, StackValues
    <3>4. H[stack[i][3]] = heap[stack[i][3]]
      BY <1>2, <3>2 DEF Kept, H
    <3> QED BY <1>1, <3>2, <3>3, <3>4
  <2> QED BY <1>4, <2>1 DEF StackValues
<1>14. FunctionValues(t)'
  <2>1. ASSUME NEW m \in Functions, given[m] = 0 PROVE HeldSum(m)' = SumOver(given, Arrived(t, m)')
    <3>1. HeldSum(m) = SumOver(given, Arrived(uses, m))
      BY <2>1 DEF Right, Values, FunctionValues
    <3>2. CASE m = n
      BY <1>6, <1>10, <3>1, <3>2
    <3>3. CASE m # n
      BY <1>6, <1>11, <3>1, <3>3
    <3> QED BY <3>2, <3>3
  <2> QED BY <1>1, <1>3, <2>1 DEF FunctionValues
<1>15. LeafValues(t)'
  <2>1. ASSUME NEW l \in Leaves
        PROVE  Held(heap', grad'[l]) + HeldSum(l)' = SumOver(given, Arrived(t, l)')
    <3>1. Held(heap, grad[l]) + HeldSum(l) = SumOver(given, Arrived(uses, l))
      BY DEF Right, Values, LeafValues
    <3>2. Held(heap', grad'[l]) = Held(heap, grad[l])
      BY <1>12
    <3>3. CASE l = n
      <4> DEFINE a == Held(heap, grad[l])
                 b == HeldSum(l)
                 c == heap[d[3]]
      <4>1. a \in Nat /\ b \in Nat /\ c \in Nat
        <5>1. c \in Nat
          BY <1>7, HeapIs
        <5>2. a \in Nat
          BY HeapIs DEF Held
        <5>3. b \in Nat
          <6>1. \A o \in 1..Results(l) : Held(heap, slots[l][o]) \in Nat
            BY HeapIs, FunctionsAre DEF Held
          <6>2. Results(l) \in {1, 2}
            BY HeapIs
          <6> QED BY <6>1, <6>2 DEF HeldSum, HeldIn
        <5> QED BY <5>1, <5>2, <5>3
      <4>2. HeldSum(l)' = b + c
        BY <1>10, <3>3
      <4>3. SumOver(given, Arrived(t, l)') = SumOver(given, Arrived(uses, l)) + c
        BY <1>6, <3>3
      <4> HIDE DEF a, b, c
      <4>4. a + (b + c) = (a + b) + c
        BY <4>1
      <4> QED BY <3>1, <3>2, <4>2, <4>3, <4>4 DEF a, b
    <3>4. CASE l # n
      BY <1>6, <1>11, <3>1, <3>2, <3>4
    <3> QED BY <3>3, <3>4
  <2> QED BY <1>1, <2>1 DEF LeafValues
<1>16. GivenValues'
  BY <1>1, <1>3 DEF GivenValues, Right, Values
<1>17. ~ToBranch(u)
  BY <1>1, BranchAlone DEF Right, Values, u
<1>18. SlotsOwned'
  <2>1. ASSUME NEW p \in Nodes, NEW m \in Nodes, NEW o \in DOMAIN slots'[p], NEW r \in DOMAIN slots'[m],
               slots'[p][o] = slots'[m][r], slots'[p][o] # Null
        PROVE  p = m /\ o = r
    <3>1. CASE p = n /\ m = n
      BY <1>2, <1>7, <1>8, <2>1, <3>1 DEF OwnSlots, n, S, k
    <3>2. CASE p = n /\ m # n
      BY <1>2, <1>7, <1>8, <1>17, <2>1, <3>2 DEF OwnSlots, n, S, k, u
    <3>3. CASE p # n /\ m = n
      BY <1>2, <1>7, <1>8, <1>17, <2>1, <3>3 DEF OwnSlots, n, S, k, u
    <3>4. CASE p # n /\ m # n
      BY <1>8, <2>1, <3>4 DEF Right, Owned, SlotsOwned
    <3> QED BY <3>1, <3>2, <3>3, <3>4
  <2>2. ASSUME NEW l \in Leaves, NEW m \in Nodes, NEW o \in DOMAIN slots'[m], slots'[m][o] # Null
        PROVE  slots'[m][o] # grad[l]
    <3>1. CASE m = n
      BY <1>2, <1>7, <1>8, <2>2, <3>1 DEF OwnSlots, n, S, k
    <3>2. CASE m # n
      BY <1>8, <2>2, <3>2 DEF Right, Owned, SlotsOwned
    <3> QED BY <3>1, <3>2
  <2>3. \A l, m \in Leaves : grad[l] = grad[m] /\ grad[l] # Null => l = m
    BY DEF Right, Owned, SlotsOwned
  <2> QED BY <1>1, <2>1, <2>2, <2>3 DEF SlotsOwned
<1>19. StackOwned(t)'
  <2>1. ASSUME NEW j \in DOMAIN stack', NEW l \in Leaves PROVE stack'[j][3] # grad[l]
    BY <1>9 DEF Right, Owned, StackOwned, Below
  <2>2. ASSUME NEW i \in DOMAIN stack', NEW j \in DOMAIN stack', i < j
        PROVE  stack'[i][3] # stack'[j][3]
    <3>1. PICK p, q : p = i + 1 /\ q = j + 1
      OBVIOUS
    <3>2. p \in DOMAIN stack \ {1} /\ q \in DOMAIN stack /\ stack'[i] = stack[p] /\ stack'[j] = stack[q]
      BY <1>9, <3>1 DEF Below
    <3>3. p < q
      BY <1>9, <2>2, <3>1 DEF Below
    <3> QED BY <3>2, <3>3 DEF Right, Owned, StackOwned
  <2>3. ASSUME NEW j \in DOMAIN stack', NEW m \in Nodes, NEW o \in DOMAIN slots'[m],
               stack'[j][3] = slots'[m][o]
        PROVE  j = 1 /\ ToBranch(t[1])
    <3>1. PICK i : i = j + 1
      OBVIOUS
    <3>2. i \in DOMAIN stack \ {1} /\ stack'[j] = stack[i] /\ t[j] = uses[i] /\ j \in Nat
      BY <1>9, <3>1 DEF Below
    <3>3. CASE m = n
      <4>1. i = 2 /\ ToBranch(uses[2])
        BY <1>2, <1>7, <1>8, <2>3, <3>2, <3>3 DEF OwnSlots, n, S, k
      <4> QED BY <3>1, <3>2, <4>1
    <3>4. CASE m # n
      BY <1>8, <2>3, <3>2, <3>4 DEF Right, Owned, StackOwned
    <3> QED BY <3>3, <3>4
  <2>4. \A e : ToBranch(e)' <=> ToBranch(e)
    BY <1>1, SameGraph DEF ToBranch
  <2> QED BY <1>1, <1>4, <2>1, <2>2, <2>3, <2>4 DEF StackOwned
<1>20. ResidualInv'
  BY <1>1, SameResidual DEF Right
<1> QED BY <1>13, <1>14, <1>15, <1>16, <1>18, <1>19, <1>20 DEF Right, Values, Owned

(* A leaf accumulates what it holds into a buffer of its own.              *)
LEMMA AccumulateRight ==
    ASSUME Types, GraphInv, StartInv, stack # <<>>, NEW d, d = Head(stack), RunAccumulate(d),
           NEW uses, Right(uses), HeadFacts(d, uses),
           NEW t, t = Rest(uses), Lists(t)', Counts(t)', ~Starting
    PROVE  Right(t)'
<1> DEFINE n == d[1]
           u == uses[1]
           H == HeapWith(d)
           c == SlotsWith(d)[1]
           g == grad'[n]
<1>1. /\ Fires(d) /\ n \in Leaves
      /\ IF grad[n] = Null THEN grad' = [grad EXCEPT ![n] = c] /\ heap' = H
         ELSE heap' = [H EXCEPT ![grad[n]] = @ + H[c]] /\ UNCHANGED grad
      /\ slots' = [slots EXCEPT ![n] = <<Null>>] /\ stack' = Tail(stack)
      /\ graph' = graph /\ given' = given
  BY DEF RunAccumulate
<1>2. Kept(d) /\ Joined(d) /\ OwnSlots(d, uses) /\ ReceiveFacts(d)
  BY Delivered, Received
<1>3. /\ Functions' = Functions /\ Sinks' = Sinks
      /\ \A m : Uses(m)' = Uses(m) /\ Results(m)' = Results(m)
  BY <1>1, SameGraph
<1>4. ~Starting' /\ \A m : Outstanding(t, m)' = Outstanding(uses, m) \ {u}
  BY <1>1, TailLists DEF Right
<1>5. \A m : Arrived(t, m)' = Uses(m) \ (Outstanding(uses, m) \ {u})
  BY <1>3, <1>4 DEF Arrived
<1>6. /\ Arrived(t, n)' = Arrived(uses, n) \cup {u}
      /\ \A m : m # n => Arrived(t, m)' = Arrived(uses, m)
      /\ SumOver(given, Arrived(uses, n) \cup {u}) = SumOver(given, Arrived(uses, n)) + heap[d[3]]
  BY <1>5, DeliverySum
<1>7. /\ n \in Nodes /\ n \notin Functions /\ Results(n) = 1 /\ d[3] \in 1..Len(heap)
      /\ c \in 1..Len(heap) /\ c # Null /\ H \in Seq(Nat \ {0}) /\ Len(H) = Len(heap)
  <2>1. n \in Nodes /\ n \notin Functions /\ Results(n) = 1 /\ d[3] \in 1..Len(heap) /\ d[2] = 1
    <3>1. n \in Nodes /\ n \notin Functions
      BY <1>1, FunctionsAre
    <3>2. Results(n) = 1
      BY <3>1 DEF Results
    <3>3. d[2] \in 1..Results(n) /\ d[3] \in 1..Len(heap)
      BY DEF HeadFacts
    <3> HIDE DEF n
    <3> QED BY <3>1, <3>2, <3>3
  <2>2. c \in 1..Len(heap) /\ H \in Seq(Nat \ {0}) /\ Len(H) = Len(heap)
    BY <1>2, <2>1 DEF ReceiveFacts
  <2> HIDE DEF c
  <2> QED BY <2>1, <2>2, HeapIs DEF Null
<1>8. slots'[n] = <<Null>> /\ \A m \in Nodes \ {n} : slots'[m] = slots[m]
  <2>1. DOMAIN slots = Nodes
    BY DEF Types
  <2> HIDE DEF n
  <2> QED BY <1>1, <1>7, <2>1
<1>9. Below(uses, stack', t)
  BY <1>1, BelowIs DEF Right
<1>10. ~ToBranch(u)
  BY <1>7, BranchAlone DEF Right, Values
<1>11. /\ \A j \in DOMAIN stack \ {1} : stack[j][3] # c
       /\ \A m \in Nodes \ {n} : \A o \in DOMAIN slots[m] : slots[m][o] # c
       /\ \A l \in Leaves : grad[l] # c
  <2>1. ASSUME NEW j \in DOMAIN stack \ {1}, stack[j][3] = c PROVE FALSE
    <3>1. j = 2 /\ ToBranch(uses[2]) /\ uses[1] = <<uses[2][1], 1>>
      BY <1>2, <1>7, <2>1 DEF OwnSlots
    <3>2. 2 \in DOMAIN uses
      <4>1. uses \in Seq(Functions \X {1, 2}) /\ Len(uses) = Len(stack)
        BY DEF Right, Lists
      <4>2. DOMAIN uses = DOMAIN stack
        BY <4>1, HeapIs
      <4> QED BY <3>1, <4>2
    <3> QED BY <1>1, <3>1, <3>2, InputWaits DEF Right
  <2>2. \A m \in Nodes \ {n} : \A o \in DOMAIN slots[m] : slots[m][o] # c
    BY <1>2, <1>7, <1>10 DEF OwnSlots
  <2>3. \A l \in Leaves : grad[l] # c
    BY <1>2, <1>7 DEF OwnSlots
  <2> QED BY <2>1, <2>2, <2>3
<1>12. /\ \A j \in DOMAIN stack \ {1}, l \in Leaves : stack[j][3] # grad[l]
       /\ \A m \in Nodes : \A o \in DOMAIN slots[m] :
             slots[m][o] # Null => \A l \in Leaves : slots[m][o] # grad[l]
       /\ \A l \in Leaves : l # n /\ grad[l] # Null => grad[l] # grad[n]
       /\ \A l \in Leaves : grad[l] \in 0..Len(heap) /\ (grad[l] # Null => grad[l] \in 1..Len(heap))
  BY <1>1, HeapIs DEF Right, Owned, SlotsOwned, StackOwned
<1>13. Held(heap, grad[n]) \in Nat /\ HeldSum(n) \in Nat /\ heap[d[3]] \in Nat
       /\ H[c] = HeldSum(n) + heap[d[3]]
  <2>1. heap[d[3]] \in Nat
    BY <1>7, HeapIs
  <2>2. Held(heap, grad[n]) \in Nat
    BY <1>1, HeapIs DEF Held
  <2>3. HeldSum(n) \in Nat
    <3>1. 1 \in DOMAIN slots[n]
      <4>1. \A m \in Leaves \cup Functions : DOMAIN slots[m] = 1..Results(m) /\ Results(m) \in {1, 2}
        BY HeapIs
      <4>2. n \in Leaves \cup Functions
        BY <1>1
      <4>3. DOMAIN slots[n] = 1..Results(n) /\ Results(n) \in {1, 2}
        BY <4>1, <4>2
      <4> HIDE DEF n
      <4> QED BY <4>3
    <3>2. Held(heap, slots[n][1]) \in Nat
      BY <1>7, <3>1, HeapIs DEF Held
    <3> QED BY <1>7, <3>2 DEF HeldSum, HeldIn
  <2>4. HeldIn(H, SlotsWith(d), 1) = H[c]
    BY <1>7 DEF HeldIn, Held
  <2> QED BY <1>2, <1>7, <2>1, <2>2, <2>3, <2>4 DEF Joined
<1> HIDE DEF n, u, H, c
<1>14. /\ g \in 1..Len(heap) /\ g # Null
       /\ \A l \in Leaves \ {n} : grad'[l] = grad[l]
       /\ heap'[g] = Held(heap, grad[n]) + H[c]
       /\ \A b \in 1..Len(heap) : b # g => heap'[b] = H[b]
       /\ \A j \in DOMAIN stack \ {1} : stack[j][3] # g
       /\ \A m \in Nodes \ {n} : \A o \in DOMAIN slots[m] : slots[m][o] # Null => slots[m][o] # g
       /\ \A l \in Leaves \ {n} : grad[l] # g
  <2>1. grad \in [Leaves -> 0..Len(heap)]
    BY DEF Types
  <2>2. H[c] \in Nat
    BY <1>13
  <2>3. CASE grad[n] = Null
    <3>1. grad' = [grad EXCEPT ![n] = c] /\ heap' = H
      BY <1>1, <2>3
    <3>2. g = c /\ \A l \in Leaves \ {n} : grad'[l] = grad[l]
      BY <1>1, <2>1, <3>1
    <3>3. heap'[g] = Held(heap, grad[n]) + H[c]
      BY <2>2, <2>3, <3>1, <3>2 DEF Held
    <3> HIDE DEF g
    <3> QED BY <1>7, <1>11, <3>1, <3>2, <3>3
  <2>4. CASE grad[n] # Null
    <3>1. grad' = grad /\ heap' = [H EXCEPT ![grad[n]] = @ + H[c]]
      BY <1>1, <2>4
    <3>2. grad[n] \in 1..Len(heap) /\ g = grad[n]
      BY <1>1, <1>12, <2>4, <3>1
    <3>3. H[grad[n]] = heap[grad[n]] /\ Held(heap, grad[n]) = heap[grad[n]]
      BY <1>1, <1>2, <2>4 DEF Kept, H, Held
    <3>4. DOMAIN H = 1..Len(heap)
      BY <1>7
    <3>5. heap'[g] = Held(heap, grad[n]) + H[c]
      BY <3>1, <3>2, <3>3, <3>4
    <3>6. \A b \in 1..Len(heap) : b # g => heap'[b] = H[b]
      BY <3>1, <3>2, <3>4
    <3> HIDE DEF g
    <3>7. /\ \A j \in DOMAIN stack \ {1} : stack[j][3] # g
          /\ \A m \in Nodes \ {n} : \A o \in DOMAIN slots[m] : slots[m][o] # Null => slots[m][o] # g
      BY <1>1, <1>12, <3>2
    <3>8. \A l \in Leaves \ {n} : grad[l] # g
      BY <1>1, <1>12, <2>4, <3>2
    <3> QED BY <2>4, <3>1, <3>2, <3>5, <3>6, <3>7, <3>8
  <2> QED BY <2>3, <2>4
<1> HIDE DEF g
<1>15. \A m \in Leaves \cup Functions : m # n => HeldSum(m)' = HeldSum(m)
  <2>1. ASSUME NEW m \in Leaves \cup Functions, m # n PROVE HeldSum(m)' = HeldSum(m)
    <3>1. DOMAIN slots[m] = 1..Results(m) /\ Results(m) \in {1, 2} /\ m \in Nodes \ {n}
      BY <2>1, HeapIs, FunctionsAre
    <3>2. \A o \in 1..Results(m) : slots[m][o] # Null => heap'[slots[m][o]] = heap[slots[m][o]]
      <4>1. ASSUME NEW o \in 1..Results(m), slots[m][o] # Null
            PROVE  heap'[slots[m][o]] = heap[slots[m][o]]
        <5>1. slots[m][o] \in 1..Len(heap) /\ slots[m][o] # g
          BY <1>14, <3>1, <4>1, HeapIs
        <5>2. H[slots[m][o]] = heap[slots[m][o]]
          BY <1>2, <3>1, <4>1 DEF Kept, n, H
        <5> QED BY <1>14, <5>1, <5>2
      <4> QED BY <4>1
    <3>3. HeldIn(heap', slots[m], Results(m)) = HeldIn(heap, slots[m], Results(m))
      BY <3>1, <3>2, SameHeld
    <3> QED BY <1>3, <1>8, <3>1, <3>3 DEF HeldSum
  <2> QED BY <2>1
<1>16. \A l \in Leaves : l # n => Held(heap', grad'[l]) = Held(heap, grad[l])
  <2>1. ASSUME NEW l \in Leaves, l # n, grad[l] # Null PROVE heap'[grad[l]] = heap[grad[l]]
    <3>1. grad[l] \in 1..Len(heap) /\ grad[l] # g
      BY <1>12, <1>14, <2>1
    <3>2. H[grad[l]] = heap[grad[l]]
      BY <1>2, <2>1 DEF Kept, H
    <3> QED BY <1>14, <3>1, <3>2
  <2> QED BY <1>14, <2>1 DEF Held
<1>17. HeldSum(n)' = 0
  BY <1>3, <1>7, <1>8 DEF HeldSum, HeldIn, Held
<1>18. StackValues(t)'
  <2>1. ASSUME NEW j \in DOMAIN stack' PROVE heap'[stack'[j][3]] = given'[t[j][1]]
    <3>1. PICK i : i = j + 1
      OBVIOUS
    <3>2. i \in DOMAIN stack \ {1} /\ stack'[j] = stack[i] /\ t[j] = uses[i]
      BY <1>9, <3>1 DEF Below
    <3>3. heap[stack[i][3]] = given[uses[i][1]]
      BY <3>2 DEF Right, Values, StackValues
    <3>4. H[stack[i][3]] = heap[stack[i][3]]
      BY <1>2, <3>2 DEF Kept, H
    <3>5. heap'[stack[i][3]] = H[stack[i][3]]
      BY <1>14, <3>2, HeapIs
    <3> QED BY <1>1, <3>2, <3>3, <3>4, <3>5
  <2> QED BY <1>4, <2>1 DEF StackValues
<1>19. FunctionValues(t)'
  <2>1. ASSUME NEW m \in Functions, given[m] = 0 PROVE HeldSum(m)' = SumOver(given, Arrived(t, m)')
    BY <1>6, <1>7, <1>15, <2>1 DEF Right, Values, FunctionValues
  <2> QED BY <1>1, <1>3, <2>1 DEF FunctionValues
<1>20. LeafValues(t)'
  <2>1. ASSUME NEW l \in Leaves
        PROVE  Held(heap', grad'[l]) + HeldSum(l)' = SumOver(given, Arrived(t, l)')
    <3>1. Held(heap, grad[l]) + HeldSum(l) = SumOver(given, Arrived(uses, l))
      BY DEF Right, Values, LeafValues
    <3>2. CASE l = n
      <4>1. Held(heap', grad'[n]) = Held(heap, grad[n]) + H[c]
        BY <1>14 DEF Held, g
      <4>2. SumOver(given, Arrived(t, n)') = SumOver(given, Arrived(uses, n)) + heap[d[3]]
        BY <1>6
      <4> DEFINE a == Held(heap, grad[n])
                 b == HeldSum(n)
                 e == heap[d[3]]
      <4>3. a \in Nat /\ b \in Nat /\ e \in Nat /\ H[c] = b + e
        BY <1>13
      <4>4. a + b = SumOver(given, Arrived(uses, n))
        BY <3>1, <3>2
      <4> HIDE DEF a, b, e
      <4>5. (a + (b + e)) + 0 = (a + b) + e
        BY <4>3
      <4> QED BY <1>17, <3>2, <4>1, <4>2, <4>3, <4>4, <4>5 DEF a, e
    <3>3. CASE l # n
      BY <1>6, <1>15, <1>16, <3>1, <3>3
    <3> QED BY <3>2, <3>3
  <2> QED BY <1>1, <2>1 DEF LeafValues
<1>21. GivenValues'
  BY <1>1, <1>3 DEF GivenValues, Right, Values
<1>22. SlotsOwned'
  <2>1. \A m \in Nodes : \A o \in DOMAIN slots'[m] :
           slots'[m][o] # Null => m # n /\ slots'[m] = slots[m]
    BY <1>8
  <2>2. \A p, m \in Nodes : \A o \in DOMAIN slots'[p], r \in DOMAIN slots'[m] :
           slots'[p][o] = slots'[m][r] /\ slots'[p][o] # Null => p = m /\ o = r
    BY <2>1 DEF Right, Owned, SlotsOwned
  <2>3. ASSUME NEW l \in Leaves, NEW m \in Nodes, NEW o \in DOMAIN slots'[m], slots'[m][o] # Null
        PROVE  slots'[m][o] # grad'[l]
    <3>1. m \in Nodes \ {n} /\ slots'[m] = slots[m]
      BY <2>1, <2>3
    <3>2. CASE l = n
      BY <1>14, <2>3, <3>1, <3>2 DEF g
    <3>3. CASE l # n
      BY <1>12, <1>14, <2>3, <3>1, <3>3
    <3> QED BY <3>2, <3>3
  <2>4. ASSUME NEW l \in Leaves, NEW m \in Leaves, grad'[l] = grad'[m], grad'[l] # Null PROVE l = m
    <3>1. CASE l = n
      BY <1>14, <2>4, <3>1 DEF g
    <3>2. CASE m = n
      BY <1>14, <2>4, <3>2 DEF g
    <3>3. CASE l # n /\ m # n
      BY <1>14, <2>4, <3>3 DEF Right, Owned, SlotsOwned
    <3> QED BY <3>1, <3>2, <3>3
  <2> QED BY <2>2, <2>3, <2>4 DEF SlotsOwned
<1>23. StackOwned(t)'
  <2>1. ASSUME NEW j \in DOMAIN stack', NEW l \in Leaves PROVE stack'[j][3] # grad'[l]
    <3>1. PICK i \in DOMAIN stack \ {1} : stack'[j] = stack[i]
      BY <1>9 DEF Below
    <3>2. CASE l = n
      BY <1>14, <3>1, <3>2 DEF g
    <3>3. CASE l # n
      BY <1>12, <1>14, <3>1, <3>3
    <3> QED BY <3>2, <3>3
  <2>2. ASSUME NEW i \in DOMAIN stack', NEW j \in DOMAIN stack', i < j
        PROVE  stack'[i][3] # stack'[j][3]
    <3>1. PICK p, q : p = i + 1 /\ q = j + 1
      OBVIOUS
    <3>2. p \in DOMAIN stack \ {1} /\ q \in DOMAIN stack /\ stack'[i] = stack[p] /\ stack'[j] = stack[q]
      BY <1>9, <3>1 DEF Below
    <3>3. p < q
      BY <1>9, <2>2, <3>1 DEF Below
    <3> QED BY <3>2, <3>3 DEF Right, Owned, StackOwned
  <2>3. ASSUME NEW j \in DOMAIN stack', NEW m \in Nodes, NEW o \in DOMAIN slots'[m]
        PROVE  stack'[j][3] # slots'[m][o]
    <3>1. PICK i \in DOMAIN stack \ {1} : stack'[j] = stack[i]
      BY <1>9 DEF Below
    <3>2. CASE m = n
      <4>1. slots'[m][o] = Null /\ stack[i][3] \in 1..Len(heap)
        BY <1>8, <2>3, <3>1, <3>2, HeapIs
      <4> QED BY <3>1, <4>1 DEF Null
    <3>3. CASE m # n
      BY <1>8, <2>3, <3>1, <3>3 DEF Right, Owned, StackOwned
    <3> QED BY <3>2, <3>3
  <2> QED BY <1>4, <2>1, <2>2, <2>3 DEF StackOwned
<1>24. ResidualInv'
  BY <1>1, SameResidual DEF Right
<1> QED BY <1>18, <1>19, <1>20, <1>21, <1>22, <1>23, <1>24 DEF Right, Values, Owned

(* A function passes on the sum of what it holds.                          *)
LEMMA RunRight ==
    ASSUME Types, GraphInv, StartInv, stack # <<>>, NEW d, d = Head(stack),
           NEW v, NEW edges, RunEffect(d, v, edges),
           NEW uses, Right(uses), HeadFacts(d, uses),
           NEW t, t = RunUses(d[1], edges, uses), Lists(t)', Counts(t)', ~Starting',
           \A m \in Leaves \cup Functions : m # d[1] => Arrived(t, m)' = Arrived(uses, m)
    PROVE  Right(t)'
<1> DEFINE n == d[1]
           u == uses[1]
           H == HeapWith(d)
           S == SlotsWith(d)
           R == Results(n)
           k == Len(edges)
           shares == SharesGradient(Fn(n).kind)
<1>1. /\ Fires(d) /\ n \notin Leaves /\ given' = [given EXCEPT ![n] = v]
      /\ slots' = [slots EXCEPT ![n] = [o \in 1..R |-> Null]]
      /\ heap' = IF shares THEN H ELSE H \o [i \in DOMAIN Fn(n).inputs |-> v]
      /\ graph' = graph /\ grad' = grad /\ v \in Nat \ {0}
      /\ v = IF R = 2 THEN H[S[1]] + H[S[2]] ELSE H[S[1]]
      /\ InOrder(n, edges)
      /\ \A o \in 1..R : S[o] \in 1..Len(heap)
  BY DEF RunEffect
<1>2. Kept(d) /\ Joined(d) /\ OwnSlots(d, uses) /\ ReceiveFacts(d)
  BY Delivered, Received
<1>3. /\ Functions' = Functions /\ Sinks' = Sinks
      /\ \A m : Uses(m)' = Uses(m) /\ Results(m)' = Results(m) /\ Fn(m)' = Fn(m)
  BY <1>1, SameGraph
<1>4. RunStack(d, edges, uses, t)
  BY RunStackIs DEF Right
<1>5. /\ n \in Functions /\ n \in Nodes /\ R \in {1, 2} /\ d[3] \in 1..Len(heap) /\ given[n] = 0
      /\ H \in Seq(Nat \ {0}) /\ Len(H) = Len(heap) /\ Len(heap) \in Nat /\ heap[d[3]] \in Nat
  BY <1>1, <1>2, HeapIs DEF HeadFacts, ReceiveFacts
<1>6. /\ slots'[n] = [o \in 1..R |-> Null] /\ \A m \in Nodes \ {n} : slots'[m] = slots[m]
      /\ given'[n] = v /\ \A m \in Nodes \ {n} : given'[m] = given[m]
  <2>1. DOMAIN slots = Nodes /\ DOMAIN given = Nodes
    BY DEF Types
  <2> HIDE DEF n, R
  <2> QED BY <1>1, <1>5, <2>1
<1>7. v = HeldSum(n) + heap[d[3]]
  <2>1. HeldIn(H, S, R) = HeldSum(n) + heap[d[3]]
    BY <1>2 DEF Joined
  <2>2. \A o \in 1..R : S[o] # Null
    <3>1. (\A o \in 1..R : S[o] \in 1..Len(heap)) /\ Len(heap) \in Nat
      BY <1>1, <1>5
    <3> HIDE DEF S, R
    <3> QED BY <3>1 DEF Null
  <2>3. S[1] # Null /\ (R = 2 => S[2] # Null)
    BY <1>5, <2>2
  <2> HIDE DEF R, S, H
  <2>4. HeldIn(H, S, R) = v
    BY <1>1, <2>3, Zenon DEF HeldIn, Held
  <2> QED BY <2>1, <2>4
<1>8. /\ k \in {1, 2} /\ DOMAIN stack' = DOMAIN t /\ DOMAIN t = 1..Len(t) /\ Len(t) \in Nat
      /\ \A j \in 1..k : /\ edges[j] \in LiveEdges(n) /\ t[j] = <<n, edges[j]>>
                         /\ stack'[j][3] = Buffer(d, edges[j])
      /\ k <= Len(t)
  <2>1. /\ k \in {1, 2} /\ DOMAIN stack' = DOMAIN t /\ DOMAIN t = 1..Len(t) /\ Len(t) \in Nat
        /\ Len(t) = k + Len(stack) - 1 /\ Len(stack) \in Nat \ {0}
    BY <1>4 DEF RunStack
  <2>2. ASSUME NEW j \in 1..k
        PROVE  edges[j] \in LiveEdges(n) /\ t[j] = <<n, edges[j]>> /\ stack'[j][3] = Buffer(d, edges[j])
    <3>1. /\ edges[j] \in LiveEdges(n) /\ t[j] = <<n, edges[j]>>
          /\ stack'[j] = <<Fn(n).inputs[edges[j]][1], Fn(n).inputs[edges[j]][2], Buffer(d, edges[j])>>
      BY <1>4, Zenon DEF RunStack
    <3> QED BY <3>1
  <2> HIDE DEF k
  <2> QED BY <2>1, <2>2
<1>9. ASSUME NEW j \in DOMAIN stack', j \notin 1..k, NEW i, i = j - k + 1
      PROVE  /\ i \in DOMAIN stack \ {1} /\ stack'[j] = stack[i] /\ t[j] = uses[i] /\ ~Starting
             /\ i \in DOMAIN uses /\ given[uses[i][1]] # 0 /\ uses[i][1] \in Nodes \ {n}
  <2>1. j \in (k + 1)..Len(t)
    <3> HIDE DEF k
    <3> QED BY <1>8, <1>9
  <2>2. i \in DOMAIN stack /\ i # 1 /\ stack'[j] = stack[i] /\ i \in DOMAIN uses /\ t[j] = uses[i]
    BY <1>4, <1>9, <2>1, Zenon DEF RunStack
  <2>3. ~Starting
    <3>1. Starting => DOMAIN stack = 1..1
      BY HeapIs DEF StartInv
    <3> QED BY <2>2, <3>1
  <2>4. given[uses[i][1]] # 0
    BY <2>2 DEF Right, Lists
  <2>5. uses[i][1] \in Nodes
    <3>1. uses[i] \in Functions \X {1, 2}
      <4>1. uses \in Seq(Functions \X {1, 2})
        BY DEF Right, Lists
      <4> QED BY <2>2, <4>1
    <3> QED BY <3>1, FunctionsAre
  <2> QED BY <1>5, <2>2, <2>3, <2>4, <2>5
<1>10. /\ \A b \in 1..Len(heap) : heap'[b] = H[b]
       /\ ~shares => \A i \in DOMAIN Fn(n).inputs : heap'[Len(heap) + i] = v
  <2>1. CASE shares
    BY <1>1, <2>1
  <2>2. CASE ~shares
    <3> DEFINE a == [i \in DOMAIN Fn(n).inputs |-> v]
    <3>1. PICK p \in Nat : DOMAIN Fn(n).inputs = 1..p
      BY <1>5, FunctionsAre
    <3>2. a \in [1..p -> Nat \ {0}]
      BY <1>1, <3>1
    <3>3. a \in Seq(Nat \ {0}) /\ Len(a) = p
      BY <3>1, <3>2, FunctionSeq, Zenon
    <3>4. heap' = H \o a
      BY <1>1, <2>2
    <3>5. \A i \in 1..p : a[i] = v
      BY <3>1
    <3> HIDE DEF a, H
    <3>6. Concatenated(heap', H, a, Nat \ {0})
      BY <1>5, <3>3, <3>4, ConcatIs
    <3>7. (\A b \in 1..Len(heap) : heap'[b] = H[b]) /\ \A i \in 1..p : heap'[Len(heap) + i] = a[i]
      BY <1>5, <3>3, <3>6, Zenon DEF Concatenated
    <3> QED BY <3>1, <3>5, <3>7
  <2> QED BY <2>1, <2>2
<1>11. \A i \in LiveEdges(n) : i \in DOMAIN Fn(n).inputs /\ i \in {1, 2}
  BY <1>5, UsesAre DEF LiveEdges
<1>12. shares => R = 1
  BY <1>5 DEF SharesGradient, Results, Outputs
<1>13. /\ ~Starting => ~ToBranch(u) \/ ~shares
       /\ \A j \in DOMAIN stack \ {1}, o \in 1..R : S[o] # stack[j][3]
  <2>1. ~Starting => ~ToBranch(u) \/ ~shares
    BY BranchAlone DEF Right, Values, SharesGradient
  <2>2. ASSUME NEW j \in DOMAIN stack \ {1}, NEW o \in 1..R, S[o] = stack[j][3] PROVE FALSE
    <3>1. ~Starting /\ j = 2 /\ ToBranch(uses[2]) /\ uses[1] = <<uses[2][1], 1>>
      BY <1>2, <2>2 DEF OwnSlots
    <3>2. 2 \in DOMAIN uses
      <4>1. uses \in Seq(Functions \X {1, 2}) /\ Len(uses) = Len(stack)
        BY <3>1 DEF Right, Lists
      <4>2. DOMAIN uses = DOMAIN stack
        BY <4>1, HeapIs
      <4> QED BY <3>1, <4>2
    <3> QED BY <1>1, <3>1, <3>2, InputWaits DEF Right
  <2> QED BY <2>1, <2>2
<1>14. ASSUME NEW j \in 1..k, shares PROVE stack'[j][3] = S[1] /\ S[1] \in 1..Len(heap) /\ S[1] # Null
  <2>1. Buffer(d, edges[j]) = S[1]
    BY <1>14 DEF Buffer
  <2>2. S[1] \in 1..Len(heap)
    <3>1. 1 \in 1..R
      BY <1>5
    <3> HIDE DEF S, R
    <3> QED BY <1>1, <3>1
  <2>3. stack'[j][3] = Buffer(d, edges[j])
    BY <1>8
  <2> QED BY <2>1, <2>2, <2>3, HeapIs DEF Null
<1>15. ASSUME NEW j \in 1..k, ~shares
       PROVE stack'[j][3] = Len(heap) + edges[j] /\ edges[j] \in {1, 2} /\ edges[j] \in DOMAIN Fn(n).inputs
  <2>1. Buffer(d, edges[j]) = Len(heap) + edges[j]
    BY <1>15 DEF Buffer
  <2>2. stack'[j][3] = Buffer(d, edges[j])
    BY <1>8
  <2>3. edges[j] \in LiveEdges(n)
    BY <1>8
  <2> QED BY <1>11, <2>1, <2>2, <2>3
<1> HIDE DEF n, u, H, S, R, k, shares
<1>16. ASSUME NEW m, NEW A, A \subseteq Uses(m), \A e \in A : given[e[1]] # 0
       PROVE  SumOver(given', A) = SumOver(given, A)
  <2>1. \A e \in A : e[1] \in Nodes \ {n}
    <3>1. \A e \in A : e[1] \in Functions
      BY <1>16, GivenIs
    <3> QED BY <1>5, <1>16, <3>1, FunctionsAre
  <2>2. \A e \in A : given'[e[1]] = given[e[1]]
    BY <1>6, <2>1
  <2> QED BY <2>2, SumSame
<1>17. \A m : \A e \in Arrived(uses, m) : given[e[1]] # 0
  BY DEF Arrived, Outstanding
<1>18. ASSUME NEW m \in Leaves \cup Functions, m # n
       PROVE  HeldSum(m)' = HeldSum(m)
              /\ SumOver(given', Arrived(t, m)') = SumOver(given, Arrived(uses, m))
  <2>1. DOMAIN slots[m] = 1..Results(m) /\ Results(m) \in {1, 2} /\ m \in Nodes \ {n}
    BY <1>18, HeapIs, FunctionsAre
  <2>2. ASSUME NEW o \in 1..Results(m), slots[m][o] # Null
        PROVE  heap'[slots[m][o]] = heap[slots[m][o]]
    <3>1. slots[m][o] \in 1..Len(heap)
      BY <2>1, <2>2, HeapIs
    <3>2. H[slots[m][o]] = heap[slots[m][o]]
      BY <1>2, <2>1, <2>2 DEF Kept, n, H
    <3> QED BY <1>10, <3>1, <3>2
  <2>3. HeldIn(heap', slots[m], Results(m)) = HeldIn(heap, slots[m], Results(m))
    BY <2>1, <2>2, SameHeld
  <2>4. Arrived(t, m)' = Arrived(uses, m) /\ Arrived(uses, m) \subseteq Uses(m)
    BY <1>18, GivenIs DEF n
  <2>5. SumOver(given', Arrived(uses, m)) = SumOver(given, Arrived(uses, m))
    BY <1>16, <1>17, <2>4
  <2> QED BY <1>3, <1>6, <2>1, <2>3, <2>4, <2>5 DEF HeldSum
<1>19. \A l \in Leaves : Held(heap', grad'[l]) = Held(heap, grad[l])
  <2>1. ASSUME NEW l \in Leaves, grad[l] # Null PROVE heap'[grad[l]] = heap[grad[l]]
    <3>1. grad[l] \in 1..Len(heap) /\ H[grad[l]] = heap[grad[l]]
      BY <1>2, <2>1, HeapIs DEF Kept, H
    <3> QED BY <1>10, <3>1
  <2> QED BY <1>1, <2>1 DEF Held

<1>20. StackValues(t)'
  <2>1. ASSUME NEW j \in DOMAIN stack' PROVE heap'[stack'[j][3]] = given'[t[j][1]]
    <3>1. CASE j \in 1..k
      <4>1. given'[t[j][1]] = v
        BY <1>6, <1>8, <3>1
      <4>2. CASE shares
        <5>1. v = H[S[1]]
          BY <1>1, <1>12, <4>2
        <5> QED BY <1>10, <1>14, <3>1, <4>1, <4>2, <5>1
      <4>3. CASE ~shares
        BY <1>10, <1>15, <3>1, <4>1, <4>3
      <4> QED BY <4>2, <4>3
    <3>2. CASE j \notin 1..k
      <4>1. PICK i : i = j - k + 1
        OBVIOUS
      <4>2. /\ i \in DOMAIN stack \ {1} /\ stack'[j] = stack[i] /\ t[j] = uses[i] /\ ~Starting
            /\ uses[i][1] \in Nodes \ {n}
        BY <1>9, <3>2, <4>1
      <4>3. heap[stack[i][3]] = given[uses[i][1]]
        BY <4>2 DEF Right, Values, StackValues
      <4>4. H[stack[i][3]] = heap[stack[i][3]] /\ stack[i][3] \in 1..Len(heap)
        BY <1>2, <4>2, HeapIs DEF Kept, H
      <4> QED BY <1>6, <1>10, <4>2, <4>3, <4>4
    <3> QED BY <3>1, <3>2
  <2> QED BY <2>1 DEF StackValues
<1>21. FunctionValues(t)'
  <2>1. ASSUME NEW m \in Functions, given'[m] = 0 PROVE HeldSum(m)' = SumOver(given', Arrived(t, m)')
    <3>1. m # n
      BY <1>1, <1>6, <2>1
    <3>2. given[m] = 0
      BY <1>6, <2>1, <3>1, FunctionsAre
    <3>3. HeldSum(m) = SumOver(given, Arrived(uses, m))
      BY <3>2 DEF Right, Values, FunctionValues
    <3> QED BY <1>18, <3>1, <3>3
  <2> QED BY <1>3, <2>1 DEF FunctionValues
<1>22. LeafValues(t)'
  <2>1. ASSUME NEW l \in Leaves
        PROVE  Held(heap', grad'[l]) + HeldSum(l)' = SumOver(given', Arrived(t, l)')
    <3>1. l # n
      BY <1>1
    <3>2. Held(heap, grad[l]) + HeldSum(l) = SumOver(given, Arrived(uses, l))
      BY DEF Right, Values, LeafValues
    <3> QED BY <1>18, <1>19, <3>1, <3>2
  <2> QED BY <2>1 DEF LeafValues
<1>23. v = IF n \in Sinks THEN 1 ELSE SumOver(given, Uses(n))
  <2>1. HeldSum(n) = SumOver(given, Arrived(uses, n))
    BY <1>5 DEF Right, Values, FunctionValues
  <2>2. Outstanding(uses, n) \ {u} = {}
    BY <1>1, LastFires DEF Right, n, u
  <2>3. CASE Starting
    <3>1. n \in Sinks /\ Arrived(uses, n) = {}
      BY <2>3 DEF HeadFacts, Arrived, n
    <3>2. heap[d[3]] = 1
      <4>1. 1 \in DOMAIN stack /\ d = stack[1]
        <5>1. Len(stack) \in Nat \ {0} /\ DOMAIN stack = 1..Len(stack)
          BY HeapIs DEF HeadFacts
        <5> QED BY <5>1 DEF HeadFacts
      <4> QED BY <2>3, <4>1 DEF Right, Values, StackValues
    <3>3. SumOver(given, {}) = 0
      BY SumIs, FS_EmptySet
    <3> QED BY <1>7, <2>1, <3>1, <3>2, <3>3
  <2>4. CASE ~Starting
    <3>1. n \notin Sinks
      BY <2>4 DEF HeadFacts, n
    <3>2. /\ Uses(n) \ (Outstanding(uses, n) \ {u}) = Arrived(uses, n) \cup {u}
          /\ SumOver(given, Arrived(uses, n) \cup {u}) = SumOver(given, Arrived(uses, n)) + heap[d[3]]
      BY <2>4, DeliverySum DEF n, u
    <3>3. Uses(n) = Arrived(uses, n) \cup {u}
      BY <2>2, <3>2
    <3> QED BY <1>7, <2>1, <3>1, <3>2, <3>3
  <2> QED BY <2>3, <2>4
<1>24. GivenValues'
  <2>1. ASSUME NEW m \in Functions, given'[m] # 0
        PROVE  given'[m] = IF m \in Sinks THEN 1 ELSE SumOver(given', Uses(m))
    <3>1. \A e \in Uses(m) : given[e[1]] # 0
      <4>1. CASE m = n
        <5>1. Outstanding(uses, n) \ {u} = {}
          BY <1>1, LastFires DEF Right, n, u
        <5>2. ~Starting => given[u[1]] # 0
          BY HeadUse DEF u
        <5>3. Starting => Uses(n) = {}
          BY DEF HeadFacts, n
        <5> QED BY <4>1, <5>1, <5>2, <5>3 DEF Outstanding
      <4>2. CASE m # n
        <5>1. given[m] # 0
          BY <1>6, <2>1, <4>2, FunctionsAre
        <5>2. Outstanding(uses, m) = {}
          BY <5>1 DEF Right, Counts
        <5> QED BY <5>2 DEF Outstanding
      <4> QED BY <4>1, <4>2
    <3>2. SumOver(given', Uses(m)) = SumOver(given, Uses(m))
      BY <1>16, <3>1
    <3>3. CASE m = n
      BY <1>6, <1>23, <3>2, <3>3
    <3>4. CASE m # n
      <4>1. given'[m] = given[m]
        BY <1>6, <3>4, FunctionsAre
      <4> QED BY <2>1, <3>2, <4>1 DEF Right, Values, GivenValues
    <3> QED BY <3>3, <3>4
  <2> QED BY <1>3, <2>1 DEF GivenValues
<1>25. \A m \in Nodes : \A o \in DOMAIN slots'[m] :
           slots'[m][o] # Null => m # n /\ slots'[m] = slots[m]
  <2>1. \A o \in DOMAIN slots'[n] : slots'[n][o] = Null
    BY <1>6
  <2> QED BY <1>6, <2>1
<1>26. SlotsOwned'
  <2>1. \A p, m \in Nodes : \A o \in DOMAIN slots'[p], r \in DOMAIN slots'[m] :
           slots'[p][o] = slots'[m][r] /\ slots'[p][o] # Null => p = m /\ o = r
    BY <1>25 DEF Right, Owned, SlotsOwned
  <2>2. \A l \in Leaves, m \in Nodes : \A o \in DOMAIN slots'[m] :
           slots'[m][o] # Null => slots'[m][o] # grad[l]
    BY <1>25 DEF Right, Owned, SlotsOwned
  <2>3. \A l, m \in Leaves : grad[l] = grad[m] /\ grad[l] # Null => l = m
    BY DEF Right, Owned, SlotsOwned
  <2> QED BY <1>1, <2>1, <2>2, <2>3 DEF SlotsOwned
<1>27. StackOwned(t)'
  <2>1. ASSUME NEW j \in DOMAIN stack', NEW l \in Leaves PROVE stack'[j][3] # grad[l]
    <3>1. CASE j \in 1..k /\ shares
      <4>1. \A o \in 1..R : S[o] # Null => S[o] # grad[l]
        BY <1>2 DEF OwnSlots, S, R, n
      <4> QED BY <1>5, <1>14, <3>1, <4>1
    <3>2. CASE j \in 1..k /\ ~shares
      <4>1. stack'[j][3] > Len(heap)
        BY <1>5, <1>15, <3>2
      <4>2. grad[l] \in 0..Len(heap)
        BY HeapIs
      <4> QED BY <1>5, <4>1, <4>2
    <3>3. CASE j \notin 1..k
      <4>1. PICK i : i = j - k + 1
        OBVIOUS
      <4>2. i \in DOMAIN stack /\ stack'[j] = stack[i]
        BY <1>9, <3>3, <4>1
      <4> QED BY <4>2 DEF Right, Owned, StackOwned
    <3> QED BY <3>1, <3>2, <3>3
  <2>2. ASSUME NEW i \in DOMAIN stack', NEW j \in DOMAIN stack', i < j, stack'[i][3] = stack'[j][3]
        PROVE  i = 1 /\ j = 2 /\ ToBranch(t[2]) /\ t[1] = <<t[2][1], 1>>
    <3>1. CASE i \in 1..k /\ j \in 1..k
      <4>1. i = 1 /\ j = 2 /\ k = 2
        BY <1>8, <2>2, <3>1
      <4>2. edges[1] \in {1, 2} /\ edges[2] \in {1, 2} /\ edges[1] # edges[2]
        <5>1. 1 \in DOMAIN edges /\ 2 \in DOMAIN edges
          BY <1>1, <4>1 DEF InOrder, k
        <5> QED BY <1>8, <1>11, <1>1, <3>1, <4>1, <5>1 DEF InOrder
      <4>3. shares
        <5> SUFFICES ASSUME ~shares PROVE FALSE
          OBVIOUS
        <5>1. stack'[1][3] = Len(heap) + edges[1] /\ stack'[2][3] = Len(heap) + edges[2]
          BY <1>15, <3>1, <4>1
        <5> QED BY <1>5, <2>2, <4>1, <4>2, <5>1
      <4>4. Fn(n).kind = "add"
        <5>1. {edges[1], edges[2]} \subseteq DOMAIN Fn(n).inputs
          BY <1>8, <1>11, <3>1, <4>1
        <5>2. 2 \in DOMAIN Fn(n).inputs
          BY <4>2, <5>1
        <5>3. Len(Fn(n).inputs) # 1
          BY <1>5, <5>2, FunctionsAre
        <5> QED BY <1>5, <4>3, <5>3 DEF GraphInv, shares, SharesGradient
      <4>5. edges[1] = 1 /\ edges[2] = 2
        <5>1. 1 \in DOMAIN edges /\ 2 \in DOMAIN edges
          BY <1>1, <4>1 DEF InOrder, k
        <5>2. ServedBefore(n, edges[1], edges[2])
          BY <1>1, <5>1 DEF InOrder
        <5>3. Fn(n).inputs[2][1] \in Functions
          BY <1>5, <4>4 DEF Right, ResidualInv
        <5>4. Fn(n).inputs[2][1] \notin Leaves
          BY <5>3, FunctionsAre
        <5>5. ~ServedBefore(n, 2, 1)
          BY <5>4 DEF ServedBefore
        <5>6. edges[1] = 2 /\ edges[2] = 1 => ServedBefore(n, 2, 1)
          BY <5>2
        <5> QED BY <4>2, <5>5, <5>6
      <4>6. t[1] = <<n, 1>> /\ t[2] = <<n, 2>>
        BY <1>8, <3>1, <4>1, <4>5
      <4> QED BY <4>1, <4>4, <4>6 DEF ToBranch
    <3>2. CASE i \in 1..k /\ j \notin 1..k
      <4>1. PICK q : q = j - k + 1
        OBVIOUS
      <4>2. q \in DOMAIN stack \ {1} /\ stack'[j] = stack[q]
        BY <1>9, <3>2, <4>1
      <4>3. stack[q][3] \in 1..Len(heap)
        BY <4>2, HeapIs
      <4>4. CASE shares
        <5>1. 1 \in 1..R /\ stack'[i][3] = S[1]
          BY <1>5, <1>14, <3>2, <4>4
        <5> QED BY <1>13, <2>2, <4>2, <5>1
      <4>5. CASE ~shares
        <5>1. stack'[i][3] = Len(heap) + edges[i] /\ edges[i] \in {1, 2}
          BY <1>15, <3>2, <4>5
        <5>2. PICK h : h = Len(heap)
          OBVIOUS
        <5>3. PICK x, y : x = stack'[i][3] /\ y = stack[q][3]
          OBVIOUS
        <5>4. h \in Nat /\ x \in {h + 1, h + 2} /\ y \in 1..h
          BY <1>5, <4>3, <5>1, <5>2, <5>3
        <5>5. x = y
          BY <2>2, <4>2, <5>3
        <5> QED BY <5>4, <5>5
      <4> QED BY <4>4, <4>5
    <3>3. CASE i \notin 1..k
      <4>1. i \in Nat /\ j \in Nat /\ k \in Nat /\ j \notin 1..k
        BY <1>8, <2>2, <3>3
      <4>2. PICK p, q : p = i - k + 1 /\ q = j - k + 1
        OBVIOUS
      <4>3. p \in DOMAIN stack \ {1} /\ stack'[i] = stack[p]
        BY <1>9, <3>3, <4>2
      <4>4. q \in DOMAIN stack \ {1} /\ stack'[j] = stack[q]
        BY <1>9, <4>1, <4>2
      <4>5. p < q
        BY <2>2, <4>1, <4>2
      <4> QED BY <2>2, <4>3, <4>4, <4>5 DEF Right, Owned, StackOwned
    <3> QED BY <3>1, <3>2, <3>3
  <2>3. ASSUME NEW j \in DOMAIN stack', NEW m \in Nodes, NEW o \in DOMAIN slots'[m]
        PROVE  stack'[j][3] # slots'[m][o]
    <3> SUFFICES ASSUME stack'[j][3] = slots'[m][o] PROVE FALSE
      OBVIOUS
    <3>1. CASE slots'[m][o] = Null
      <4>1. CASE j \in 1..k /\ shares
        BY <1>14, <3>1, <4>1
      <4>2. CASE j \in 1..k /\ ~shares
        <5>1. stack'[j][3] = Len(heap) + edges[j] /\ edges[j] \in {1, 2}
          BY <1>15, <4>2
        <5>2. PICK h, e : h = Len(heap) /\ e = edges[j]
          OBVIOUS
        <5>3. h \in Nat /\ e \in {1, 2} /\ h + e = 0
          BY <1>5, <3>1, <5>1, <5>2 DEF Null
        <5> QED BY <5>3
      <4>3. CASE j \notin 1..k
        <5>1. PICK i : i = j - k + 1
          OBVIOUS
        <5>2. i \in DOMAIN stack /\ stack'[j] = stack[i]
          BY <1>9, <4>3, <5>1
        <5> QED BY <3>1, <5>2, HeapIs DEF Null
      <4> QED BY <4>1, <4>2, <4>3
    <3>2. CASE slots'[m][o] # Null
      <4>1. m \in Nodes \ {n} /\ slots'[m] = slots[m] /\ slots[m][o] \in 1..Len(heap)
            /\ o \in DOMAIN slots[m]
        BY <1>25, <3>2, HeapIs
      <4>2. CASE j \in 1..k /\ shares
        <5>1. S[1] = slots[m][o] /\ S[1] # Null /\ 1 \in 1..R
          BY <1>5, <1>14, <4>1, <4>2
        <5>2. ~Starting /\ ToBranch(u)
          BY <1>2, <4>1, <5>1 DEF OwnSlots, S, R, n, u
        <5> QED BY <1>13, <4>2, <5>2
      <4>3. CASE j \in 1..k /\ ~shares
        <5>1. stack'[j][3] = Len(heap) + edges[j] /\ edges[j] \in {1, 2}
          BY <1>15, <4>3
        <5>2. PICK h : h = Len(heap)
          OBVIOUS
        <5>3. PICK x, y : x = stack'[j][3] /\ y = slots[m][o]
          OBVIOUS
        <5>4. h \in Nat /\ x \in {h + 1, h + 2} /\ y \in 1..h
          BY <1>5, <4>1, <5>1, <5>2, <5>3
        <5>5. x = y
          BY <4>1, <5>3
        <5> QED BY <5>4, <5>5
      <4>4. CASE j \notin 1..k
        <5>1. PICK i : i = j - k + 1
          OBVIOUS
        <5>2. i \in DOMAIN stack \ {1} /\ stack'[j] = stack[i]
          BY <1>9, <4>4, <5>1
        <5> QED BY <4>1, <5>2 DEF Right, Owned, StackOwned
      <4> QED BY <4>2, <4>3, <4>4
    <3> QED BY <3>1, <3>2
  <2>4. \A e : ToBranch(e)' <=> ToBranch(e)
    BY <1>3 DEF ToBranch
  <2> QED BY <1>1, <2>1, <2>2, <2>3, <2>4 DEF StackOwned
<1>28. ResidualInv'
  BY <1>1, SameResidual DEF Right
<1> QED BY <1>20, <1>21, <1>22, <1>24, <1>26, <1>27, <1>28 DEF Right, Values, Owned


-----------------------------------------------------------------------------
(* Applying a function leaves the gradients that have been computed right: *)
(* it uses no result that a function was run for, and no branch.           *)
LEMMA ApplyResidual ==
    ASSUME IInv, ResidualInv, ResidualOnly,
           NEW kind \in Kinds, NEW inputs \in InputsOf(kind), Apply(kind, inputs)
    PROVE  ResidualInv'
<1>0. PICK n : n = Node(Len(graph) + 1)
  OBVIOUS
<1>1. /\ n \in Nat /\ n \notin Functions /\ Functions' = Functions \cup {n}
      /\ \A m \in Functions : Fn(m)' = Fn(m) /\ m < n
      /\ Fn(n)' = [kind |-> kind, inputs |-> inputs]
  BY <1>0, ApplyFacts
<1>2. \A m : Uses(m)' = Uses(m) \cup NewUses(n, inputs, m)
  BY <1>0, ApplyUses
<1>3. Types /\ GraphInv
  BY DEF IInv
<1>4. /\ DOMAIN inputs = 1..Len(inputs) /\ (kind = "add" => Len(inputs) = 2)
      /\ \A i \in DOMAIN inputs : inputs[i] \in Tensors
  BY <1>3, InputsAre
<1>5. ASSUME NEW y \in Functions, NEW x, ComputedFrom(y, x) PROVE ComputedFrom(y, x)'
  <2>1. ASSUME NEW S \in SUBSET (1..y), ClosedUnderInputs(S)' PROVE ClosedUnderInputs(S)
    <3>1. y \in Nat /\ y < n
      BY <1>1, <1>3, FunctionsAre
    <3>2. \A m \in S \cap Functions : m \in Functions' /\ Fn(m)' = Fn(m)
      BY <1>1
    <3>3. NoGrad' = NoGrad
      BY DEF NoGrad
    <3> QED BY <2>1, <3>2, <3>3 DEF ClosedUnderInputs
  <2> QED BY <1>5, <2>1 DEF ComputedFrom
<1>6. ASSUME NEW m \in Functions, Fn(m).kind = "add"
      PROVE  NewUses(n, inputs, Fn(m).inputs[2][1]) = {}
  <2> DEFINE y == Fn(m).inputs[2][1]
  <2>1. y \in Functions
    BY <1>6 DEF ResidualInv
  <2>2. IsBranch(y)
    BY <1>6 DEF IsBranch
  <2>3. \A j \in DOMAIN inputs : inputs[j][1] # y
    BY <1>3, <1>4, <2>1, <2>2, TensorsAre
  <2> QED BY <2>3 DEF NewUses
<1>7. ASSUME kind = "add"
      PROVE  /\ inputs[1][1] # NoGrad /\ inputs[1][1] # inputs[2][1] /\ inputs[2][1] \in Functions
             /\ Fn(inputs[2][1]).kind = "kernel" /\ Uses(inputs[2][1]) = {}
             /\ ComputedFrom(inputs[2][1], inputs[1][1])
  <2>1. IsResidual(inputs)
    BY <1>7 DEF InputsOf
  <2>2. \A y \in Functions : Consumers(y) = {} => Uses(y) = {}
    BY <1>3, UsesAre DEF Sinks
  <2> QED BY <2>1, <2>2 DEF IsResidual
<1>8. ASSUME kind = "add" PROVE NewUses(n, inputs, inputs[2][1]) = {<<n, 2>>}
  <2>1. {j \in DOMAIN inputs : inputs[j][1] = inputs[2][1]} = {2}
    BY <1>4, <1>7, <1>8
  <2> QED BY <2>1, Zenon DEF NewUses
<1>9. ASSUME NEW m \in Functions', Fn(m)'.kind = "add", NEW x, NEW y,
             x = Fn(m)'.inputs[1][1], y = Fn(m)'.inputs[2][1]
      PROVE  /\ x # NoGrad /\ x # y /\ y \in Functions'
             /\ Fn(y)'.kind = "kernel" /\ Uses(y)' = {<<m, 2>>} /\ ComputedFrom(y, x)'
  <2>1. CASE m \in Functions
    <3>1. Fn(m)' = Fn(m) /\ Fn(m).kind = "add"
      BY <1>1, <1>9, <2>1
    <3>2. /\ x # NoGrad /\ x # y /\ y \in Functions
          /\ Fn(y).kind = "kernel" /\ Uses(y) = {<<m, 2>>} /\ ComputedFrom(y, x)
      BY <1>9, <2>1, <3>1 DEF ResidualInv
    <3>3. Uses(y)' = {<<m, 2>>}
      BY <1>2, <1>6, <1>9, <2>1, <3>1, <3>2
    <3>4. y \in Functions' /\ Fn(y)'.kind = "kernel" /\ ComputedFrom(y, x)'
      BY <1>1, <1>5, <3>2
    <3> QED BY <3>2, <3>3, <3>4
  <2>2. CASE m = n
    <3>1. Fn(m)'.inputs = inputs /\ kind = "add"
      BY <1>1, <1>9, <2>2
    <3>2. /\ x # NoGrad /\ x # y /\ y \in Functions
          /\ Fn(y).kind = "kernel" /\ Uses(y) = {} /\ ComputedFrom(y, x)
      BY <1>7, <1>9, <3>1
    <3>3. Uses(y)' = {<<m, 2>>}
      BY <1>2, <1>8, <1>9, <2>2, <3>1, <3>2
    <3>4. y \in Functions' /\ Fn(y)'.kind = "kernel" /\ ComputedFrom(y, x)'
      BY <1>1, <1>5, <3>2
    <3> QED BY <3>2, <3>3, <3>4
  <2> QED BY <1>1, <1>9, <2>1, <2>2
<1> QED BY <1>9 DEF ResidualInv, NoGrad

LEMMA ApplyRight ==
    ASSUME IInv, ResidualOnly, NEW kind \in Kinds, NEW inputs \in InputsOf(kind),
           Apply(kind, inputs), NEW uses, Right(uses)
    PROVE  Right(uses)'
<1> DEFINE none == [o \in 1..Outputs(kind) |-> Null]
<1>0. PICK n : n = Node(Len(graph) + 1)
  OBVIOUS
<1>1. /\ n \in Nodes /\ n \notin Functions /\ n \notin Leaves /\ Functions' = Functions \cup {n}
      /\ \A m \in Functions : Fn(m)' = Fn(m)
      /\ Fn(n)' = [kind |-> kind, inputs |-> inputs]
      /\ \A m \in Leaves \cup Functions : Results(m)' = Results(m)
      /\ Results(n)' = Outputs(kind)
  BY <1>0, ApplyFacts
<1>2. /\ stack = <<>> /\ slots' = [slots EXCEPT ![n] = none]
      /\ given' = given /\ heap' = heap /\ grad' = grad /\ stack' = stack
  BY <1>0 DEF Apply
<1>3. /\ Lists(uses)' /\ Counts(uses)'
      /\ \A m \in Leaves \cup Functions : Arrived(uses, m)' = Arrived(uses, m)
      /\ \A m \in Functions : given[m] # 0 => Uses(m)' = Uses(m)
      /\ \A m \in Functions' \ Functions : Uses(m)' = {} /\ given'[m] = 0
  BY ApplyCounts DEF Right
<1>4. \A m \in Functions : given[m] # 0 => {j \in DOMAIN inputs : inputs[j][1] = m} = {}
  <2>1. \A m \in Functions : m \notin Leaves \cup {NoGrad}
    BY FunctionsAre DEF IInv
  <2> QED BY <1>0, <2>1, ApplyUses
<1>5. ResidualInv'
  BY ApplyResidual DEF Right
<1>6. Types
  BY DEF IInv
<1> HIDE DEF none
<1>7. slots'[n] = none /\ \A m \in Nodes \ {n} : slots'[m] = slots[m]
  BY <1>1, <1>2, <1>6 DEF Types
<1>8. Outputs(kind) \in {1, 2} /\ DOMAIN none = 1..Outputs(kind)
      /\ \A o \in DOMAIN none : none[o] = Null
  BY DEF Outputs, none
<1>9. ASSUME NEW m \in Leaves \cup Functions PROVE HeldSum(m)' = HeldSum(m)
  <2>1. m \in Nodes \ {n}
    BY <1>1, <1>6, FunctionsAre
  <2> QED BY <1>1, <1>2, <1>7, <2>1 DEF HeldSum
<1>10. StackValues(uses)' /\ StackOwned(uses)'
  <2>1. DOMAIN stack' = {}
    BY <1>2
  <2> QED BY <2>1 DEF StackValues, StackOwned
<1>11. FunctionValues(uses)'
  <2>1. ASSUME NEW m \in Functions', given'[m] = 0
        PROVE  HeldSum(m)' = SumOver(given', Arrived(uses, m)')
    <3>1. CASE m \in Functions
      <4>1. HeldSum(m) = SumOver(given, Arrived(uses, m))
        BY <1>2, <2>1, <3>1 DEF Right, Values, FunctionValues
      <4> QED BY <1>2, <1>3, <1>9, <3>1, <4>1
    <3>2. CASE m = n
      <4>1. Arrived(uses, m)' = {}
        BY <1>1, <1>3, <3>2 DEF Arrived
      <4>2. SumOver(given', {}) = 0
        BY SumIs, FS_EmptySet
      <4>3. \A o \in {1, 2} : o \in 1..Outputs(kind) => Held(heap', slots'[n][o]) = 0
        BY <1>7, <1>8 DEF Held
      <4>4. HeldSum(m)' = HeldIn(heap', slots'[n], Outputs(kind))
        BY <1>1, <3>2 DEF HeldSum
      <4>5. HeldIn(heap', slots'[n], Outputs(kind)) = 0
        <5>1. Held(heap', slots'[n][1]) = 0
          BY <1>8, <4>3
        <5>2. Outputs(kind) = 2 => Held(heap', slots'[n][2]) = 0
          BY <4>3
        <5> QED BY <5>1, <5>2 DEF HeldIn
      <4> QED BY <4>1, <4>2, <4>4, <4>5
    <3> QED BY <1>1, <2>1, <3>1, <3>2
  <2> QED BY <2>1 DEF FunctionValues
<1>12. LeafValues(uses)'
  <2>1. ASSUME NEW l \in Leaves
        PROVE  Held(heap', grad'[l]) + HeldSum(l)' = SumOver(given', Arrived(uses, l)')
    <3>1. Held(heap, grad[l]) + HeldSum(l) = SumOver(given, Arrived(uses, l))
      BY DEF Right, Values, LeafValues
    <3> QED BY <1>2, <1>3, <1>9, <3>1
  <2> QED BY <2>1 DEF LeafValues
<1>13. GivenValues'
  <2>1. ASSUME NEW m \in Functions', given'[m] # 0
        PROVE  given'[m] = IF m \in Sinks' THEN 1 ELSE SumOver(given', Uses(m)')
    <3>1. m \in Functions /\ given[m] # 0
      BY <1>1, <1>2, <1>3, <2>1
    <3>2. Consumers(m)' = Consumers(m)
      <4>1. \A k \in Functions : Edges(k, m)' = Edges(k, m)
        BY <1>1 DEF Edges
      <4>2. Edges(n, m)' = {}
        BY <1>1, <1>4, <3>1 DEF Edges
      <4> QED BY <1>1, <4>1, <4>2 DEF Consumers
    <3>3. m \in Sinks' <=> m \in Sinks
      BY <2>1, <3>1, <3>2 DEF Sinks
    <3>4. given[m] = IF m \in Sinks THEN 1 ELSE SumOver(given, Uses(m))
      BY <3>1 DEF Right, Values, GivenValues
    <3> QED BY <1>2, <1>3, <3>1, <3>3, <3>4
  <2> QED BY <2>1 DEF GivenValues
<1>14. \A m \in Nodes : \A o \in DOMAIN slots'[m] :
           slots'[m][o] # Null => m # n /\ slots'[m] = slots[m]
  BY <1>7, <1>8
<1>15. SlotsOwned'
  <2>1. \A p, m \in Nodes : \A o \in DOMAIN slots'[p], r \in DOMAIN slots'[m] :
           slots'[p][o] = slots'[m][r] /\ slots'[p][o] # Null => p = m /\ o = r
    BY <1>14 DEF Right, Owned, SlotsOwned
  <2>2. \A l \in Leaves, m \in Nodes : \A o \in DOMAIN slots'[m] :
           slots'[m][o] # Null => slots'[m][o] # grad[l]
    BY <1>14 DEF Right, Owned, SlotsOwned
  <2>3. \A l, m \in Leaves : grad[l] = grad[m] /\ grad[l] # Null => l = m
    BY DEF Right, Owned, SlotsOwned
  <2> QED BY <1>2, <2>1, <2>2, <2>3 DEF SlotsOwned
<1> QED BY <1>3, <1>5, <1>10, <1>11, <1>12, <1>13, <1>15 DEF Right, Values, Owned

(* A pass starts with one gradient, of the result, in a buffer of its own. *)
LEMMA BackwardRight ==
    ASSUME IInv, NEW n \in Sinks, Backward(n), NEW uses, Right(uses)
    PROVE  Right(uses)'
<1>1. /\ stack = <<>> /\ heap' = Append(heap, 1) /\ stack' = <<<<n, 1, Len(heap) + 1>>>>
      /\ graph' = graph /\ slots' = slots /\ given' = given /\ grad' = grad
  BY DEF Backward
<1>2. /\ Lists(uses)' /\ Counts(uses)' /\ Starting'
      /\ \A m : Arrived(uses, m)' = Arrived(uses, m) /\ Uses(m)' = Uses(m)
  BY BackwardCounts DEF Right
<1>3. /\ Functions' = Functions /\ Sinks' = Sinks
      /\ \A m : Results(m)' = Results(m) /\ Fn(m)' = Fn(m)
  BY <1>1, SameGraph
<1>4. Types
  BY DEF IInv
<1>5. /\ \A b \in 1..Len(heap) : heap'[b] = heap[b]
      /\ heap'[Len(heap) + 1] = 1 /\ Len(heap) \in Nat
  BY <1>1, <1>4, HeapIs DEF Types
<1>6. DOMAIN stack' = {1} /\ stack'[1][3] = Len(heap) + 1
  BY <1>1
<1>7. StackValues(uses)'
  BY <1>2, <1>5, <1>6 DEF StackValues
<1>8. ASSUME NEW m \in Leaves \cup Functions PROVE HeldSum(m)' = HeldSum(m)
  <2>1. DOMAIN slots[m] = 1..Results(m) /\ Results(m) \in {1, 2} /\ m \in Nodes
    BY <1>4, HeapIs, FunctionsAre
  <2>2. \A o \in 1..Results(m) : slots[m][o] # Null => heap'[slots[m][o]] = heap[slots[m][o]]
    BY <1>4, <1>5, <2>1, HeapIs
  <2>3. HeldIn(heap', slots[m], Results(m)) = HeldIn(heap, slots[m], Results(m))
    BY <2>1, <2>2, SameHeld
  <2> QED BY <1>1, <1>3, <2>3 DEF HeldSum
<1>9. FunctionValues(uses)'
  <2>1. ASSUME NEW m \in Functions, given[m] = 0
        PROVE  HeldSum(m)' = SumOver(given', Arrived(uses, m)')
    <3>1. HeldSum(m) = SumOver(given, Arrived(uses, m))
      BY <2>1 DEF Right, Values, FunctionValues
    <3> QED BY <1>1, <1>2, <1>8, <3>1
  <2> QED BY <1>1, <1>3, <2>1 DEF FunctionValues
<1>10. LeafValues(uses)'
  <2>1. ASSUME NEW l \in Leaves
        PROVE  Held(heap', grad'[l]) + HeldSum(l)' = SumOver(given', Arrived(uses, l)')
    <3>1. Held(heap, grad[l]) + HeldSum(l) = SumOver(given, Arrived(uses, l))
      BY DEF Right, Values, LeafValues
    <3>2. Held(heap', grad'[l]) = Held(heap, grad[l])
      BY <1>1, <1>4, <1>5, HeapIs DEF Held
    <3> QED BY <1>1, <1>2, <1>8, <3>1, <3>2
  <2> QED BY <2>1 DEF LeafValues
<1>11. GivenValues'
  BY <1>1, <1>2, <1>3 DEF Right, Values, GivenValues
<1>12. SlotsOwned'
  BY <1>1 DEF Right, Owned, SlotsOwned
<1>13. StackOwned(uses)'
  <2>1. \A l \in Leaves : stack'[1][3] # grad'[l]
    <3>1. \A l \in Leaves : grad[l] \in 0..Len(heap)
      BY <1>4, HeapIs
    <3> QED BY <1>1, <1>5, <1>6, <3>1
  <2>2. \A m \in Nodes : \A o \in DOMAIN slots'[m] : stack'[1][3] # slots'[m][o]
    <3>1. \A m \in Nodes : \A o \in DOMAIN slots[m] : slots[m][o] \in 0..Len(heap)
      BY <1>4, HeapIs
    <3> QED BY <1>1, <1>5, <1>6, <3>1
  <2> QED BY <1>6, <2>1, <2>2 DEF StackOwned
<1>14. ResidualInv'
  BY <1>1, SameResidual DEF Right
<1> QED BY <1>2, <1>7, <1>9, <1>10, <1>11, <1>12, <1>13, <1>14 DEF Right, Values, Owned

LEMMA InitRight == Init => ValueInv
<1> SUFFICES ASSUME Init PROVE ValueInv
  OBVIOUS
<1>1. IInv
  BY InitInv
<1>2. PICK uses : Lists(uses) /\ Counts(uses)
  BY <1>1 DEF IInv
<1>3. Functions = {} /\ stack = <<>>
  BY DEF Init, Functions
<1>4. \A n : Arrived(uses, n) = {}
  BY <1>3 DEF Arrived, Uses
<1>5. Leaves \subseteq Nodes
  BY <1>1, FunctionsAre DEF IInv
<1>6. /\ \A n \in Leaves : slots[n] = <<Null>> /\ grad[n] = Null
      /\ \A n \in Nodes : \A o \in DOMAIN slots[n] : slots[n][o] = Null
  BY <1>5 DEF Init
<1>7. LeafValues(uses)
  <2>1. SumOver(given, {}) = 0
    BY SumIs, FS_EmptySet
  <2>2. \A l \in Leaves : Held(heap, grad[l]) = 0 /\ HeldSum(l) = 0
    BY <1>3, <1>6 DEF Held, HeldSum, HeldIn, Results
  <2> QED BY <1>4, <2>1, <2>2 DEF LeafValues
<1>8. StackValues(uses) /\ StackOwned(uses)
  <2>1. DOMAIN stack = {}
    BY <1>3
  <2> QED BY <2>1 DEF StackValues, StackOwned
<1>9. FunctionValues(uses) /\ GivenValues /\ ResidualInv
  BY <1>3 DEF FunctionValues, GivenValues, ResidualInv
<1>10. SlotsOwned
  BY <1>6 DEF SlotsOwned
<1> QED BY <1>1, <1>2, <1>7, <1>8, <1>9, <1>10 DEF ValueInv, IInv, Right, Values, Owned

LEMMA SameRight ==
    ASSUME ValueInv, UNCHANGED vars
    PROVE  ValueInv'
<1>1. UNCHANGED <<graph, deps, reached, slots, given, heap, grad, stack>>
  BY DEF vars
<1>2. PICK uses : Right(uses)
  BY DEF ValueInv
<1>3. /\ Functions' = Functions /\ Sinks' = Sinks /\ GraphInv'
      /\ \A m : Fn(m)' = Fn(m) /\ Uses(m)' = Uses(m) /\ Results(m)' = Results(m)
  BY <1>1, SameGraph DEF ValueInv
<1>4. Types'
  BY <1>1, <1>3 DEF ValueInv, Types
<1>5. (Starting' <=> Starting) /\ StartInv'
  BY <1>1, <1>3 DEF ValueInv, Starting, StartInv
<1>6. Lists(uses)'
  BY <1>1, <1>2, <1>3, <1>5 DEF Right, Lists
<1>7. \A m : /\ Outstanding(uses, m)' = Outstanding(uses, m)
             /\ Arrived(uses, m)' = Arrived(uses, m) /\ HeldSum(m)' = HeldSum(m)
             /\ (AllHeld(m)' <=> AllHeld(m)) /\ (NoneHeld(m)' <=> NoneHeld(m))
  BY <1>1, <1>3 DEF Outstanding, Arrived, Listed, AllHeld, NoneHeld, HeldSum
<1>8. Counts(uses)'
  BY <1>1, <1>2, <1>3, <1>7 DEF Right, Counts
<1>9. ResidualInv'
  BY <1>1, <1>2, SameResidual DEF Right
<1>10. Values(uses)'
  BY <1>1, <1>2, <1>3, <1>5, <1>7
     DEF Right, Values, StackValues, FunctionValues, LeafValues, GivenValues
<1>11. \A e : ToBranch(e)' <=> ToBranch(e)
  BY <1>3 DEF ToBranch
<1>12. Owned(uses)'
  BY <1>1, <1>2, <1>5, <1>11 DEF Right, Owned, SlotsOwned, StackOwned
<1> QED BY <1>3, <1>4, <1>5, <1>6, <1>8, <1>9, <1>10, <1>12 DEF ValueInv, Right

LEMMA NextRight ==
    ASSUME ResidualOnly, ValueInv, [Next]_vars
    PROVE  ValueInv'
<1>1. PICK uses : Right(uses)
  BY DEF ValueInv
<1>2. IInv /\ Types /\ GraphInv /\ StartInv /\ Lists(uses) /\ Counts(uses)
  BY <1>1 DEF ValueInv, IInv, Right
<1>3. ASSUME NEW kind \in Kinds, NEW inputs \in InputsOf(kind), Apply(kind, inputs) PROVE ValueInv'
  <2>1. Types' /\ GraphInv' /\ StartInv'
    BY <1>2, <1>3, ApplyTypes
  <2>2. Right(uses)'
    BY <1>1, <1>2, <1>3, ApplyRight
  <2> QED BY <2>1, <2>2 DEF ValueInv
<1>4. ASSUME NEW n \in Sinks, Backward(n) PROVE ValueInv'
  <2>1. Types' /\ GraphInv' /\ StartInv'
    BY <1>2, <1>4, BackwardCounts
  <2>2. Right(uses)'
    BY <1>1, <1>2, <1>4, BackwardRight
  <2> QED BY <2>1, <2>2 DEF ValueInv
<1>5. ASSUME stack # <<>> PROVE HeadFacts(Head(stack), uses)
  BY <1>2, <1>5, HeadIs
<1>6. ASSUME stack # <<>>, Waits(Head(stack)) PROVE ValueInv'
  <2>1. PICK d, t : d = Head(stack) /\ t = Rest(uses)
    OBVIOUS
  <2>2. Types' /\ GraphInv' /\ StartInv' /\ Lists(t)' /\ Counts(t)' /\ ~Starting
    BY <1>2, <1>6, <2>1, WaitsCounts
  <2>3. Right(t)'
    BY <1>1, <1>2, <1>5, <1>6, <2>1, <2>2, WaitsRight
  <2> QED BY <2>2, <2>3 DEF ValueInv
<1>7. ASSUME stack # <<>>, RunAccumulate(Head(stack)) PROVE ValueInv'
  <2>1. PICK d, t : d = Head(stack) /\ t = Rest(uses)
    OBVIOUS
  <2>2. Types' /\ GraphInv' /\ StartInv' /\ Lists(t)' /\ Counts(t)' /\ ~Starting
    BY <1>2, <1>7, <2>1, AccumulateCounts
  <2>3. Right(t)'
    BY <1>1, <1>2, <1>5, <1>7, <2>1, <2>2, AccumulateRight
  <2> QED BY <2>2, <2>3 DEF ValueInv
<1>8. ASSUME stack # <<>>, RunFunction(Head(stack)) PROVE ValueInv'
  <2>1. PICK d : d = Head(stack)
    OBVIOUS
  <2>2. HeadFacts(d, uses)
    BY <1>5, <1>8, <2>1
  <2>3. PICK v, edges : RunEffect(d, v, edges)
    BY <1>2, <1>8, <2>1, <2>2, RunIs
  <2>4. PICK t : t = RunUses(d[1], edges, uses)
    OBVIOUS
  <2>5. /\ Types' /\ GraphInv' /\ StartInv' /\ Lists(t)' /\ Counts(t)' /\ ~Starting'
        /\ \A m \in Leaves \cup Functions : m # d[1] => Arrived(t, m)' = Arrived(uses, m)
    BY <1>2, <1>8, <2>1, <2>3, <2>4, RunCounts
  <2>6. Right(t)'
    BY <1>1, <1>2, <1>8, <2>1, <2>2, <2>3, <2>4, <2>5, RunRight
  <2> QED BY <2>5, <2>6 DEF ValueInv
<1>9. ASSUME UNCHANGED vars PROVE ValueInv'
  BY <1>9, SameRight
<1> QED BY <1>3, <1>4, <1>6, <1>7, <1>8, <1>9 DEF Next

-----------------------------------------------------------------------------
(* Gradient is what its recursive definition says: the recursion, from the *)
(* last function back, has one solution.                                   *)
PathSum(w, S) == MapThenSumSet(LAMBDA e : w[e[1]], S)

LEMMA PathSumIs ==
    ASSUME NEW w, NEW S, IsFiniteSet(S), \A e \in S : w[e[1]] \in Nat
    PROVE  PathSum(w, S) = SumOver(w, S)
<1> DEFINE f == [e \in S |-> w[e[1]]]
           Rec(h) == h = [s \in SUBSET S |-> IF s = {} THEN 0
                                             ELSE w[One(s)[1]] + h[s \ {One(s)}]]
           h == CHOOSE g : Rec(g)
<1>1. PathSum(w, S) = h[S]
  BY DEF PathSum, MapThenSumSet, MapThenFoldSet, One
<1>2. \A x \in S : f[x] \in Nat
  OBVIOUS
<1>3. ASSUME NEW g PROVE Rec(g) <=> Folds(g, f, S)
  <2>1. ASSUME NEW s \in SUBSET S, s # {} PROVE f[One(s)] = w[One(s)[1]]
    <3>1. One(s) \in S
      BY <2>1, OneIs
    <3> QED BY <3>1
  <2> HIDE DEF f
  <2>2. [s \in SUBSET S |-> IF s = {} THEN 0 ELSE w[One(s)[1]] + g[s \ {One(s)}]]
        = [s \in SUBSET S |-> IF s = {} THEN 0 ELSE f[One(s)] + g[s \ {One(s)}]]
    BY <2>1
  <2> QED BY <2>2 DEF Folds
<1>4. \E g : Rec(g)
  <2> HIDE DEF f, Rec
  <2> QED BY <1>2, <1>3, TotalFolds
<1>5. Rec(h)
  <2> HIDE DEF Rec
  <2> QED BY <1>4
<1>6. h[S] = Total(f, S)
  <2> HIDE DEF f, Rec, h
  <2> QED BY <1>2, <1>3, <1>5, FoldsTotal
<1> QED BY <1>1, <1>6 DEF SumOver

(* f counts the paths from node k on.                                      *)
Last == Node(Len(graph))
PathsFrom(f, n) == IF n \in Sinks THEN 1 ELSE SumOver(f, Uses(n))
CountsPaths(f, k) ==
    f \in [k..Last -> Nat] /\ \A n \in k..Last : f[n] = PathsFrom(f, n)

LEMMA UsesAbove ==
    ASSUME Types, GraphInv
    PROVE  /\ Last \in Nat
           /\ \A n : IsFiniteSet(Uses(n))
           /\ \A n : \A e \in Uses(n) : e[1] \in Nat /\ n < e[1] /\ e[1] <= Last
           /\ \A n \in Leaves \cup Functions : n \in 1..Last
<1>1. Last \in Nat /\ Last = NumLeaves + Len(graph)
  BY FunctionsAre DEF Last, Node
<1>2. \A n : \A e \in Uses(n) : e[1] \in Functions /\ n < e[1]
  BY UsesAre, GivenIs
<1>3. \A m \in Functions : m \in Nat /\ m <= Last /\ m >= 1
  BY <1>1, FunctionsAre
<1>4. \A l \in Leaves : l \in 1..Last
  BY <1>1, FunctionsAre DEF Leaves
<1>5. \A n : \A e \in Uses(n) : e[1] \in Nat /\ n < e[1] /\ e[1] <= Last
  <2> HIDE DEF Last
  <2> QED BY <1>2, <1>3
<1>6. \A n \in Functions : n \in 1..Last
  <2> HIDE DEF Last
  <2> QED BY <1>1, <1>3
<1>7. \A n : IsFiniteSet(Uses(n))
  BY GivenIs
<1> QED BY <1>1, <1>4, <1>5, <1>6, <1>7

LEMMA PathsExist ==
    ASSUME Types, GraphInv
    PROVE  \E f : CountsPaths(f, 1)
<1> DEFINE T == {k \in 0..Last : \E f : CountsPaths(f, Last + 1 - k)}
<1>1. Last \in Nat
  BY UsesAbove
<1>2. 0 \in T
  <2>1. (Last + 1 - 0)..Last = {}
    BY <1>1
  <2>2. CountsPaths([n \in {} |-> 0], Last + 1 - 0)
    BY <2>1 DEF CountsPaths
  <2> QED BY <1>1, <2>2
<1>3. ASSUME NEW k \in Nat, k < Last, NEW f, CountsPaths(f, Last + 1 - k)
      PROVE  \E g : CountsPaths(g, Last + 1 - (k + 1))
  <2> DEFINE m == Last - k
             v == PathsFrom(f, m)
             g == [n \in m..Last |-> IF n = m THEN v ELSE f[n]]
  <2>1. m \in Nat /\ Last + 1 - k = m + 1 /\ Last + 1 - (k + 1) = m
        /\ m..Last = {m} \cup ((m + 1)..Last) /\ m \notin (m + 1)..Last /\ m >= 1
    BY <1>1, <1>3
  <2>2. f \in [(m + 1)..Last -> Nat] /\ \A n \in (m + 1)..Last : f[n] = PathsFrom(f, n)
    <3> HIDE DEF m
    <3> QED BY <1>3, <2>1 DEF CountsPaths
  <2> HIDE DEF m
  <2>3. ASSUME NEW n \in m..Last PROVE \A e \in Uses(n) : e[1] \in (m + 1)..Last
    <3>1. \A e \in Uses(n) : e[1] \in Nat /\ n < e[1] /\ e[1] <= Last
      BY UsesAbove
    <3>2. n \in Nat /\ m <= n
      BY <2>1
    <3> QED BY <1>1, <2>1, <3>1, <3>2
  <2>4. v \in Nat
    <3>1. \A e \in Uses(m) : f[e[1]] \in Nat
      <4>1. m \in m..Last
        BY <2>1
      <4> QED BY <2>2, <2>3, <4>1
    <3>2. SumOver(f, Uses(m)) \in Nat
      BY <3>1, UsesAbove, SumIs
    <3> QED BY <3>2 DEF PathsFrom
  <2>5. \A n \in (m + 1)..Last : g[n] = f[n]
    BY <2>1
  <2>6. \A n \in m..Last : PathsFrom(g, n) = PathsFrom(f, n)
    <3>1. ASSUME NEW n \in m..Last PROVE SumOver(g, Uses(n)) = SumOver(f, Uses(n))
      <4>1. \A e \in Uses(n) : g[e[1]] = f[e[1]]
        <5> HIDE DEF g
        <5> QED BY <2>3, <2>5
      <4> HIDE DEF g
      <4> QED BY <4>1, SumSame
    <3> QED BY <3>1 DEF PathsFrom
  <2>7. g[m] = v /\ g \in [m..Last -> Nat]
    <3> HIDE DEF v
    <3> QED BY <2>1, <2>2, <2>4
  <2>8. \A n \in m..Last : g[n] = PathsFrom(g, n)
    <3> HIDE DEF g
    <3>1. g[m] = PathsFrom(g, m)
      <4>1. m \in m..Last
        BY <2>1
      <4> QED BY <2>6, <2>7, <4>1
    <3>2. \A n \in (m + 1)..Last : n \in m..Last /\ g[n] = PathsFrom(g, n)
      BY <2>1, <2>2, <2>5, <2>6
    <3> QED BY <2>1, <3>1, <3>2
  <2>9. CountsPaths(g, m)
    <3> HIDE DEF g
    <3> QED BY <2>7, <2>8 DEF CountsPaths
  <2> QED BY <2>1, <2>9
<1>4. Last \in T
  <2>1. PICK x \in T : \A y \in T : y <= x
    <3>1. T \in SUBSET (0..Last) /\ T # {}
      BY <1>2
    <3> HIDE DEF T
    <3> QED BY <1>1, <3>1, Greatest
  <2>2. x \in 0..Last /\ x + 1 \notin T
    <3>1. x \in 0..Last
      OBVIOUS
    <3> HIDE DEF T
    <3> QED BY <2>1, <3>1
  <2>3. x = Last
    <3> SUFFICES ASSUME x # Last PROVE FALSE
      OBVIOUS
    <3>1. x \in Nat /\ x < Last /\ x + 1 \in 0..Last
      BY <1>1, <2>2
    <3>2. PICK f : CountsPaths(f, Last + 1 - x)
      OBVIOUS
    <3>3. \E g : CountsPaths(g, Last + 1 - (x + 1))
      <4> HIDE DEF T
      <4> QED BY <1>3, <3>1, <3>2
    <3> QED BY <2>2, <3>1, <3>3
  <2> QED BY <2>3
<1>5. Last + 1 - Last = 1
  BY <1>1
<1> QED BY <1>4, <1>5

LEMMA GradientCounts ==
    ASSUME Types, GraphInv
    PROVE  CountsPaths(Gradient, 1)
<1> DEFINE Chain(p, n) == IF n \in Sinks THEN 1 ELSE PathSum(p, Uses(n))
           IsPaths(p) == p = [n \in 1..Last |-> Chain(p, n)]
<1>1. Gradient = CHOOSE p : IsPaths(p)
  BY DEF Gradient, PathSum, Last
<1>2. Last \in Nat
  BY UsesAbove
<1>3. PICK f : CountsPaths(f, 1)
  BY PathsExist
<1>4. ASSUME NEW p, NEW n \in 1..Last, \A e \in Uses(n) : p[e[1]] = f[e[1]]
      PROVE  Chain(p, n) = f[n]
  <2>1. \A e \in Uses(n) : e[1] \in 1..Last
    <3>1. n \in Nat /\ n >= 1
      BY <1>2
    <3> QED BY <1>2, <3>1, UsesAbove
  <2>2. \A e \in Uses(n) : p[e[1]] \in Nat
    BY <1>3, <1>4, <2>1 DEF CountsPaths
  <2>3. PathSum(p, Uses(n)) = SumOver(p, Uses(n))
    BY <2>2, UsesAbove, PathSumIs
  <2>4. SumOver(p, Uses(n)) = SumOver(f, Uses(n))
    BY <1>4, SumSame
  <2>5. f[n] = PathsFrom(f, n)
    BY <1>3 DEF CountsPaths
  <2> QED BY <2>3, <2>4, <2>5 DEF PathsFrom
<1>5. IsPaths(f)
  <2>1. \A n \in 1..Last : f[n] = Chain(f, n)
    <3> HIDE DEF Chain
    <3> QED BY <1>4
  <2>2. f \in [1..Last -> Nat]
    BY <1>3 DEF CountsPaths
  <2> HIDE DEF Chain
  <2> QED BY <2>1, <2>2
<1>6. IsPaths(Gradient)
  <2> HIDE DEF IsPaths
  <2> QED BY <1>1, <1>5
<1> HIDE DEF Chain
<1>7. \A n \in 1..Last : Gradient[n] = f[n]
  <2> DEFINE B == {n \in 1..Last : Gradient[n] # f[n]}
  <2> SUFFICES ASSUME B # {} PROVE FALSE
    OBVIOUS
  <2>1. PICK n \in B : \A m \in B : m <= n
    <3>1. B \in SUBSET (0..Last)
      BY <1>2
    <3> HIDE DEF B
    <3> QED BY <1>2, <3>1, Greatest
  <2>2. \A e \in Uses(n) : Gradient[e[1]] = f[e[1]]
    <3>1. n \in Nat /\ n >= 1
      BY <1>2
    <3>2. \A e \in Uses(n) : e[1] \in 1..Last /\ ~(e[1] <= n)
      BY <1>2, <3>1, UsesAbove
    <3>3. \A e \in Uses(n) : e[1] \notin B
      <4> HIDE DEF B
      <4> QED BY <2>1, <3>2
    <3> QED BY <3>2, <3>3
  <2>3. Gradient[n] = Chain(Gradient, n)
    BY <1>6
  <2> QED BY <1>4, <2>2, <2>3
<1>8. Gradient = f
  <2>1. Gradient = [n \in 1..Last |-> Chain(Gradient, n)]
    BY <1>6
  <2>2. f = [n \in 1..Last |-> f[n]] /\ Gradient = [n \in 1..Last |-> Gradient[n]]
    BY <1>3, <2>1 DEF CountsPaths
  <2> QED BY <1>7, <2>2
<1> QED BY <1>3, <1>8

(* Function::BackwardPartial: a function that has run was given its whole  *)
(* gradient.                                                               *)
LEMMA RunsWithGradient ==
    ASSUME ValueInv
    PROVE  \A n \in Functions : given[n] # 0 => given[n] = Gradient[n]
<1> DEFINE B == {n \in Functions : given[n] # 0 /\ given[n] # Gradient[n]}
<1> SUFFICES ASSUME B # {} PROVE FALSE
  OBVIOUS
<1>1. PICK uses : Right(uses)
  BY DEF ValueInv
<1>2. Types /\ GraphInv
  BY DEF ValueInv
<1>3. Last \in Nat /\ Functions \subseteq 1..Last
  BY <1>2, UsesAbove
<1>4. PICK n \in B : \A m \in B : m <= n
  <2>1. B \in SUBSET (0..Last)
    <3>1. B \subseteq Functions
      OBVIOUS
    <3>2. 1..Last \subseteq 0..Last
      BY <1>3
    <3> HIDE DEF B
    <3> QED BY <1>3, <3>1, <3>2
  <2> HIDE DEF B
  <2> QED BY <1>3, <2>1, Greatest
<1>5. \A e \in Uses(n) : given[e[1]] # 0 /\ e[1] \in Functions /\ ~(e[1] <= n)
  <2>1. Outstanding(uses, n) = {}
    BY <1>1 DEF Right, Counts
  <2>2. \A e \in Uses(n) : given[e[1]] # 0
    BY <2>1 DEF Outstanding
  <2>3. \A e \in Uses(n) : e[1] \in Functions /\ e[1] \in Nat /\ n < e[1]
    BY <1>2, UsesAbove, GivenIs
  <2>4. n \in Nat
    BY <1>3
  <2> QED BY <2>2, <2>3, <2>4
<1>6. \A e \in Uses(n) : given[e[1]] = Gradient[e[1]]
  <2>1. \A e \in Uses(n) : e[1] \notin B
    <3> HIDE DEF B
    <3> QED BY <1>4, <1>5
  <2> QED BY <1>5, <2>1
<1>7. given[n] = PathsFrom(given, n)
  BY <1>1 DEF Right, Values, GivenValues, PathsFrom
<1>8. Gradient[n] = PathsFrom(Gradient, n)
  BY <1>2, <1>3, GradientCounts DEF CountsPaths
<1>9. SumOver(given, Uses(n)) = SumOver(Gradient, Uses(n))
  BY <1>6, SumSame
<1> QED BY <1>7, <1>8, <1>9 DEF PathsFrom

(* AccumulateGrad: and between passes a leaf all of whose uses have run    *)
(* holds the sum over them.                                                *)
LEMMA LeavesHoldGradient == ValueInv => LeafGradients
<1> SUFFICES ASSUME ValueInv, stack = <<>>, NEW l \in Leaves, NEW n \in Consumers(l),
                    \A m \in Consumers(l) : given[m] # 0
             PROVE  grad[l] # Null /\ heap[grad[l]] = Gradient[l]
  BY DEF LeafGradients
<1>1. PICK uses : Right(uses)
  BY DEF ValueInv
<1>2. Types /\ GraphInv /\ StartInv
  BY DEF ValueInv
<1>3. Outstanding(uses, l) = {} /\ Arrived(uses, l) = Uses(l)
  <2>1. Len(uses) = 0 /\ uses \in Seq(Functions \X {1, 2})
    BY <1>1 DEF Right, Lists, Starting
  <2>2. Listed(uses) = {}
    BY <2>1 DEF Listed
  <2>3. \A e \in Uses(l) : given[e[1]] # 0
    BY <1>2, UsesAre
  <2> QED BY <2>2, <2>3 DEF Outstanding, Arrived
<1>4. l \in Nodes /\ given[l] = 0 /\ DOMAIN slots[l] = {1} /\ Results(l) = 1 /\ l \notin Functions
  <2>1. l \in Nodes /\ l \notin Functions /\ DOMAIN slots[l] = 1..Results(l)
    BY <1>2, HeapIs, FunctionsAre
  <2>2. Results(l) = 1
    BY <2>1 DEF Results
  <2> QED BY <1>2, <2>1, <2>2, HeapIs
<1>5. slots[l][1] = Null
  <2>1. deps[l] = reached[l] + Cardinality(Outstanding(uses, l))
        /\ (AllHeld(l) => reached[l] < deps[l])
    BY <1>1, <1>4 DEF Right, Counts
  <2>2. deps[l] = reached[l] + 0 /\ reached[l] \in Nat
    BY <1>2, <1>3, <1>4, <2>1, FS_EmptySet, HeapIs
  <2>3. ~AllHeld(l)
    BY <2>1, <2>2
  <2> QED BY <1>4, <2>3 DEF AllHeld
<1>6. Held(heap, grad[l]) + 0 = SumOver(given, Uses(l))
  <2>1. HeldSum(l) = 0
    BY <1>4, <1>5 DEF HeldSum, HeldIn, Held
  <2>2. Held(heap, grad[l]) + HeldSum(l) = SumOver(given, Uses(l))
    BY <1>1, <1>3 DEF Right, Values, LeafValues
  <2> QED BY <2>1, <2>2
<1>7. SumOver(given, Uses(l)) = Gradient[l]
  <2>1. \A e \in Uses(l) : given[e[1]] = Gradient[e[1]]
    <3>1. \A e \in Uses(l) : e[1] \in Consumers(l) /\ e[1] \in Functions
      BY <1>2, UsesAre, GivenIs
    <3> QED BY <3>1, RunsWithGradient
  <2>2. SumOver(given, Uses(l)) = SumOver(Gradient, Uses(l))
    BY <2>1, SumSame
  <2>3. Gradient[l] = PathsFrom(Gradient, l)
    BY <1>2, UsesAbove, GradientCounts DEF CountsPaths
  <2>4. l \notin Sinks
    BY <1>4 DEF Sinks
  <2> QED BY <2>2, <2>3, <2>4 DEF PathsFrom
<1>8. SumOver(given, Uses(l)) # 0
  <2>1. PICK i \in {1, 2} : <<n, i>> \in Uses(l)
    BY <1>2, UsesAre
  <2> DEFINE x == <<n, i>>
             S == Uses(l)
  <2>2. IsFiniteSet(S) /\ x \in S /\ x[1] = n /\ \A e \in S : given[e[1]] \in Nat
    BY <1>2, <2>1, GivenIs
  <2>3. IsFiniteSet(S \ {x}) /\ given[n] \in Nat /\ given[n] # 0
    BY <2>2, FS_RemoveElement
  <2> HIDE DEF S, x
  <2>4. SumOver(given, S) = given[x[1]] + SumOver(given, S \ {x})
    <3>1. \A y \in S : SumOver(given, S) = given[y[1]] + SumOver(given, S \ {y})
      <4>1. IsFiniteSet(S) /\ \A e \in S : given[e[1]] \in Nat
        BY <2>2
      <4> QED BY <4>1, SumIs
    <3>2. x \in S
      BY <2>2
    <3> QED BY <3>1, <3>2, Zenon
  <2>5. SumOver(given, S \ {x}) \in Nat
    BY <2>2, <2>3, SumIs
  <2>6. SumOver(given, S) = given[n] + SumOver(given, S \ {x})
    BY <2>2, <2>4
  <2>7. SumOver(given, S) # 0
    BY <2>3, <2>5, <2>6
  <2> QED BY <2>7 DEF S
<1>9. CASE grad[l] = Null
  BY <1>6, <1>8, <1>9 DEF Held
<1>10. CASE grad[l] # Null
  <2>1. heap[grad[l]] \in Nat
    BY <1>2, <1>10, HeapIs
  <2> QED BY <1>6, <1>7, <1>10, <2>1 DEF Held
<1> QED BY <1>9, <1>10

(* BackwardPartial: when additions are residual, a function is run once    *)
(* with its whole gradient, no contribution altered after it was made:     *)
(* FullGradientsOnly.                                                      *)
THEOREM FullGradients ==
    ASSUME ResidualOnly
    PROVE  Spec => []FullGradientsOnly
<1>1. ValueInv /\ [Next]_vars => ValueInv'
  BY NextRight
<1>2. ValueInv => FullGradientsOnly
  BY RunsWithGradient DEF FullGradientsOnly
<1> QED BY <1>1, <1>2, InitRight, PTL DEF Spec

(* AccumulateGrad: when additions are residual, between backward passes a  *)
(* leaf all of whose uses have been run backward holds the sum over all of *)
(* them, across graphs and passes: LeafGradients.                          *)
THEOREM LeavesSummed ==
    ASSUME ResidualOnly
    PROVE  Spec => []LeafGradients
<1>1. ValueInv /\ [Next]_vars => ValueInv'
  BY NextRight
<1> QED BY <1>1, InitRight, LeavesHoldGradient, PTL DEF Spec
=============================================================================
