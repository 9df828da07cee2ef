----------------------- MODULE LocalAlgorithmsProofs -----------------------
(***************************************************************************)
(* Proofs about LocalAlgorithms, for every input.                          *)
(***************************************************************************)
EXTENDS LocalAlgorithms, TLAPS, FiniteSetTheorems, SequenceTheorems, WellFoundedInduction

-----------------------------------------------------------------------------
(* Induction and recursion over 0..n.                                      *)

(* A non-empty set of naturals has a least element.                        *)
LEMMA LeastNat ==
    ASSUME NEW T \in SUBSET Nat, T # {}
    PROVE  \E n \in T : \A m \in T : n <= m
<1> DEFINE R == OpToRel(<, Nat)
<1>1. \A m, n \in Nat : m < n => <<m, n>> \in R
  BY DEF OpToRel
<1>2. PICK n \in T : \A m \in T : <<m, n>> \notin R
  <2> HIDE DEF R
  <2> QED BY NatLessThanWellFounded, WFMin DEF R
<1> HIDE DEF R
<1>3. ASSUME NEW m \in T PROVE n <= m
  <2>1. m \in Nat /\ n \in Nat /\ ~(m < n)
    BY <1>1, <1>2, <1>3
  <2> QED BY <2>1
<1> QED BY <1>3

LEMMA Induction ==
    ASSUME NEW n \in Nat, NEW S, 0 \in S, \A i \in 0..n : i < n /\ i \in S => i + 1 \in S
    PROVE  \A i \in 0..n : i \in S
<1> DEFINE T == {i \in 0..n : i \notin S}
<1>1. SUFFICES ASSUME T # {} PROVE FALSE
  OBVIOUS
<1>2. PICK m \in T : \A k \in T : m <= k
  <2>1. T \in SUBSET Nat
    OBVIOUS
  <2> HIDE DEF T
  <2> QED BY <1>1, <2>1, LeastNat
<1>3. m # 0 /\ m - 1 \in 0..n /\ m - 1 < n /\ m - 1 + 1 = m
  OBVIOUS
<1>4. m - 1 \in S
  BY <1>2, <1>3
<1> QED BY <1>3, <1>4

(* h is x0 and then, step by step, what f makes of the one before.         *)
Iterates(h, n, X, x0, f) ==
    /\ h \in [0..n -> X] /\ h[0] = x0
    /\ \A i \in 1..n : h[i] = f[i][h[i - 1]]

LEMMA Recursion ==
    ASSUME NEW n \in Nat, NEW X, NEW x0 \in X, NEW f \in [1..n -> [X -> X]]
    PROVE  \E h : Iterates(h, n, X, x0, f)
<1> DEFINE S == {k \in 0..n : \E h : Iterates(h, k, X, x0, f)}
<1>1. 0 \in S
  <2>1. Iterates([i \in 0..0 |-> x0], 0, X, x0, f)
    BY DEF Iterates
  <2> QED BY <2>1
<1>2. ASSUME NEW k \in 0..n, k < n, k \in S PROVE k + 1 \in S
  <2>1. PICK h : Iterates(h, k, X, x0, f)
    BY <1>2
  <2> DEFINE g == [i \in 0..k + 1 |-> IF i = k + 1 THEN f[k + 1][h[k]] ELSE h[i]]
  <2>2. /\ h \in [0..k -> X] /\ h[0] = x0 /\ k \in 0..k /\ k + 1 \in 1..n /\ h[k] \in X
        /\ \A i \in 1..k : h[i] = f[i][h[i - 1]]
    <3>1. h \in [0..k -> X] /\ h[0] = x0 /\ \A i \in 1..k : h[i] = f[i][h[i - 1]]
      BY <2>1 DEF Iterates
    <3>2. k \in 0..k /\ k + 1 \in 1..n
      BY <1>2
    <3> QED BY <3>1, <3>2
  <2>3. f[k + 1][h[k]] \in X
    BY <2>2
  <2>4. g \in [0..k + 1 -> X] /\ g[0] = x0
    BY <2>2, <2>3
  <2>5. ASSUME NEW i \in 1..k + 1 PROVE g[i] = f[i][g[i - 1]]
    <3>1. CASE i = k + 1
      <4>1. i - 1 = k /\ k # k + 1 /\ i \in 0..k + 1 /\ k \in 0..k + 1
        BY <3>1
      <4>2. g[i] = f[k + 1][h[k]] /\ g[k] = h[k]
        BY <3>1, <4>1
      <4> QED BY <3>1, <4>1, <4>2
    <3>2. CASE i # k + 1
      <4>1. i \in 1..k /\ i \in 0..k + 1 /\ i - 1 \in 0..k + 1 /\ i - 1 # k + 1
        BY <3>2
      <4>2. g[i] = h[i] /\ g[i - 1] = h[i - 1]
        BY <3>2, <4>1
      <4> HIDE DEF g
      <4> QED BY <2>2, <4>1, <4>2
    <3> QED BY <3>1, <3>2
  <2>6. Iterates(g, k + 1, X, x0, f)
    <3> HIDE DEF g
    <3> QED BY <2>4, <2>5 DEF Iterates
  <2>7. k + 1 \in 0..n
    BY <1>2
  <2> QED BY <2>6, <2>7
<1>3. n \in S
  <2>1. n \in 0..n
    OBVIOUS
  <2> HIDE DEF S
  <2> QED BY <1>1, <1>2, <2>1, Induction
<1> QED BY <1>3

-----------------------------------------------------------------------------
(* Sums over a sequence.                                                   *)
Summed(w, q) == FoldLeft(LAMBDA sum, p : sum + w[p], 0, q)

(* c[i] is the weight of those of 1..i that are in s.                      *)
Counted(c, w, q, s) ==
    /\ c \in [0..Len(q) -> Nat] /\ c[0] = 0
    /\ \A i \in 1..Len(q) : c[i] = c[i - 1] + (IF i \in s THEN w[q[i]] ELSE 0)

LEMMA SomeCount ==
    ASSUME NEW D, NEW w \in [D -> Nat], NEW q \in Seq(D), NEW s
    PROVE  \E c : Counted(c, w, q, s)
<1> DEFINE n == Len(q)
           v == [i \in 1..n |-> IF i \in s THEN w[q[i]] ELSE 0]
           f == [i \in 1..n |-> [x \in Nat |-> x + v[i]]]
<1>1. n \in Nat /\ \A i \in 1..n : q[i] \in D
  OBVIOUS
<1>2. v \in [1..n -> Nat]
  BY <1>1
<1>3. f \in [1..n -> [Nat -> Nat]]
  <2> HIDE DEF v
  <2> QED BY <1>2
<1>4. PICK c : Iterates(c, n, Nat, 0, f)
  <2> HIDE DEF f, n
  <2> QED BY <1>1, <1>3, Recursion
<1>5. c \in [0..n -> Nat] /\ c[0] = 0 /\ \A i \in 1..n : c[i] = f[i][c[i - 1]]
  BY <1>4 DEF Iterates
<1>6. ASSUME NEW i \in 1..n PROVE c[i] = c[i - 1] + v[i]
  <2>1. i - 1 \in 0..n
    BY <1>1
  <2>2. c[i - 1] \in Nat
    BY <1>5, <2>1
  <2> HIDE DEF v
  <2> QED BY <1>5, <2>2
<1>7. Counted(c, w, q, s)
  BY <1>5, <1>6 DEF Counted
<1> QED BY <1>7

(* The weight of a set without one of its members.                         *)
LEMMA CountWithout ==
    ASSUME NEW D, NEW w \in [D -> Nat], NEW q \in Seq(D), NEW s, NEW m \in s, m \in 1..Len(q),
           NEW c, Counted(c, w, q, s), NEW d, Counted(d, w, q, s \ {m})
    PROVE  c[Len(q)] = d[Len(q)] + w[q[m]]
<1> DEFINE n == Len(q)
           S == {i \in 0..n : c[i] = d[i] + (IF i >= m THEN w[q[m]] ELSE 0)}
<1>1. n \in Nat /\ (\A i \in 1..n : q[i] \in D /\ w[q[i]] \in Nat) /\ m \in 1..n
  OBVIOUS
<1>2. c[0] = 0 /\ d[0] = 0 /\ c \in [0..n -> Nat] /\ d \in [0..n -> Nat]
  BY DEF Counted
<1>3. 0 \in S
  BY <1>1, <1>2
<1>4. ASSUME NEW i \in 0..n, i < n, i \in S PROVE i + 1 \in S
  <2>1. i + 1 \in 1..n /\ i + 1 \in 0..n /\ i + 1 - 1 = i
    BY <1>1, <1>4
  <2>2. /\ c[i + 1] = c[i] + (IF i + 1 \in s THEN w[q[i + 1]] ELSE 0)
        /\ d[i + 1] = d[i] + (IF i + 1 \in s \ {m} THEN w[q[i + 1]] ELSE 0)
    BY <2>1 DEF Counted
  <2>3. c[i] \in Nat /\ d[i] \in Nat /\ w[q[m]] \in Nat /\ w[q[i + 1]] \in Nat
    BY <1>1, <1>2, <2>1
  <2>4. CASE i + 1 = m
    BY <1>1, <1>4, <2>1, <2>2, <2>3, <2>4
  <2>5. CASE i + 1 # m
    BY <1>1, <1>4, <2>1, <2>2, <2>3, <2>5, SMTT(20)
  <2> QED BY <2>4, <2>5
<1>5. n \in S
  <2>1. n \in 0..n
    BY <1>1
  <2> HIDE DEF S, n
  <2> QED BY <1>1, <1>3, <1>4, <2>1, Induction
<1> QED BY <1>1, <1>5

LEMMA CountNothing ==
    ASSUME NEW D, NEW w \in [D -> Nat], NEW q \in Seq(D), NEW c, Counted(c, w, q, {})
    PROVE  c[Len(q)] = 0
<1> DEFINE n == Len(q)
           S == {i \in 0..n : c[i] = 0}
<1>1. n \in Nat
  OBVIOUS
<1>2. 0 \in S
  BY <1>1 DEF Counted
<1>3. ASSUME NEW i \in 0..n, i < n, i \in S PROVE i + 1 \in S
  <2>1. i + 1 \in 1..n /\ i + 1 \in 0..n /\ i + 1 - 1 = i
    BY <1>1, <1>3
  <2>2. c[i + 1] = c[i] + 0
    BY <2>1 DEF Counted
  <2> QED BY <1>3, <2>1, <2>2
<1>4. n \in S
  <2>1. n \in 0..n
    BY <1>1
  <2> HIDE DEF S, n
  <2> QED BY <1>1, <1>2, <1>3, <2>1, Induction
<1> QED BY <1>4

LEMMA SumIs ==
    ASSUME NEW D, NEW w \in [D -> Nat], NEW q \in Seq(D)
    PROVE  \E c : Counted(c, w, q, 1..Len(q)) /\ Summed(w, q) = c[Len(q)]
<1> DEFINE n == Len(q)
           S == 1..n
           Rec(h) == h = [s \in SUBSET S |-> IF s = {} THEN 0
                                             ELSE h[s \ {Max(s)}] + w[q[Max(s)]]]
           h == CHOOSE g : Rec(g)
           Count(s) == CHOOSE c : Counted(c, w, q, s)
           g == [s \in SUBSET S |-> Count(s)[n]]
<1>1. n \in Nat /\ DOMAIN q = S /\ \A i \in S : q[i] \in D /\ w[q[i]] \in Nat
  OBVIOUS
<1>2. Summed(w, q) = h[S]
  BY <1>1 DEF Summed, FoldLeft, MapThenFoldSet
<1>3. \A s : Counted(Count(s), w, q, s)
  BY SomeCount
<1>4. ASSUME NEW s \in SUBSET S, s # {} PROVE Max(s) \in s /\ \A x \in s : x <= Max(s)
  <2>1. \E x \in s : \A y \in s : x >= y
    <3> DEFINE T == {n - x : x \in s}
    <3>0. \A x \in s : x \in Nat /\ x <= n
      BY <1>1
    <3>1. T \in SUBSET Nat /\ T # {}
      <4>1. \A x \in s : n - x \in Nat
        BY <1>1, <3>0
      <4> HIDE DEF n
      <4> QED BY <1>4, <4>1
    <3>2. PICK z \in T : \A y \in T : z <= y
      <4> HIDE DEF T
      <4> QED BY <3>1, LeastNat
    <3>3. PICK x \in s : z = n - x
      OBVIOUS
    <3>4. \A y \in s : x >= y
      <4> SUFFICES ASSUME NEW y \in s PROVE x >= y
        OBVIOUS
      <4>1. n - y \in T
        OBVIOUS
      <4>2. z <= n - y
        BY <3>2, <4>1
      <4> HIDE DEF T, n
      <4> QED BY <1>1, <3>0, <3>3, <4>2
    <3> QED BY <3>4
  <2>2. Max(s) \in s /\ \A y \in s : Max(s) >= y
    BY <2>1 DEF Max
  <2> QED BY <1>1, <2>2
<1>5. Rec(g)
  <2>1. ASSUME NEW s \in SUBSET S, s = {} PROVE g[s] = 0
    <3>1. Counted(Count(s), w, q, {})
      BY <1>3, <2>1
    <3> HIDE DEF Count
    <3> QED BY <3>1, CountNothing
  <2>2. ASSUME NEW s \in SUBSET S, s # {} PROVE g[s] = g[s \ {Max(s)}] + w[q[Max(s)]]
    <3> DEFINE m == Max(s)
    <3>1. m \in s /\ m \in S /\ s \ {m} \in SUBSET S
      BY <1>4, <2>2
    <3>2. Counted(Count(s), w, q, s) /\ Counted(Count(s \ {m}), w, q, s \ {m})
      BY <1>3
    <3> HIDE DEF Count, m
    <3>3. Count(s)[n] = Count(s \ {m})[n] + w[q[m]]
      BY <3>1, <3>2, CountWithout
    <3> QED BY <3>1, <3>3 DEF m
  <2> HIDE DEF g
  <2>3. g = [s \in SUBSET S |-> g[s]]
    BY DEF g
  <2> QED BY <2>1, <2>2, <2>3
<1>6. Rec(h)
  <2> HIDE DEF Rec, g
  <2> QED BY <1>5
<1> PICK c : c = Count(S)
  OBVIOUS
<1>7. Counted(c, w, q, S)
  BY <1>3
<1> HIDE DEF h, g, Count
<1>8. c \in [0..n -> Nat] /\ c[0] = 0 /\ \A i \in S : c[i] = c[i - 1] + w[q[i]]
  BY <1>7 DEF Counted
<1>9. \A k \in 0..n : h[1..k] = c[k]
  <2> DEFINE T == {k \in 0..n : h[1..k] = c[k]}
  <2>1. 0 \in T
    <3>1. 1..0 = {} /\ {} \in SUBSET S
      OBVIOUS
    <3>2. h[{}] = 0
      BY <1>6, <3>1
    <3> QED BY <1>1, <1>8, <3>1, <3>2
  <2>2. ASSUME NEW k \in 0..n, k < n, k \in T PROVE k + 1 \in T
    <3> DEFINE s == 1..k + 1
    <3>1. s \in SUBSET S /\ k + 1 \in s /\ s \ {k + 1} = 1..k /\ \A x \in s : x <= k + 1
      BY <1>1, <2>2
    <3>2. Max(s) \in s /\ \A x \in s : x <= Max(s)
      BY <1>4, <3>1
    <3>3. Max(s) = k + 1
      BY <3>1, <3>2
    <3>4. h[s] = h[s \ {Max(s)}] + w[q[Max(s)]]
      <4> HIDE DEF s
      <4> QED BY <1>6, <3>1
    <3>5. h[s] = h[1..k] + w[q[k + 1]]
      BY <3>1, <3>3, <3>4
    <3>6. k + 1 \in S /\ k + 1 \in 0..n /\ k + 1 - 1 = k
      BY <1>1, <2>2
    <3> QED BY <1>8, <2>2, <3>5, <3>6
  <2> HIDE DEF T
  <2>3. \A k \in 0..n : k \in T
    BY <1>1, <2>1, <2>2, Induction
  <2> QED BY <2>3 DEF T
<1>10. h[S] = c[n]
  BY <1>1, <1>9
<1> QED BY <1>2, <1>7, <1>10

(* The sum of nothing, and of one element more.                            *)
LEMMA SumOfNone == ASSUME NEW D, NEW w \in [D -> Nat] PROVE Summed(w, <<>>) = 0
<1>1. <<>> \in Seq(D) /\ Len(<<>>) = 0
  OBVIOUS
<1>2. PICK c : Counted(c, w, <<>>, 1..Len(<<>>)) /\ Summed(w, <<>>) = c[Len(<<>>)]
  BY <1>1, SumIs
<1> QED BY <1>1, <1>2 DEF Counted

SumsOn(w, q, x) == Summed(w, q) \in Nat /\ Summed(w, Append(q, x)) = Summed(w, q) + w[x]

LEMMA SumOfMore ==
    ASSUME NEW D, NEW w \in [D -> Nat], NEW q \in Seq(D), NEW x \in D
    PROVE  SumsOn(w, q, x)
<1> DEFINE n == Len(q)
           r == Append(q, x)
<1>1. n \in Nat /\ r \in Seq(D) /\ Len(r) = n + 1 /\ r[n + 1] = x /\ \A i \in 1..n : r[i] = q[i]
  OBVIOUS
<1>2. PICK c : Counted(c, w, q, 1..n) /\ Summed(w, q) = c[n]
  BY SumIs
<1> HIDE DEF r
<1>3. PICK d : Counted(d, w, r, 1..n + 1) /\ Summed(w, r) = d[n + 1]
  BY <1>1, SumIs
<1>4. c \in [0..n -> Nat] /\ c[0] = 0 /\ \A i \in 1..n : c[i] = c[i - 1] + w[q[i]]
  BY <1>2 DEF Counted
<1>5. d \in [0..n + 1 -> Nat] /\ d[0] = 0 /\ \A i \in 1..n + 1 : d[i] = d[i - 1] + w[r[i]]
  BY <1>1, <1>3 DEF Counted
<1>6. \A i \in 0..n : c[i] = d[i]
  <2> DEFINE S == {i \in 0..n : c[i] = d[i]}
  <2>1. 0 \in S
    BY <1>1, <1>4, <1>5
  <2>2. ASSUME NEW i \in 0..n, i < n, i \in S PROVE i + 1 \in S
    <3>1. i + 1 \in 1..n /\ i + 1 \in 0..n /\ i + 1 - 1 = i /\ i + 1 \in 1..n + 1
      BY <1>1, <2>2
    <3>2. c[i + 1] = c[i] + w[q[i + 1]] /\ d[i + 1] = d[i] + w[q[i + 1]]
      BY <1>1, <1>4, <1>5, <3>1
    <3> QED BY <2>2, <3>1, <3>2
  <2> HIDE DEF S
  <2>3. \A i \in 0..n : i \in S
    BY <1>1, <2>1, <2>2, Induction
  <2> QED BY <2>3 DEF S
<1>7. n \in 0..n /\ n + 1 \in 1..n + 1 /\ n + 1 - 1 = n
  BY <1>1
<1>8. c[n] \in Nat /\ d[n] = c[n]
  BY <1>1, <1>4, <1>6, <1>7
<1>9. d[n + 1] = c[n] + w[x]
  <2>1. d[n + 1] = d[n] + w[r[n + 1]]
    BY <1>5, <1>7
  <2> QED BY <1>1, <1>8, <2>1
<1> QED BY <1>2, <1>3, <1>8, <1>9 DEF r, SumsOn

-----------------------------------------------------------------------------
(* Multiples.                                                              *)
Multiple(v, a) == \E k \in Nat : v = k * a

LEMMA Digits ==
    ASSUME NEW n \in Nat \ {0}, NEW q \in Nat, NEW a \in 0..n-1
    PROVE  (q * n + a) \div n = q /\ (q * n + a) % n = a
OBVIOUS

LEMMA DivMod ==
    ASSUME NEW n \in Nat \ {0}, NEW v \in Nat
    PROVE  v = (v \div n) * n + (v % n) /\ v % n \in 0..n-1 /\ v \div n \in Nat
OBVIOUS

LEMMA MultipleIs ==
    ASSUME NEW a \in Nat \ {0}, NEW v \in Nat
    PROVE  v % a = 0 <=> Multiple(v, a)
<1>1. ASSUME v % a = 0 PROVE Multiple(v, a)
  <2>1. v = (v \div a) * a + 0 /\ v \div a \in Nat
    BY <1>1, DivMod
  <2>2. v = (v \div a) * a
    BY <2>1
  <2> QED BY <2>1, <2>2 DEF Multiple
<1>2. ASSUME NEW k \in Nat, v = k * a PROVE v % a = 0
  <2>1. v = k * a + 0 /\ 0 \in 0..a-1
    BY <1>2
  <2> QED BY <2>1, Digits
<1> QED BY <1>1, <1>2 DEF Multiple

LEMMA MultipleSum ==
    ASSUME NEW a \in Nat, NEW u \in Nat, NEW v \in Nat, Multiple(u, a), Multiple(v, a)
    PROVE  Multiple(u + v, a)
<1>1. PICK k \in Nat, l \in Nat : u = k * a /\ v = l * a
  BY DEF Multiple
<1>2. u + v = (k + l) * a /\ k + l \in Nat
  BY <1>1
<1> QED BY <1>2 DEF Multiple

LEMMA MultipleTrans ==
    ASSUME NEW a \in Nat, NEW b \in Nat, NEW v \in Nat, Multiple(v, b), Multiple(b, a)
    PROVE  Multiple(v, a)
<1>1. PICK k \in Nat, l \in Nat : v = k * b /\ b = l * a
  BY DEF Multiple
<1>2. v = (k * l) * a /\ k * l \in Nat
  BY <1>1
<1> QED BY <1>2 DEF Multiple

(* PadTo rounds up, and leaves a multiple alone.                           *)
LEMMA PadToIs ==
    ASSUME NEW v \in Nat, NEW a \in Nat \ {0}
    PROVE  /\ PadTo(v, a) \in Nat /\ v <= PadTo(v, a) /\ Multiple(PadTo(v, a), a)
           /\ Multiple(v, a) => PadTo(v, a) = v
<1> DEFINE q == (v + a - 1) \div a
           r == (v + a - 1) % a
<1>1. v + a - 1 \in Nat
  OBVIOUS
<1>2. v + a - 1 = q * a + r /\ r \in 0..a-1 /\ q \in Nat
  BY <1>1, DivMod
<1>3. PadTo(v, a) = q * a
  BY DEF PadTo
<1>4. ASSUME NEW k \in Nat, v = k * a PROVE q = k
  <2>1. v + a - 1 = k * a + (a - 1) /\ a - 1 \in 0..a-1
    BY <1>4
  <2> QED BY <2>1, Digits
<1> HIDE DEF q, r
<1>5. q * a \in Nat
  BY <1>2
<1>6. v <= q * a
  BY <1>2, <1>5
<1> QED BY <1>2, <1>3, <1>4, <1>5, <1>6 DEF Multiple

LEMMA LcmIs ==
    ASSUME NEW a \in Nat \ {0}, NEW b \in Nat \ {0}
    PROVE  Lcm(a, b) \in Nat \ {0} /\ Multiple(Lcm(a, b), a) /\ Multiple(Lcm(a, b), b)
<1> DEFINE M == a * b
           T == {m \in 1..M : m % a = 0 /\ m % b = 0}
<1>1. M \in Nat \ {0}
  OBVIOUS
<1>2. M \in T
  <2>1. Multiple(M, a) /\ Multiple(M, b)
    <3>1. a * b = b * a
      OBVIOUS
    <3> QED BY <3>1 DEF Multiple
  <2>2. M % a = 0 /\ M % b = 0
    BY <1>1, <2>1, MultipleIs
  <2> HIDE DEF M
  <2> QED BY <1>1, <2>2
<1> HIDE DEF M
<1>3. PICK m \in T : \A k \in T : m <= k
  <2>1. T \in SUBSET Nat /\ T # {}
    BY <1>2
  <2> HIDE DEF T
  <2> QED BY <2>1, LeastNat
<1>4. \A k \in 1..(m - 1) : k % a # 0 \/ k % b # 0
  <2> SUFFICES ASSUME NEW k \in 1..(m - 1), k % a = 0, k % b = 0 PROVE FALSE
    OBVIOUS
  <2>1. k \in T
    BY <1>1, <1>3
  <2>2. m \in Nat /\ m <= k /\ k \in 1..(m - 1)
    <3>1. m \in 1..M
      OBVIOUS
    <3> HIDE DEF T
    <3> QED BY <1>1, <1>3, <2>1, <3>1
  <2> HIDE DEF T
  <2> QED BY <2>2
<1>5. /\ Lcm(a, b) \in 1..M /\ Lcm(a, b) % a = 0 /\ Lcm(a, b) % b = 0
  BY <1>3, <1>4 DEF Lcm, M
<1> QED BY <1>1, <1>5, MultipleIs

(* Where a bucket ends.                                                    *)
LEMMA BucketEnds ==
    ASSUME NEW v \in Nat, NEW world \in Nat \ {0}
    PROVE  /\ PadBucketEnd(v, world) \in Nat /\ v <= PadBucketEnd(v, world)
           /\ Multiple(PadBucketEnd(v, world), world)
           /\ Multiple(PadBucketEnd(v, world), ParamAlign)
<1>1. ParamAlign \in Nat \ {0} /\ BucketAlign \in Nat \ {0} /\ Multiple(BucketAlign, ParamAlign)
  BY AlignAssumption, MultipleIs
<1> DEFINE m == Lcm(world, BucketAlign)
           e == PadTo(v, m)
<1>2. m \in Nat \ {0} /\ Multiple(m, world) /\ Multiple(m, BucketAlign)
  BY <1>1, LcmIs
<1> HIDE DEF m
<1>3. e \in Nat /\ v <= e /\ Multiple(e, m)
  BY <1>2, PadToIs
<1>4. PadBucketEnd(v, world) = e
  BY DEF PadBucketEnd, m
<1> HIDE DEF e
<1>5. Multiple(e, world) /\ Multiple(e, BucketAlign)
  BY <1>2, <1>3, <1>1, MultipleTrans
<1>6. Multiple(e, ParamAlign)
  BY <1>1, <1>3, <1>5, MultipleTrans
<1> QED BY <1>3, <1>4, <1>5, <1>6

-----------------------------------------------------------------------------
(* The ZeRO layout.                                                        *)
AppendsTo(q, x, D) ==
    /\ Append(q, x) \in Seq(D) /\ Len(Append(q, x)) = Len(q) + 1 /\ Len(q) \in Nat
    /\ DOMAIN q = 1..Len(q) /\ DOMAIN Append(q, x) = 1..Len(q) + 1
    /\ Append(q, x)[Len(q) + 1] = x
    /\ \A i \in 1..Len(q) : Append(q, x)[i] = q[i] /\ q[i] \in D
    /\ ToSet(Append(q, x)) = ToSet(q) \cup {x}

LEMMA AppendIs ==
    ASSUME NEW D, NEW q \in Seq(D), NEW x \in D
    PROVE  AppendsTo(q, x, D)
<1>1. /\ Append(q, x) \in Seq(D) /\ Len(Append(q, x)) = Len(q) + 1
      /\ Len(q) \in Nat /\ DOMAIN q = 1..Len(q) /\ DOMAIN Append(q, x) = 1..Len(q) + 1
      /\ Append(q, x)[Len(q) + 1] = x /\ \A i \in 1..Len(q) : Append(q, x)[i] = q[i] /\ q[i] \in D
  OBVIOUS
<1>2. 1..Len(q) + 1 = (1..Len(q)) \cup {Len(q) + 1}
  BY <1>1
<1> DEFINE r == Append(q, x)
<1> HIDE DEF r
<1>3. DOMAIN r = DOMAIN q \cup {Len(q) + 1} /\ r[Len(q) + 1] = x /\ \A i \in DOMAIN q : r[i] = q[i]
  BY <1>1, <1>2 DEF r
<1>4. {r[i] : i \in DOMAIN r} = {q[i] : i \in DOMAIN q} \cup {x}
  BY <1>3
<1>5. ToSet(Append(q, x)) = ToSet(q) \cup {x}
  BY <1>4 DEF ToSet, r
<1> QED BY <1>1, <1>5 DEF AppendsTo

BucketsOf(n) == [params : Seq(1..n), first : Nat, end : Nat]
LayoutsOf(n) ==
    [buckets : Seq(BucketsOf(n)), at : [1..n -> Nat], start : Nat, first : Nat, open : Seq(1..n)]

(* Parameters one after the other from first, where ParamAndGradBucket     *)
(* takes them to be, and before end.                                       *)
Laid(params, first, end, at, numels) ==
    \A j \in DOMAIN params :
        /\ at[params[j]] = first + Summed(numels, SubSeq(params, 1, j - 1))
        /\ at[params[j]] + numels[params[j]] <= end
        /\ \A i \in 1..j - 1 : at[params[i]] + numels[params[i]] <= at[params[j]]

SoundBucket(bucket, at, numels, world) ==
    /\ Multiple(bucket.first, world) /\ Multiple(bucket.end, world) /\ bucket.first <= bucket.end
    /\ Laid(bucket.params, bucket.first, bucket.end, at, numels)

Holds(bs, b, p) == p \in ToSet(bs[b].params)

(* The parameters of T are packed.                                         *)
Packed(acc, T) ==
    /\ \A p \in T :
          \/ p \in ToSet(acc.open) /\ \A b \in DOMAIN acc.buckets : ~Holds(acc.buckets, b, p)
          \/ /\ p \notin ToSet(acc.open)
             /\ \E b \in DOMAIN acc.buckets :
                   \A c \in DOMAIN acc.buckets : Holds(acc.buckets, c, p) <=> c = b
    /\ ToSet(acc.open) \subseteq T
    /\ \A b \in DOMAIN acc.buckets : ToSet(acc.buckets[b].params) \subseteq T

LayoutInv(acc, numels, world, T) ==
    /\ acc \in LayoutsOf(Len(numels))
    /\ Multiple(acc.first, world) /\ Multiple(acc.start, ParamAlign)
    /\ acc.start = acc.first + Summed(numels, acc.open)
    /\ Laid(acc.open, acc.first, acc.start, acc.at, numels)
    /\ \A b \in DOMAIN acc.buckets :
          /\ SoundBucket(acc.buckets[b], acc.at, numels, world)
          /\ acc.buckets[b].end <= acc.first
          /\ \A c \in DOMAIN acc.buckets : c > b => acc.buckets[b].end <= acc.buckets[c].first
    /\ Packed(acc, T)

(* A place that is not a parameter's may change.                           *)
LEMMA LaidElsewhere ==
    ASSUME NEW params, NEW first, NEW end, NEW at, NEW other, NEW numels,
           Laid(params, first, end, at, numels), \A x \in ToSet(params) : other[x] = at[x],
           DOMAIN params = 1..Len(params), Len(params) \in Nat
    PROVE  Laid(params, first, end, other, numels)
<1>1. \A j \in DOMAIN params : other[params[j]] = at[params[j]]
  BY DEF ToSet
<1>2. \A j \in DOMAIN params : \A i \in 1..j - 1 : i \in DOMAIN params
  OBVIOUS
<1> QED BY <1>1, <1>2 DEF Laid

(* The parameter joins the open bucket.                                    *)
Joined(acc, p, numels) == AddToBucket(acc, p, acc.start, acc.start + numels[p])

LEMMA JoinStep ==
    ASSUME NEW n \in Nat, NEW numels \in [1..n -> Nat], Len(numels) = n, NEW world, NEW T \in SUBSET (1..n),
           NEW acc, LayoutInv(acc, numels, world, T),
           NEW p \in (1..n) \ T, Multiple(numels[p], ParamAlign)
    PROVE  LayoutInv(Joined(acc, p, numels), numels, world, T \cup {p})
<1> DEFINE new == Joined(acc, p, numels)
           m == Len(acc.open)
<1>1. /\ acc \in LayoutsOf(n) /\ acc.buckets \in Seq(BucketsOf(n)) /\ acc.at \in [1..n -> Nat]
      /\ acc.start \in Nat /\ acc.first \in Nat /\ acc.open \in Seq(1..n) /\ numels[p] \in Nat /\ p \in 1..n
      /\ acc.start = acc.first + Summed(numels, acc.open)
  BY DEF LayoutInv, LayoutsOf
<1>0. AppendsTo(acc.open, p, 1..n) /\ SumsOn(numels, acc.open, p)
  <2>1. AppendsTo(acc.open, p, 1..n)
    BY <1>1, AppendIs, Zenon
  <2>2. SumsOn(numels, acc.open, p)
    BY <1>1, SumOfMore, Zenon
  <2> QED BY <2>1, <2>2
<1>2. /\ new.buckets = acc.buckets /\ new.at = [acc.at EXCEPT ![p] = acc.start]
      /\ new.start = acc.start + numels[p] /\ new.first = acc.first /\ new.open = Append(acc.open, p)
      /\ new \in LayoutsOf(n)
  <2>1. new = [acc EXCEPT !.at = [acc.at EXCEPT ![p] = acc.start], !.open = Append(acc.open, p),
                         !.start = acc.start + numels[p]]
    BY <1>1 DEF Joined, AddToBucket, LayoutsOf
  <2>2. [acc.at EXCEPT ![p] = acc.start] \in [1..n -> Nat] /\ acc.start + numels[p] \in Nat
    BY <1>1
  <2>3. Append(acc.open, p) \in Seq(1..n)
    BY <1>0 DEF AppendsTo
  <2> HIDE DEF new
  <2> QED BY <1>1, <2>1, <2>2, <2>3 DEF LayoutsOf
<1> HIDE DEF new
<1>3. Summed(numels, new.open) = Summed(numels, acc.open) + numels[p] /\ Summed(numels, acc.open) \in Nat
  <2>1. /\ Summed(numels, acc.open) \in Nat
        /\ Summed(numels, Append(acc.open, p)) = Summed(numels, acc.open) + numels[p]
    BY <1>0 DEF SumsOn
  <2> QED BY <1>2, <2>1
<1>4. new.start = new.first + Summed(numels, new.open)
  BY <1>1, <1>2, <1>3
<1>5. Multiple(new.start, ParamAlign)
  BY <1>1, <1>2, AlignAssumption, MultipleSum DEF LayoutInv
<1>6. ToSet(new.open) = ToSet(acc.open) \cup {p}
  <2>1. ToSet(Append(acc.open, p)) = ToSet(acc.open) \cup {p}
    BY <1>0 DEF AppendsTo
  <2> QED BY <1>2, <2>1
<1>7. /\ p \notin ToSet(acc.open)
      /\ \A b \in DOMAIN acc.buckets : p \notin ToSet(acc.buckets[b].params)
  BY DEF LayoutInv, Packed
<1>8. new.at[p] = acc.start /\ \A x \in 1..n : x # p => new.at[x] = acc.at[x]
  BY <1>1, <1>2
<1>9. /\ m \in Nat /\ DOMAIN acc.open = 1..m /\ DOMAIN new.open = 1..m + 1 /\ new.open[m + 1] = p
      /\ \A j \in 1..m : new.open[j] = acc.open[j] /\ acc.open[j] \in 1..n /\ acc.open[j] # p
      /\ \A j \in 1..m : SubSeq(new.open, 1, j - 1) = SubSeq(acc.open, 1, j - 1)
      /\ SubSeq(new.open, 1, m) = acc.open
  <2>1. /\ m \in Nat /\ DOMAIN acc.open = 1..m /\ DOMAIN new.open = 1..m + 1 /\ new.open[m + 1] = p
        /\ \A j \in 1..m : new.open[j] = acc.open[j] /\ acc.open[j] \in 1..n
    <3>1. /\ m \in Nat /\ DOMAIN acc.open = 1..m /\ DOMAIN Append(acc.open, p) = 1..m + 1
          /\ Append(acc.open, p)[m + 1] = p
          /\ \A j \in 1..m : Append(acc.open, p)[j] = acc.open[j] /\ acc.open[j] \in 1..n
      BY <1>0 DEF AppendsTo
    <3> QED BY <1>2, <3>1
  <2>2. \A j \in 1..m : acc.open[j] # p
    BY <1>7, <2>1 DEF ToSet
  <2>3. \A j \in 0..m : SubSeq(new.open, 1, j) = SubSeq(acc.open, 1, j)
    <3> SUFFICES ASSUME NEW j \in 0..m PROVE SubSeq(new.open, 1, j) = SubSeq(acc.open, 1, j)
      OBVIOUS
    <3>1. \A i \in 1..j : new.open[i] = acc.open[i]
      BY <2>1
    <3> QED BY <2>1, <3>1
  <2>4. SubSeq(acc.open, 1, m) = acc.open
    BY <1>1
  <2>5. m \in 0..m /\ \A j \in 1..m : j - 1 \in 0..m
    BY <2>1
  <2> QED BY <2>1, <2>2, <2>3, <2>4, <2>5
<1>10. Laid(new.open, new.first, new.start, new.at, numels)
  <2> SUFFICES ASSUME NEW j \in 1..m + 1
               PROVE  /\ new.at[new.open[j]] = new.first + Summed(numels, SubSeq(new.open, 1, j - 1))
                      /\ new.at[new.open[j]] + numels[new.open[j]] <= new.start
                      /\ \A i \in 1..j - 1 : new.at[new.open[i]] + numels[new.open[i]] <= new.at[new.open[j]]
    BY <1>9 DEF Laid
  <2>1. \A i \in 1..m :
           /\ acc.at[acc.open[i]] = acc.first + Summed(numels, SubSeq(acc.open, 1, i - 1))
           /\ acc.at[acc.open[i]] + numels[acc.open[i]] <= acc.start
           /\ \A k \in 1..i - 1 : acc.at[acc.open[k]] + numels[acc.open[k]] <= acc.at[acc.open[i]]
    BY <1>9 DEF LayoutInv, Laid
  <2>2. \A i \in 1..m : new.at[new.open[i]] = acc.at[acc.open[i]] /\ new.open[i] = acc.open[i]
                        /\ acc.at[acc.open[i]] \in Nat /\ numels[acc.open[i]] \in Nat
    BY <1>1, <1>8, <1>9
  <2>3. CASE j \in 1..m
    <3>1. \A i \in 1..j - 1 : i \in 1..m
      BY <1>9, <2>3
    <3>2. new.at[new.open[j]] = new.first + Summed(numels, SubSeq(new.open, 1, j - 1))
      BY <1>2, <1>9, <2>1, <2>2, <2>3
    <3>3. new.at[new.open[j]] + numels[new.open[j]] <= new.start
      <4>1. acc.at[acc.open[j]] + numels[acc.open[j]] <= acc.start
        BY <2>1, <2>3
      <4>2. /\ new.at[new.open[j]] = acc.at[acc.open[j]] /\ new.open[j] = acc.open[j]
            /\ acc.at[acc.open[j]] \in Nat /\ numels[acc.open[j]] \in Nat
        BY <2>2, <2>3
      <4>3. new.start = acc.start + numels[p] /\ acc.start \in Nat /\ numels[p] \in Nat
        BY <1>1, <1>2
      <4> QED BY <4>1, <4>2, <4>3, SMTT(20)
    <3>4. \A i \in 1..j - 1 : new.at[new.open[i]] + numels[new.open[i]] <= new.at[new.open[j]]
      BY <2>1, <2>2, <2>3, <3>1
    <3> QED BY <3>2, <3>3, <3>4
  <2>4. CASE j \notin 1..m
    <3>1. j = m + 1 /\ j - 1 = m
      BY <1>9, <2>4
    <3>2. new.at[new.open[j]] = acc.start /\ new.open[j] = p
      BY <1>8, <1>9, <3>1
    <3>3. \A i \in 1..m : new.at[new.open[i]] + numels[new.open[i]] <= acc.start
      BY <2>1, <2>2
    <3>4. acc.start = new.first + Summed(numels, SubSeq(new.open, 1, j - 1))
      BY <1>1, <1>2, <1>9, <3>1
    <3>5. new.at[new.open[j]] + numels[new.open[j]] <= new.start
      BY <1>1, <1>2, <3>2, SMTT(20)
    <3> QED BY <3>1, <3>2, <3>3, <3>4, <3>5
  <2> QED BY <2>3, <2>4
<1>11. ASSUME NEW b \in DOMAIN new.buckets
       PROVE  /\ SoundBucket(new.buckets[b], new.at, numels, world)
              /\ new.buckets[b].end <= new.first
              /\ \A c \in DOMAIN new.buckets : c > b => new.buckets[b].end <= new.buckets[c].first
  <2> DEFINE bucket == acc.buckets[b]
  <2>1. bucket \in BucketsOf(n)
    BY <1>1, <1>2, <1>11
  <2>2. bucket.params \in Seq(1..n)
    BY <2>1 DEF BucketsOf
  <2>3. ToSet(bucket.params) \subseteq (1..n) \ {p}
    BY <1>2, <1>7, <1>11, <2>2 DEF ToSet
  <2>4. \A x \in ToSet(bucket.params) : new.at[x] = acc.at[x]
    BY <1>8, <2>3
  <2>5. SoundBucket(bucket, acc.at, numels, world) /\ bucket.end <= acc.first
        /\ \A c \in DOMAIN acc.buckets : c > b => bucket.end <= acc.buckets[c].first
    BY <1>2, <1>11 DEF LayoutInv
  <2>6. DOMAIN bucket.params = 1..Len(bucket.params) /\ Len(bucket.params) \in Nat
    BY <2>2
  <2> HIDE DEF bucket
  <2>7. Laid(bucket.params, bucket.first, bucket.end, new.at, numels)
    BY <2>4, <2>5, <2>6, LaidElsewhere DEF SoundBucket
  <2>8. SoundBucket(bucket, new.at, numels, world)
    BY <2>5, <2>7 DEF SoundBucket
  <2> QED BY <1>2, <2>5, <2>8 DEF bucket
<1>12. Packed(new, T \cup {p})
  BY <1>2, <1>6, <1>7 DEF LayoutInv, Packed, Holds
<1> QED BY <1>2, <1>4, <1>5, <1>10, <1>11, <1>12 DEF LayoutInv, new

LEMMA SumNat == ASSUME NEW D, NEW w \in [D -> Nat], NEW q \in Seq(D) PROVE Summed(w, q) \in Nat
<1>1. PICK c : Counted(c, w, q, 1..Len(q)) /\ Summed(w, q) = c[Len(q)]
  BY SumIs
<1>2. Len(q) \in 0..Len(q)
  OBVIOUS
<1> QED BY <1>1, <1>2 DEF Counted

LEMMA ElementOf == ASSUME NEW D, NEW q \in Seq(D), NEW j \in DOMAIN q PROVE q[j] \in D
OBVIOUS

(* The open bucket is closed.                                              *)
LEMMA CloseStep ==
    ASSUME NEW n \in Nat, NEW numels \in [1..n -> Nat], Len(numels) = n, NEW world \in Nat \ {0},
           NEW T \in SUBSET (1..n), NEW acc, LayoutInv(acc, numels, world, T)
    PROVE  /\ LayoutInv(CloseBucket(acc, acc.start, world), numels, world, T)
           /\ CloseBucket(acc, acc.start, world).open = <<>>
<1> DEFINE new == CloseBucket(acc, acc.start, world)
           e == PadBucketEnd(acc.start, world)
           bucket == [params |-> acc.open, first |-> acc.first, end |-> e]
           m == Len(acc.buckets)
<1>1. /\ acc \in LayoutsOf(n) /\ acc.buckets \in Seq(BucketsOf(n)) /\ acc.at \in [1..n -> Nat]
      /\ acc.start \in Nat /\ acc.first \in Nat /\ acc.open \in Seq(1..n)
      /\ acc.start = acc.first + Summed(numels, acc.open)
  BY DEF LayoutInv, LayoutsOf
<1>2. Summed(numels, acc.open) \in Nat /\ Summed(numels, <<>>) = 0
  <2>1. Summed(numels, acc.open) \in Nat
    BY <1>1, SumNat, Zenon
  <2>2. Summed(numels, <<>>) = 0
    BY SumOfNone, Zenon
  <2> QED BY <2>1, <2>2
<1>3. e \in Nat /\ acc.start <= e /\ Multiple(e, world) /\ Multiple(e, ParamAlign)
  BY <1>1, BucketEnds
<1>4. acc.first <= acc.start
  BY <1>1, <1>2
<1>5. bucket \in BucketsOf(n) /\ bucket.params = acc.open /\ bucket.first = acc.first /\ bucket.end = e
  <2> HIDE DEF e
  <2> QED BY <1>1, <1>3 DEF BucketsOf
<1>6. /\ new.buckets = Append(acc.buckets, bucket) /\ new.at = acc.at /\ new.start = e
      /\ new.first = e /\ new.open = <<>>
      /\ new = [buckets |-> Append(acc.buckets, bucket), at |-> acc.at, start |-> e, first |-> e,
                open |-> <<>>]
  <2>1. new = [acc EXCEPT !.buckets = Append(acc.buckets, bucket), !.start = e, !.first = e, !.open = <<>>]
    BY <1>1 DEF CloseBucket, LayoutsOf
  <2> HIDE DEF new, e, bucket
  <2>2. new = [buckets |-> Append(acc.buckets, bucket), at |-> acc.at, start |-> e, first |-> e,
               open |-> <<>>]
    BY <1>1, <2>1 DEF LayoutsOf
  <2> QED BY <2>2
<1> HIDE DEF new, e, bucket
<1>7. AppendsTo(acc.buckets, bucket, BucketsOf(n))
  BY <1>1, <1>5, AppendIs, Zenon
<1>8. /\ new.buckets \in Seq(BucketsOf(n)) /\ m \in Nat /\ DOMAIN acc.buckets = 1..m
      /\ DOMAIN new.buckets = 1..m + 1 /\ new.buckets[m + 1] = bucket
      /\ \A b \in 1..m : new.buckets[b] = acc.buckets[b] /\ acc.buckets[b] \in BucketsOf(n)
  <2>1. /\ Append(acc.buckets, bucket) \in Seq(BucketsOf(n)) /\ m \in Nat /\ DOMAIN acc.buckets = 1..m
        /\ DOMAIN Append(acc.buckets, bucket) = 1..m + 1 /\ Append(acc.buckets, bucket)[m + 1] = bucket
        /\ \A b \in 1..m : /\ Append(acc.buckets, bucket)[b] = acc.buckets[b]
                           /\ acc.buckets[b] \in BucketsOf(n)
    BY <1>7 DEF AppendsTo
  <2> QED BY <1>6, <2>1
<1>9. new \in LayoutsOf(n)
  <2>1. <<>> \in Seq(1..n)
    OBVIOUS
  <2> QED BY <1>1, <1>3, <1>6, <1>8, <2>1 DEF LayoutsOf
<1>10. /\ Multiple(new.first, world) /\ Multiple(new.start, ParamAlign)
       /\ new.start = new.first + Summed(numels, new.open)
  BY <1>2, <1>3, <1>6
<1>11. ToSet(new.open) = {} /\ Laid(new.open, new.first, new.start, new.at, numels)
  <2>1. DOMAIN new.open = {}
    BY <1>6
  <2> QED BY <2>1 DEF ToSet, Laid
<1>12. \A b \in 1..m : /\ SoundBucket(acc.buckets[b], acc.at, numels, world)
                      /\ acc.buckets[b].end <= acc.first
                      /\ \A c \in 1..m : c > b => acc.buckets[b].end <= acc.buckets[c].first
  BY <1>8 DEF LayoutInv
<1>13. SoundBucket(bucket, acc.at, numels, world)
  <2>1. Multiple(bucket.first, world) /\ Multiple(bucket.end, world)
    BY <1>3, <1>5 DEF LayoutInv
  <2>2. bucket.first <= bucket.end
    BY <1>1, <1>3, <1>4, <1>5
  <2>3. ASSUME NEW j \in DOMAIN acc.open PROVE acc.at[acc.open[j]] + numels[acc.open[j]] <= e
    <3>1. acc.at[acc.open[j]] + numels[acc.open[j]] <= acc.start
      BY <2>3 DEF LayoutInv, Laid
    <3>2. acc.open[j] \in 1..n
      BY <1>1, <2>3, ElementOf, Zenon
    <3>3. acc.at[acc.open[j]] \in Nat /\ numels[acc.open[j]] \in Nat
      BY <1>1, <3>2
    <3>4. acc.start \in Nat /\ e \in Nat /\ acc.start <= e
      BY <1>1, <1>3
    <3> QED BY <3>1, <3>3, <3>4
  <2>4. Laid(acc.open, acc.first, e, acc.at, numels)
    BY <2>3 DEF LayoutInv, Laid
  <2> QED BY <1>5, <2>1, <2>2, <2>4 DEF SoundBucket
<1>14. ASSUME NEW b \in 1..m + 1
       PROVE  /\ SoundBucket(new.buckets[b], new.at, numels, world)
              /\ new.buckets[b].end <= new.first
              /\ \A c \in 1..m + 1 : c > b => new.buckets[b].end <= new.buckets[c].first
  <2>1. CASE b = m + 1
    <3>1. \A c \in 1..m + 1 : ~(c > b)
      BY <1>8, <2>1
    <3> QED BY <1>3, <1>5, <1>6, <1>8, <1>13, <2>1, <3>1
  <2>2. CASE b # m + 1
    <3>1. b \in 1..m
      BY <1>8, <2>2
    <3>2. new.buckets[b] = acc.buckets[b] /\ acc.buckets[b].end \in Nat
      BY <1>8, <3>1 DEF BucketsOf
    <3>3. new.buckets[b].end <= new.first
      BY <1>1, <1>3, <1>4, <1>6, <1>12, <3>1, <3>2, SMTT(20)
    <3>4. ASSUME NEW c \in 1..m + 1, c > b PROVE new.buckets[b].end <= new.buckets[c].first
      <4>1. CASE c = m + 1
        BY <1>5, <1>8, <1>12, <3>1, <3>2, <4>1
      <4>2. CASE c # m + 1
        <5>1. c \in 1..m /\ new.buckets[c] = acc.buckets[c]
          BY <1>8, <4>2
        <5>2. acc.buckets[b].end <= acc.buckets[c].first
          BY <1>12, <3>1, <3>4, <5>1
        <5> QED BY <3>2, <5>1, <5>2
      <4> QED BY <4>1, <4>2
    <3> QED BY <1>6, <1>12, <3>1, <3>2, <3>3, <3>4
  <2> QED BY <2>1, <2>2
<1>15. Packed(new, T)
  <2>1. \A b \in 1..m : \A p : Holds(new.buckets, b, p) <=> Holds(acc.buckets, b, p)
    BY <1>8 DEF Holds
  <2>2. \A p : Holds(new.buckets, m + 1, p) <=> p \in ToSet(acc.open)
    BY <1>5, <1>8 DEF Holds
  <2>3. \A c \in 1..m + 1 : c \in 1..m \/ c = m + 1
    BY <1>8
  <2>4. m + 1 \in 1..m + 1 /\ m + 1 \notin 1..m /\ \A c \in 1..m : c \in 1..m + 1
    BY <1>8
  <2>5. ASSUME NEW p \in T
        PROVE  \E b \in 1..m + 1 : \A c \in 1..m + 1 : Holds(new.buckets, c, p) <=> c = b
    <3>0. 1..m = DOMAIN acc.buckets
      BY <1>8
    <3>1. CASE p \in ToSet(acc.open) /\ \A b \in DOMAIN acc.buckets : ~Holds(acc.buckets, b, p)
      <4>0. \A b \in 1..m : ~Holds(acc.buckets, b, p)
        BY <3>0, <3>1
      <4>1. \A c \in 1..m + 1 : Holds(new.buckets, c, p) <=> c = m + 1
        BY <2>1, <2>2, <2>3, <2>4, <3>1, <4>0, Zenon
      <4> QED BY <2>4, <4>1
    <3>2. CASE /\ p \notin ToSet(acc.open)
               /\ \E b \in DOMAIN acc.buckets :
                     \A c \in DOMAIN acc.buckets : Holds(acc.buckets, c, p) <=> c = b
      <4>0. PICK b \in DOMAIN acc.buckets :
               \A c \in DOMAIN acc.buckets : Holds(acc.buckets, c, p) <=> c = b
        BY <3>2, Zenon
      <4>1. b \in 1..m /\ \A c \in 1..m : Holds(acc.buckets, c, p) <=> c = b
        BY <3>0, <4>0
      <4>2. \A c \in 1..m + 1 : Holds(new.buckets, c, p) <=> c = b
        BY <2>1, <2>2, <2>3, <2>4, <3>2, <4>1, Zenon
      <4> QED BY <2>4, <4>1, <4>2
    <3> QED BY <3>1, <3>2, Zenon DEF LayoutInv, Packed
  <2>6. \A b \in 1..m + 1 : ToSet(new.buckets[b].params) \subseteq T
    BY <1>5, <1>8, <2>3 DEF LayoutInv, Packed
  <2>7. /\ \A p \in T : p \notin ToSet(new.open)
        /\ ToSet(new.open) \subseteq T /\ DOMAIN new.buckets = 1..m + 1
    BY <1>8, <1>11
  <2>8. /\ \A p \in T : p \notin ToSet(new.open) /\ ToSet(new.open) \subseteq T
        /\ \A p \in T : \E b \in DOMAIN new.buckets :
              \A c \in DOMAIN new.buckets : Holds(new.buckets, c, p) <=> c = b
        /\ \A b \in DOMAIN new.buckets : ToSet(new.buckets[b].params) \subseteq T
    BY <2>5, <2>6, <2>7
  <2> QED BY <2>7, <2>8, Zenon DEF Packed
<1>16. LayoutInv(new, numels, world, T)
  BY <1>8, <1>9, <1>10, <1>11, <1>14, <1>15 DEF LayoutInv
<1> QED BY <1>6, <1>16 DEF new

(* One parameter: where the last one ended is aligned for the next.        *)
LEMMA PackStep ==
    ASSUME NEW n \in Nat, NEW numels \in [1..n -> Nat], Len(numels) = n, NEW world \in Nat \ {0}, NEW size,
           NEW T \in SUBSET (1..n), NEW acc, LayoutInv(acc, numels, world, T),
           NEW p \in (1..n) \ T, Multiple(numels[p], ParamAlign)
    PROVE  LayoutInv(PackParam(acc, p, numels, world, size), numels, world, T \cup {p})
<1> DEFINE new == Joined(acc, p, numels)
<1>1. acc.start \in Nat /\ Multiple(acc.start, ParamAlign) /\ acc \in LayoutsOf(n)
  BY DEF LayoutInv, LayoutsOf
<1>2. PadTo(acc.start, ParamAlign) = acc.start
  BY <1>1, AlignAssumption, PadToIs
<1>3. LayoutInv(new, numels, world, T \cup {p})
  <2> HIDE DEF new
  <2> QED BY JoinStep DEF new
<1>4. new.start = acc.start + numels[p]
  BY <1>1 DEF Joined, AddToBucket, LayoutsOf
<1>5. LayoutInv(CloseBucket(new, new.start, world), numels, world, T \cup {p})
  <2>1. T \cup {p} \in SUBSET (1..n)
    OBVIOUS
  <2> HIDE DEF new
  <2> QED BY <1>3, <2>1, CloseStep
<1>6. PackParam(acc, p, numels, world, size) \in {new, CloseBucket(new, new.start, world)}
  <2> DEFINE From(start, end) == IF end - acc.first >= size
                                 THEN CloseBucket(AddToBucket(acc, p, start, end), end, world)
                                 ELSE AddToBucket(acc, p, start, end)
             s == acc.start
             t == acc.start + numels[p]
             Result == IF t - acc.first >= size THEN CloseBucket(new, t, world) ELSE new
  <2>1. PackParam(acc, p, numels, world, size) =
          From(PadTo(s, ParamAlign), PadTo(s, ParamAlign) + numels[p])
    BY DEF PackParam
  <2>2. From(s, t) = Result
    BY DEF Joined
  <2> HIDE DEF From, new
  <2>3. Result \in {new, CloseBucket(new, new.start, world)}
    BY <1>4
  <2> HIDE DEF Result
  <2>4. From(PadTo(s, ParamAlign), PadTo(s, ParamAlign) + numels[p]) = From(s, t)
    BY <1>2
  <2> QED BY <2>1, <2>2, <2>3, <2>4
<1> QED BY <1>3, <1>5, <1>6

LEMMA LayoutIs ==
    ASSUME NEW n \in Nat, NEW numels \in [1..n -> Nat], NEW world \in Nat \ {0}, NEW size,
           \A p \in 1..n : Multiple(numels[p], ParamAlign)
    PROVE  /\ LayoutInv(BuildBuckets(numels, world, size), numels, world, 1..n)
           /\ BuildBuckets(numels, world, size).open = <<>>
<1> DEFINE X == LayoutsOf(n)
           x0 == [buckets |-> <<>>, at |-> [p \in 1..n |-> 0], start |-> 0, first |-> 0, open |-> <<>>]
           Pack(x, i) == PackParam(x, n + 1 - i, numels, world, size)
           f == [i \in 1..n |-> [x \in X |-> IF Pack(x, i) \in X THEN Pack(x, i) ELSE x]]
           Rec(h) == h = [i \in 0..n |-> IF i = 0 THEN x0 ELSE Pack(h[i - 1], i)]
           Inv(x, i) == LayoutInv(x, numels, world, (n + 1 - i)..n)
           packed == CHOOSE h : Rec(h)
<1>1. Len(numels) = n
  OBVIOUS
<1>2. x0 \in X /\ Inv(x0, 0)
  <2>1. <<>> \in Seq(BucketsOf(n)) /\ <<>> \in Seq(1..n) /\ [p \in 1..n |-> 0] \in [1..n -> Nat]
    OBVIOUS
  <2>2. x0 \in X
    BY <2>1 DEF LayoutsOf
  <2>3. Multiple(0, world) /\ Multiple(0, ParamAlign)
    BY AlignAssumption DEF Multiple
  <2>4. Summed(numels, <<>>) = 0
    BY SumOfNone, Zenon
  <2>5. (n + 1 - 0)..n = {} /\ ToSet(<<>>) = {} /\ DOMAIN <<>> = {}
    BY DEF ToSet
  <2>6. x0.buckets = <<>> /\ x0.open = <<>> /\ x0.start = 0 /\ x0.first = 0
    OBVIOUS
  <2> HIDE DEF x0
  <2>7. Laid(x0.open, x0.first, x0.start, x0.at, numels) /\ Packed(x0, {})
    BY <2>5, <2>6 DEF Laid, Packed
  <2>8. x0.start = x0.first + Summed(numels, x0.open)
    BY <2>4, <2>6
  <2>9. LayoutInv(x0, numels, world, {})
    BY <1>1, <2>2, <2>3, <2>5, <2>6, <2>7, <2>8 DEF LayoutInv
  <2> QED BY <2>2, <2>5, <2>9
<1> HIDE DEF x0
<1>3. ASSUME NEW i \in 1..n, NEW x \in X, Inv(x, i - 1) PROVE Inv(Pack(x, i), i) /\ Pack(x, i) \in X
  <2> DEFINE p == n + 1 - i
             T == (n + 1 - (i - 1))..n
  <2>1. p \in (1..n) \ T /\ T \in SUBSET (1..n) /\ T \cup {p} = (n + 1 - i)..n
    OBVIOUS
  <2>2. LayoutInv(x, numels, world, T) /\ Multiple(numels[p], ParamAlign)
    BY <1>3, <2>1
  <2> HIDE DEF p, T
  <2>3. LayoutInv(PackParam(x, p, numels, world, size), numels, world, T \cup {p})
    BY <1>1, <2>1, <2>2, PackStep
  <2>4. Inv(Pack(x, i), i)
    BY <2>1, <2>3 DEF p
  <2> QED BY <1>1, <2>4 DEF LayoutInv
<1>4. PICK h : Iterates(h, n, X, x0, f)
  <2>1. f \in [1..n -> [X -> X]]
    <3> HIDE DEF X, Pack
    <3> QED OBVIOUS
  <2> HIDE DEF f, X
  <2> QED BY <1>2, <2>1, Recursion
<1>5. /\ h \in [0..n -> X] /\ h[0] = x0
      /\ \A i \in 1..n : h[i] = IF Pack(h[i - 1], i) \in X THEN Pack(h[i - 1], i) ELSE h[i - 1]
  <2>1. h \in [0..n -> X] /\ h[0] = x0 /\ \A i \in 1..n : h[i] = f[i][h[i - 1]]
    BY <1>4 DEF Iterates
  <2>2. \A i \in 1..n : h[i - 1] \in X
    <3> HIDE DEF X
    <3> QED BY <2>1
  <2> HIDE DEF X, Pack
  <2> QED BY <2>1, <2>2
<1>6. \A i \in 0..n : Inv(h[i], i)
  <2> DEFINE S == {i \in 0..n : Inv(h[i], i)}
  <2> HIDE DEF Inv, Pack, X
  <2>1. 0 \in S
    BY <1>2, <1>5
  <2>2. ASSUME NEW i \in 0..n, i < n, i \in S PROVE i + 1 \in S
    <3>1. i + 1 \in 1..n /\ i + 1 \in 0..n /\ i + 1 - 1 = i
      BY <2>2
    <3>2. h[i] \in X /\ Inv(h[i], i)
      BY <1>5, <2>2
    <3>3. Inv(Pack(h[i], i + 1), i + 1) /\ Pack(h[i], i + 1) \in X
      BY <1>3, <3>1, <3>2
    <3>4. h[i + 1] = IF Pack(h[i], i + 1) \in X THEN Pack(h[i], i + 1) ELSE h[i]
      BY <1>5, <3>1
    <3> QED BY <3>1, <3>3, <3>4
  <2> HIDE DEF S
  <2>3. \A i \in 0..n : i \in S
    BY <2>1, <2>2, Induction
  <2> QED BY <2>3 DEF S
<1>7. Rec(h)
  <2> HIDE DEF Inv, Pack, X
  <2>1. ASSUME NEW i \in 0..n, i # 0 PROVE h[i] = Pack(h[i - 1], i)
    <3>1. i \in 1..n /\ i - 1 \in 0..n
      BY <2>1
    <3>2. h[i - 1] \in X /\ Inv(h[i - 1], i - 1)
      BY <1>5, <1>6, <3>1
    <3> QED BY <1>3, <1>5, <3>1, <3>2
  <2> QED BY <1>5, <2>1
<1>8. Rec(packed)
  <2> HIDE DEF Rec
  <2> QED BY <1>7
<1>9. \A i \in 0..n : Inv(packed[i], i)
  <2> DEFINE S == {i \in 0..n : Inv(packed[i], i) /\ packed[i] \in X}
  <2> HIDE DEF Inv, Pack, X, packed
  <2>1. 0 \in S
    BY <1>2, <1>8
  <2>2. ASSUME NEW i \in 0..n, i < n, i \in S PROVE i + 1 \in S
    <3>1. i + 1 \in 1..n /\ i + 1 \in 0..n /\ i + 1 - 1 = i /\ i + 1 # 0
      BY <2>2
    <3>2. packed[i + 1] = Pack(packed[i], i + 1)
      BY <1>8, <3>1
    <3> QED BY <1>3, <2>2, <3>1, <3>2
  <2> HIDE DEF S
  <2>3. \A i \in 0..n : i \in S
    BY <2>1, <2>2, Induction
  <2> QED BY <2>3 DEF S
<1> DEFINE last == packed[n]
<1>10. LayoutInv(last, numels, world, 1..n)
  <2>1. (n + 1 - n)..n = 1..n
    OBVIOUS
  <2> HIDE DEF packed
  <2> QED BY <1>9, <2>1
<1>11. BuildBuckets(numels, world, size) =
         IF last.open = <<>> THEN last ELSE CloseBucket(last, last.start, world)
  <2> DEFINE Built(k) ==
               LET row[i \in 0..k] ==
                       IF i = 0
                       THEN [buckets |-> <<>>, at |-> [p \in 1..k |-> 0],
                             start |-> 0, first |-> 0, open |-> <<>>]
                       ELSE PackParam(row[i - 1], k + 1 - i, numels, world, size)
                   end == row[k]
               IN  IF end.open = <<>> THEN end ELSE CloseBucket(end, end.start, world)
  <2>1. BuildBuckets(numels, world, size) = Built(Len(numels))
    BY DEF BuildBuckets
  <2>2. Built(n) = IF last.open = <<>> THEN last ELSE CloseBucket(last, last.start, world)
    BY DEF x0
  <2> HIDE DEF Built, last
  <2> QED BY <1>1, <2>1, <2>2
<1> HIDE DEF last
<1>12. /\ LayoutInv(CloseBucket(last, last.start, world), numels, world, 1..n)
       /\ CloseBucket(last, last.start, world).open = <<>>
  <2>1. 1..n \in SUBSET (1..n)
    OBVIOUS
  <2> QED BY <1>1, <1>10, <2>1, CloseStep
<1> QED BY <1>10, <1>11, <1>12

(* Equal shards divide a bucket.                                           *)
LEMMA Shards ==
    ASSUME NEW k \in Nat, NEW world \in Nat \ {0}
    PROVE  /\ \A x \in 0..(k * world - 1) : \E r \in 0..(world - 1) : x \in (k * r)..(k * (r + 1) - 1)
           /\ \A r, s \in 0..(world - 1) :
                 r # s => ((k * r)..(k * (r + 1) - 1)) \cap ((k * s)..(k * (s + 1) - 1)) = {}
<1>1. \A r, s \in Nat : r <= s => k * r <= k * s
  <2> SUFFICES ASSUME NEW r \in Nat, NEW s \in Nat, r <= s PROVE k * r <= k * s
    OBVIOUS
  <2>1. PICK d \in Nat : s = r + d
    <3>1. s - r \in Nat /\ s = r + (s - r)
      OBVIOUS
    <3> QED BY <3>1
  <2>2. k * s = k * r + k * d
    BY <2>1
  <2>3. k * r \in Nat /\ k * d \in Nat
    BY <2>1
  <2> DEFINE A == k * r
             B == k * d
  <2> HIDE DEF A, B
  <2>4. A + B >= A
    BY <2>3 DEF A, B
  <2> QED BY <2>2, <2>4 DEF A, B
<1>2. ASSUME NEW x \in 0..(k * world - 1)
      PROVE  \E r \in 0..(world - 1) : x \in (k * r)..(k * (r + 1) - 1)
  <2>1. k * world \in Nat
    OBVIOUS
  <2>2. k # 0
    BY <2>1
  <2> DEFINE r == x \div k
             M == r * k
             W == k * world
  <2>3. x \in Nat /\ x < W
    BY <2>1
  <2>4. x = M + (x % k) /\ x % k \in 0..k-1 /\ r \in Nat
    BY <2>2, <2>3, DivMod
  <2> HIDE DEF r
  <2>5. M = k * r /\ k * (r + 1) = M + k /\ M \in Nat
    BY <2>4
  <2>6. r < world
    <3> SUFFICES ASSUME world <= r PROVE FALSE
      BY <2>4
    <3>1. W <= M
      BY <1>1, <2>4, <2>5
    <3> HIDE DEF W, M
    <3> QED BY <2>1, <2>3, <2>4, <2>5, <3>1 DEF W
  <2>7. x \in M..(M + k - 1)
    <3> HIDE DEF M, W
    <3> QED BY <2>3, <2>4, <2>5
  <2> HIDE DEF M
  <2>8. r \in 0..(world - 1)
    BY <2>4, <2>6
  <2> QED BY <2>5, <2>7, <2>8
<1>3. ASSUME NEW r \in Nat, NEW s \in Nat, r < s
      PROVE  ((k * r)..(k * (r + 1) - 1)) \cap ((k * s)..(k * (s + 1) - 1)) = {}
  <2>1. k * (r + 1) <= k * s
    BY <1>1, <1>3
  <2> DEFINE A == k * (r + 1)
             B == k * s
  <2>2. A \in Nat /\ B \in Nat
    OBVIOUS
  <2> HIDE DEF A, B
  <2>3. \A x \in Int : ~(x <= A - 1 /\ x >= B)
    BY <2>1, <2>2 DEF A, B
  <2> QED BY <2>3 DEF A, B
<1>4. ASSUME NEW r \in 0..(world - 1), NEW s \in 0..(world - 1), r # s
      PROVE  ((k * r)..(k * (r + 1) - 1)) \cap ((k * s)..(k * (s + 1) - 1)) = {}
  <2>1. r \in Nat /\ s \in Nat /\ (r < s \/ s < r)
    BY <1>4
  <2> QED BY <1>3, <2>1
<1> QED BY <1>2, <1>4

(* A bucket of whole multiples divides evenly.                             *)
LEMMA EvenShards ==
    ASSUME NEW world \in Nat \ {0}, NEW first \in Nat, NEW end \in Nat, first <= end,
           Multiple(first, world), Multiple(end, world)
    PROVE  \E k \in Nat : /\ end - first = k * world
                         /\ (end - first) \div world = k /\ (end - first) % world = 0
<1>1. PICK a \in Nat, b \in Nat : first = a * world /\ end = b * world
  BY DEF Multiple
<1>2. a <= b
  <2> SUFFICES ASSUME b < a PROVE FALSE
    BY <1>1
  <2>1. PICK d \in Nat \ {0} : a = b + d
    <3>1. a - b \in Nat \ {0} /\ a = b + (a - b)
      BY <1>1
    <3> QED BY <3>1
  <2>2. first = end + d * world
    BY <1>1, <2>1
  <2> DEFINE D == d * world
  <2>3. D \in Nat /\ D # 0
    OBVIOUS
  <2> HIDE DEF D
  <2> QED BY <2>2, <2>3 DEF D
<1>3. PICK k \in Nat : b = a + k
  <2>1. b - a \in Nat /\ b = a + (b - a)
    BY <1>1, <1>2
  <2> QED BY <2>1
<1>4. end = first + k * world
  BY <1>1, <1>3
<1> DEFINE D == k * world
<1>5. D \in Nat
  OBVIOUS
<1>6. end - first = D
  <2> HIDE DEF D
  <2> QED BY <1>4, <1>5 DEF D
<1>7. (k * world + 0) \div world = k /\ (k * world + 0) % world = 0 /\ k * world + 0 = k * world
  <2>1. 0 \in 0..world-1
    OBVIOUS
  <2> QED BY <2>1, Digits
<1> QED BY <1>6, <1>7

LEMMA SubSeqIn == ASSUME NEW D, NEW q \in Seq(D), NEW i \in DOMAIN q PROVE SubSeq(q, 1, i - 1) \in Seq(D)
<1>1. DOMAIN q = 1..Len(q) /\ Len(q) \in Nat
  OBVIOUS
<1>2. 1 \in 1..Len(q) + 1 /\ i - 1 \in (1 - 1)..Len(q)
  BY <1>1
<1> QED BY <1>2, SubSeqProperties

(* A laid parameter, as offsets in its bucket.                             *)
PlacedAt(layout, bucket, i, numels, n) ==
    LET start == RangeStart(bucket, i, numels)
        p     == bucket.params[i]
    IN  /\ p \in 1..n /\ numels[p] \in Nat /\ start \in Nat /\ layout.at[p] = bucket.first + start
        /\ start + numels[p] <= bucket.end - bucket.first
        /\ Placed(layout, bucket, i, numels) = start..(start + numels[p] - 1)

LEMMA PlacedIs ==
    ASSUME NEW n \in Nat, NEW numels \in [1..n -> Nat], Len(numels) = n,
           NEW layout \in LayoutsOf(n), NEW bucket \in BucketsOf(n),
           Laid(bucket.params, bucket.first, bucket.end, layout.at, numels),
           NEW i \in DOMAIN bucket.params
    PROVE  PlacedAt(layout, bucket, i, numels, n)
<1> DEFINE start == RangeStart(bucket, i, numels)
           p == bucket.params[i]
<1>1. bucket.params \in Seq(1..n) /\ bucket.first \in Nat /\ bucket.end \in Nat /\ layout.at \in [1..n -> Nat]
  BY DEF LayoutsOf, BucketsOf
<1>2. p \in 1..n
  BY <1>1, ElementOf, Zenon
<1>3. numels[p] \in Nat /\ layout.at[p] \in Nat
  BY <1>1, <1>2
<1>4. start = Summed(numels, SubSeq(bucket.params, 1, i - 1))
  BY DEF RangeStart, Summed
<1>5. SubSeq(bucket.params, 1, i - 1) \in Seq(1..n)
  BY <1>1, SubSeqIn, Zenon
<1>6. start \in Nat
  BY <1>4, <1>5, SumNat, Zenon
<1>7. layout.at[p] = bucket.first + start /\ layout.at[p] + numels[p] <= bucket.end
  BY <1>4 DEF Laid
<1> HIDE DEF start, p
<1>8. start + numels[p] <= bucket.end - bucket.first /\ layout.at[p] - bucket.first = start
  <2> DEFINE A == layout.at[p]
             F == bucket.first
             E == bucket.end
             Z == numels[p]
  <2>1. A \in Nat /\ F \in Nat /\ E \in Nat /\ Z \in Nat /\ A = F + start /\ A + Z <= E
    BY <1>1, <1>3, <1>7
  <2> HIDE DEF A, F, E, Z
  <2>2. start + Z <= E - F /\ A - F = start
    BY <1>6, <2>1
  <2> QED BY <2>2 DEF A, F, E, Z
<1>9. Placed(layout, bucket, i, numels) = start..(start + numels[p] - 1)
  BY <1>8 DEF Placed, p
<1> QED BY <1>2, <1>3, <1>6, <1>7, <1>8, <1>9 DEF start, p, PlacedAt

(* A laid bucket is cut into pieces that are its parameters.               *)
LEMMA PiecesOwnedOnce ==
    ASSUME NEW n \in Nat, NEW numels \in [1..n -> Nat], Len(numels) = n, NEW world \in Nat \ {0},
           NEW layout \in LayoutsOf(n), NEW bucket \in BucketsOf(n),
           SoundBucket(bucket, layout.at, numels, world), NEW i \in DOMAIN bucket.params
    PROVE  LET pieces == {Piece(bucket, i, numels, world, r) : r \in 0..(world - 1)}
               placed == Placed(layout, bucket, i, numels)
           IN  /\ placed \subseteq 0..(bucket.end - bucket.first - 1)
               /\ \A j \in DOMAIN bucket.params :
                      j # i => placed \cap Placed(layout, bucket, j, numels) = {}
               /\ UNION pieces = placed
               /\ \A r, s \in 0..(world - 1) : r # s =>
                      Piece(bucket, i, numels, world, r) \cap Piece(bucket, i, numels, world, s) = {}
<1> DEFINE p == bucket.params[i]
           start == RangeStart(bucket, i, numels)
           width == bucket.end - bucket.first
           placed == Placed(layout, bucket, i, numels)
           piece(r) == Piece(bucket, i, numels, world, r)
           ranks == 0..(world - 1)
<1>1. /\ bucket.first \in Nat /\ bucket.end \in Nat /\ bucket.first <= bucket.end
      /\ Multiple(bucket.first, world) /\ Multiple(bucket.end, world)
      /\ Laid(bucket.params, bucket.first, bucket.end, layout.at, numels)
      /\ DOMAIN bucket.params = 1..Len(bucket.params) /\ Len(bucket.params) \in Nat
  BY DEF BucketsOf, SoundBucket
<1>2. PICK k \in Nat : width = k * world /\ width \div world = k /\ width % world = 0
  BY <1>1, EvenShards
<1>3. /\ p \in 1..n /\ numels[p] \in Nat /\ start \in Nat /\ layout.at[p] = bucket.first + start
      /\ start + numels[p] <= width /\ placed = start..(start + numels[p] - 1)
  <2>1. PlacedAt(layout, bucket, i, numels, n)
    BY <1>1, PlacedIs
  <2> QED BY <2>1 DEF PlacedAt
<1>4. placed \subseteq 0..(width - 1)
  <2> HIDE DEF start, placed, p
  <2>1. width \in Int
    BY <1>1
  <2> HIDE DEF width
  <2> QED BY <1>3, <2>1
<1>5. ASSUME NEW i1 \in DOMAIN bucket.params, NEW j1 \in DOMAIN bucket.params, i1 < j1
      PROVE  Placed(layout, bucket, i1, numels) \cap Placed(layout, bucket, j1, numels) = {}
  <2> DEFINE a == RangeStart(bucket, i1, numels)
             b == RangeStart(bucket, j1, numels)
             x == bucket.params[i1]
             y == bucket.params[j1]
  <2>1. /\ a \in Nat /\ numels[x] \in Nat /\ layout.at[x] = bucket.first + a
        /\ Placed(layout, bucket, i1, numels) = a..(a + numels[x] - 1)
    <3>1. PlacedAt(layout, bucket, i1, numels, n)
      BY <1>1, PlacedIs
    <3> QED BY <3>1 DEF PlacedAt
  <2>2. /\ b \in Nat /\ numels[y] \in Nat /\ layout.at[y] = bucket.first + b
        /\ Placed(layout, bucket, j1, numels) = b..(b + numels[y] - 1)
    <3>1. PlacedAt(layout, bucket, j1, numels, n)
      BY <1>1, PlacedIs
    <3> QED BY <3>1 DEF PlacedAt
  <2>3. i1 \in 1..j1 - 1
    BY <1>1, <1>5
  <2>4. layout.at[x] + numels[x] <= layout.at[y]
    BY <1>1, <2>3 DEF Laid
  <2> HIDE DEF a, b, x, y
  <2>5. a + numels[x] <= b
    <3>1. \A u, v, w, z, f \in Nat : f + u + z <= f + v => u + z <= v
      OBVIOUS
    <3>2. bucket.first + a + numels[x] <= bucket.first + b
      BY <2>1, <2>2, <2>4
    <3> QED BY <1>1, <2>1, <2>2, <3>1, <3>2, Zenon
  <2>6. \A z \in Int : ~(z <= a + numels[x] - 1 /\ z >= b)
    BY <2>1, <2>2, <2>5
  <2> QED BY <2>1, <2>2, <2>6
<1>6. \A j \in DOMAIN bucket.params : j # i => placed \cap Placed(layout, bucket, j, numels) = {}
  <2> SUFFICES ASSUME NEW j \in DOMAIN bucket.params, j # i
               PROVE  placed \cap Placed(layout, bucket, j, numels) = {}
    OBVIOUS
  <2>1. i < j \/ j < i
    BY <1>1
  <2>2. CASE i < j
    BY <1>5, <2>2
  <2>3. CASE j < i
    <3>1. Placed(layout, bucket, j, numels) \cap placed = {}
      BY <1>5, <2>3
    <3> HIDE DEF placed
    <3> QED BY <3>1
  <2> QED BY <2>1, <2>2, <2>3
<1> HIDE DEF start, p, placed, width
<1>7. \A r : piece(r) = placed \cap ((k * r)..(k * (r + 1) - 1))
  BY <1>2, <1>3 DEF Piece, Shard, start, p, width
<1> HIDE DEF piece
<1>8. /\ \A x \in 0..(k * world - 1) : \E r \in ranks : x \in (k * r)..(k * (r + 1) - 1)
      /\ \A r, s \in ranks :
            r # s => ((k * r)..(k * (r + 1) - 1)) \cap ((k * s)..(k * (s + 1) - 1)) = {}
  BY Shards
<1>9. UNION {piece(r) : r \in ranks} = placed
  <2>1. \A x \in placed : \E r \in ranks : x \in piece(r)
    <3> DEFINE shard(r) == (k * r)..(k * (r + 1) - 1)
    <3>1. \A x \in 0..(k * world - 1) : \E r \in ranks : x \in shard(r)
      BY <1>8
    <3>2. placed \subseteq 0..(k * world - 1)
      BY <1>2, <1>4
    <3> DEFINE all == 0..(k * world - 1)
    <3>3. \A x \in all : \E r \in ranks : x \in shard(r)
      BY <3>1
    <3>4. placed \subseteq all
      BY <3>2
    <3>5. \A r : piece(r) = placed \cap shard(r)
      BY <1>7
    <3> HIDE DEF shard, ranks, all
    <3> QED BY <3>3, <3>4, <3>5
  <2>2. \A r \in ranks : piece(r) \subseteq placed
    BY <1>7
  <2> HIDE DEF ranks
  <2> QED BY <2>1, <2>2
<1>10. \A r, s \in ranks : r # s => piece(r) \cap piece(s) = {}
  <2> DEFINE shard(r) == (k * r)..(k * (r + 1) - 1)
  <2>1. \A r, s \in ranks : r # s => shard(r) \cap shard(s) = {}
    BY <1>8
  <2>2. \A r : piece(r) = placed \cap shard(r)
    BY <1>7
  <2> HIDE DEF shard, ranks
  <2> QED BY <2>1, <2>2
<1> QED BY <1>4, <1>6, <1>9, <1>10 DEF placed, piece, width

(* Every parameter has its bucket.                                         *)
LEMMA ShardingIs ==
    ASSUME NEW n \in Nat, NEW numels \in [1..n -> Nat], Len(numels) = n, NEW world \in Nat \ {0},
           NEW layout, LayoutInv(layout, numels, world, 1..n), layout.open = <<>>
    PROVE  IsSharding(layout, numels, world)
<1>1. /\ layout \in LayoutsOf(n) /\ DOMAIN numels = 1..n
      /\ \A b \in DOMAIN layout.buckets : layout.buckets[b] \in BucketsOf(n)
  <2>1. layout \in LayoutsOf(n) /\ layout.buckets \in Seq(BucketsOf(n))
    BY DEF LayoutInv, LayoutsOf
  <2> QED BY <2>1, ElementOf, Zenon
<1>2. ASSUME NEW p \in 1..n
      PROVE  Cardinality({b \in DOMAIN layout.buckets : p \in ToSet(layout.buckets[b].params)}) = 1
  <2> DEFINE B == {b \in DOMAIN layout.buckets : p \in ToSet(layout.buckets[b].params)}
  <2>1. p \notin ToSet(layout.open)
    BY DEF ToSet
  <2>2. PICK b \in DOMAIN layout.buckets : \A c \in DOMAIN layout.buckets : Holds(layout.buckets, c, p) <=> c = b
    BY <2>1, Zenon DEF LayoutInv, Packed
  <2>3. B = {b}
    BY <2>2 DEF Holds
  <2> HIDE DEF B
  <2>4. Cardinality(B) = 1
    BY <2>3, FS_Singleton
  <2> QED BY <2>4 DEF B
<1>3. ASSUME NEW b \in DOMAIN layout.buckets
      PROVE  /\ SoundBucket(layout.buckets[b], layout.at, numels, world)
             /\ \A c \in DOMAIN layout.buckets : c > b => layout.buckets[b].end <= layout.buckets[c].first
             /\ (layout.buckets[b].end - layout.buckets[b].first) % world = 0
  <2>1. /\ SoundBucket(layout.buckets[b], layout.at, numels, world)
        /\ \A c \in DOMAIN layout.buckets : c > b => layout.buckets[b].end <= layout.buckets[c].first
    BY DEF LayoutInv
  <2>2. layout.buckets[b].first \in Nat /\ layout.buckets[b].end \in Nat
    BY <1>1 DEF BucketsOf
  <2>3. (layout.buckets[b].end - layout.buckets[b].first) % world = 0
    BY <2>1, <2>2, EvenShards DEF SoundBucket
  <2> QED BY <2>1, <2>3
<1>4. ASSUME NEW b \in DOMAIN layout.buckets, NEW i \in DOMAIN layout.buckets[b].params
      PROVE  LET bucket == layout.buckets[b]
                 pieces == {Piece(bucket, i, numels, world, r) : r \in 0..(world - 1)}
                 placed == Placed(layout, bucket, i, numels)
             IN  /\ placed \subseteq 0..(bucket.end - bucket.first - 1)
                 /\ \A j \in DOMAIN bucket.params :
                        j # i => placed \cap Placed(layout, bucket, j, numels) = {}
                 /\ UNION pieces = placed
                 /\ \A r, s \in 0..(world - 1) : r # s =>
                        Piece(bucket, i, numels, world, r) \cap Piece(bucket, i, numels, world, s) = {}
  BY <1>1, <1>3, PiecesOwnedOnce
<1> QED BY <1>1, <1>2, <1>3, <1>4, Zenon DEF IsSharding

-----------------------------------------------------------------------------
(* The gradient buckets.                                                   *)
Distinct(q) == \A i, j \in DOMAIN q : q[i] = q[j] => i = j

LEMMA DistinctAppend ==
    ASSUME NEW D, NEW q \in Seq(D), NEW x \in D, Distinct(q), x \notin ToSet(q)
    PROVE  Distinct(Append(q, x))
<1> DEFINE r == Append(q, x)
           m == Len(q)
<1>1. AppendsTo(q, x, D)
  BY AppendIs
<1>2. m \in Nat /\ DOMAIN q = 1..m /\ DOMAIN r = 1..m + 1 /\ r[m + 1] = x /\ \A i \in 1..m : r[i] = q[i]
  BY <1>1 DEF AppendsTo
<1>3. \A i \in 1..m : q[i] # x
  BY <1>2 DEF ToSet
<1>4. \A i \in 1..m + 1 : i \in 1..m \/ i = m + 1
  BY <1>2
<1>5. \A i, j \in 1..m : q[i] = q[j] => i = j
  BY <1>2 DEF Distinct
<1> HIDE DEF r, m
<1>6. \A i, j \in 1..m + 1 : r[i] = r[j] => i = j
  BY <1>2, <1>3, <1>4, <1>5
<1> QED BY <1>2, <1>6 DEF Distinct, r

(* The beginnings of a longer sequence.                                    *)
Begins(q, x) ==
    /\ \A i \in 0..Len(q) : SubSeq(Append(q, x), 1, i) = SubSeq(q, 1, i)
    /\ SubSeq(q, 1, Len(q)) = q

LEMMA AppendBegins == ASSUME NEW D, NEW q \in Seq(D), NEW x \in D PROVE Begins(q, x)
<1> DEFINE r == Append(q, x)
           m == Len(q)
<1>1. AppendsTo(q, x, D)
  BY AppendIs
<1>2. m \in Nat /\ DOMAIN q = 1..m /\ DOMAIN r = 1..m + 1 /\ r[m + 1] = x /\ \A i \in 1..m : r[i] = q[i]
  BY <1>1 DEF AppendsTo
<1>3. r \in Seq(D) /\ Len(r) = m + 1
  BY <1>1 DEF AppendsTo
<1>4. ASSUME NEW i \in 0..m PROVE SubSeq(r, 1, i) = SubSeq(q, 1, i)
  <2>1. \A j \in 1..i : r[j] = q[j]
    BY <1>2
  <2> HIDE DEF r
  <2> QED BY <1>2, <1>3, <2>1
<1>5. SubSeq(q, 1, m) = q
  OBVIOUS
<1> QED BY <1>4, <1>5 DEF Begins

Bucketings(K, n) ==
    [states : [K -> [current : Seq(1..n), bytes : Nat, limit : 1..2]],
     keyOrder : Seq(K), buckets : Seq(Seq(1..n))]

KeyOf(bs, b, key) == key[bs[b][1]]

(* The first bucket of a key has the first limit.                          *)
IsFirst(bs, b, key) == \A c \in 1..b - 1 : KeyOf(bs, c, key) # KeyOf(bs, b, key)
LimitOf(bs, b, key, limits) == IF IsFirst(bs, b, key) THEN limits[1] ELSE limits[2]

(* An open bucket was below its limit before the last tensor joined it.    *)
OpenBucket(s, k, A, key, bytes, limits) ==
    /\ Distinct(s.current)
    /\ \A t \in ToSet(s.current) : t \in A /\ key[t] = k
    /\ s.bytes = Summed(bytes, s.current)
    /\ \A i \in 1..Len(s.current) - 1 : Summed(bytes, SubSeq(s.current, 1, i)) < limits[s.limit]

(* A closed one has reached its limit, or is the last of a key of F.       *)
ClosedBucket(bs, b, A, F, key, bytes, limits) ==
    /\ bs[b] # <<>> /\ Distinct(bs[b])
    /\ \A t \in ToSet(bs[b]) : t \in A /\ key[t] = KeyOf(bs, b, key)
    /\ \A i \in 1..Len(bs[b]) - 1 : Summed(bytes, SubSeq(bs[b], 1, i)) < LimitOf(bs, b, key, limits)
    /\ \/ Summed(bytes, bs[b]) >= LimitOf(bs, b, key, limits)
       \/ /\ KeyOf(bs, b, key) \in F
          /\ \A c \in DOMAIN bs : c > b => KeyOf(bs, c, key) # KeyOf(bs, b, key)

(* The tensors of A are in one bucket each; the keys of F are finished.    *)
Apart(acc) ==
    /\ \A b, c \in DOMAIN acc.buckets : \A t \in ToSet(acc.buckets[b]) : t \in ToSet(acc.buckets[c]) => b = c
    /\ \A b \in DOMAIN acc.buckets : \A k \in DOMAIN acc.states : \A t \in ToSet(acc.buckets[b]) :
          t \notin ToSet(acc.states[k].current)

Covered(acc, A, key) ==
    \A t \in A : \/ t \in ToSet(acc.states[key[t]].current)
                 \/ \E b \in DOMAIN acc.buckets : t \in ToSet(acc.buckets[b])

StateOf(acc, k, A, F, key, bytes, limits) ==
    /\ OpenBucket(acc.states[k], k, A, key, bytes, limits)
    /\ acc.states[k].limit = 1 <=> \A b \in DOMAIN acc.buckets : KeyOf(acc.buckets, b, key) # k
    /\ acc.states[k].current # <<>> => k \in ToSet(acc.keyOrder) /\ k \notin F

BucketInv(acc, A, F, K, n, key, bytes, limits) ==
    /\ acc \in Bucketings(K, n)
    /\ \A k \in K : StateOf(acc, k, A, F, key, bytes, limits)
    /\ \A b \in DOMAIN acc.buckets : ClosedBucket(acc.buckets, b, A, F, key, bytes, limits)
    /\ Apart(acc) /\ Covered(acc, A, key)

Below(acc, k, limits) == acc.states[k].current # <<>> => acc.states[k].bytes < limits[acc.states[k].limit]

(* A tensor joins the open bucket of its key.                              *)
Joining(acc, t, key, bytes) ==
    [acc EXCEPT !.keyOrder                = IF key[t] \in ToSet(acc.keyOrder) THEN acc.keyOrder
                                            ELSE Append(acc.keyOrder, key[t]),
                !.states[key[t]].current = Append(@, t),
                !.states[key[t]].bytes   = @ + bytes[t]]

JoinedTo(new, acc, t, K, n, key, bytes) ==
    LET k == key[t] IN
    /\ new \in Bucketings(K, n) /\ new.buckets = acc.buckets
    /\ k \in ToSet(new.keyOrder) /\ ToSet(acc.keyOrder) \subseteq ToSet(new.keyOrder)
    /\ new.states[k].current = Append(acc.states[k].current, t)
    /\ new.states[k].bytes = acc.states[k].bytes + bytes[t]
    /\ new.states[k].limit = acc.states[k].limit
    /\ \A l \in K : l # k => new.states[l] = acc.states[l]

LEMMA JoiningIs ==
    ASSUME NEW n \in Nat, NEW K, NEW key \in [1..n -> K], NEW bytes \in [1..n -> Nat],
           NEW acc \in Bucketings(K, n), NEW t \in 1..n
    PROVE  JoinedTo(Joining(acc, t, key, bytes), acc, t, K, n, key, bytes)
<1> DEFINE k == key[t]
           s == acc.states[k]
           r == [current |-> Append(s.current, t), bytes |-> s.bytes + bytes[t], limit |-> s.limit]
           order == IF k \in ToSet(acc.keyOrder) THEN acc.keyOrder ELSE Append(acc.keyOrder, k)
           states == [acc.states EXCEPT ![k] = r]
           new == Joining(acc, t, key, bytes)
<1>1. /\ k \in K /\ acc.keyOrder \in Seq(K) /\ acc.buckets \in Seq(Seq(1..n)) /\ s.current \in Seq(1..n)
      /\ acc.states \in [K -> [current : Seq(1..n), bytes : Nat, limit : 1..2]]
      /\ s \in [current : Seq(1..n), bytes : Nat, limit : 1..2]
  BY DEF Bucketings
<1>2. AppendsTo(s.current, t, 1..n) /\ AppendsTo(acc.keyOrder, k, K)
  <2>1. AppendsTo(s.current, t, 1..n)
    BY <1>1, AppendIs, Zenon
  <2>2. AppendsTo(acc.keyOrder, k, K)
    BY <1>1, AppendIs, Zenon
  <2> QED BY <2>1, <2>2
<1>3. r \in [current : Seq(1..n), bytes : Nat, limit : 1..2]
  <2>1. Append(s.current, t) \in Seq(1..n)
    BY <1>2 DEF AppendsTo
  <2>2. s.bytes + bytes[t] \in Nat /\ s.limit \in 1..2
    <3>1. bytes[t] \in Nat
      OBVIOUS
    <3> HIDE DEF s
    <3> QED BY <1>1, <3>1
  <2> HIDE DEF s
  <2> QED BY <2>1, <2>2
<1>4. order \in Seq(K) /\ k \in ToSet(order) /\ ToSet(acc.keyOrder) \subseteq ToSet(order)
  BY <1>1, <1>2 DEF AppendsTo
<1>5. new = [acc EXCEPT !.keyOrder = order, !.states = states]
  <2>1. r = [acc.states[k] EXCEPT !.current = Append(@, t), !.bytes = @ + bytes[t]]
    <3>1. r = [s EXCEPT !.current = Append(@, t), !.bytes = @ + bytes[t]]
      <4>1. s \in [current : Seq(1..n), bytes : Nat, limit : 1..2]
        BY <1>1
      <4> DEFINE x == Append(s.current, t)
                 y == s.bytes + bytes[t]
      <4> HIDE DEF s, x, y
      <4>2. ASSUME NEW u, u = [s EXCEPT !.current = x, !.bytes = y]
            PROVE  u = [current |-> x, bytes |-> y, limit |-> s.limit]
        BY <4>1, <4>2
      <4>3. [s EXCEPT !.current = x, !.bytes = y] = [current |-> x, bytes |-> y, limit |-> s.limit]
        BY <4>2, Zenon
      <4> QED BY <4>3 DEF x, y
    <3> QED BY <3>1
  <2> QED BY <1>1, <2>1, ZenonT(30) DEF Joining
<1> HIDE DEF order, r, new
<1>6. states \in [K -> [current : Seq(1..n), bytes : Nat, limit : 1..2]] /\ states[k] = r
      /\ \A l \in K : l # k => states[l] = acc.states[l]
  BY <1>1, <1>3
<1> HIDE DEF states
<1>7. new.keyOrder = order /\ new.states = states /\ new.buckets = acc.buckets /\ new \in Bucketings(K, n)
  BY <1>1, <1>4, <1>5, <1>6 DEF Bucketings
<1>8. r.current = Append(s.current, t) /\ r.bytes = s.bytes + bytes[t] /\ r.limit = s.limit
  BY DEF r
<1> QED BY <1>4, <1>6, <1>7, <1>8, Zenon DEF JoinedTo, new

Joins(new, acc, k, A, K, n, key, bytes, limits) ==
    /\ BucketInv(new, A, {}, K, n, key, bytes, limits)
    /\ new.states[k].limit = acc.states[k].limit
    /\ \A l \in K : l # k => new.states[l] = acc.states[l]

LEMMA JoinInv ==
    ASSUME NEW n \in Nat, NEW K, NEW key \in [1..n -> K], NEW bytes \in [1..n -> Nat],
           NEW limits \in [1..2 -> Nat], NEW A \in SUBSET (1..n), NEW t \in (1..n) \ A, NEW acc,
           BucketInv(acc, A, {}, K, n, key, bytes, limits), Below(acc, key[t], limits)
    PROVE  Joins(Joining(acc, t, key, bytes), acc, key[t], A \cup {t}, K, n, key, bytes, limits)
<1> DEFINE k == key[t]
           new == Joining(acc, t, key, bytes)
           q == acc.states[k].current
           m == Len(q)
<1>1. /\ acc \in Bucketings(K, n) /\ k \in K /\ t \in 1..n /\ t \notin A
      /\ \A l \in K : StateOf(acc, l, A, {}, key, bytes, limits)
      /\ \A b \in DOMAIN acc.buckets : ClosedBucket(acc.buckets, b, A, {}, key, bytes, limits)
      /\ Apart(acc) /\ Covered(acc, A, key)
  BY DEF BucketInv
<1>2. q \in Seq(1..n) /\ acc.states[k].limit \in 1..2 /\ m \in Nat
  BY <1>1, SMTT(20) DEF Bucketings
<1>3. JoinedTo(new, acc, t, K, n, key, bytes)
  <2> HIDE DEF new
  <2> QED BY <1>1, JoiningIs DEF new
<1> HIDE DEF new, k
<1>4. /\ new \in Bucketings(K, n) /\ new.buckets = acc.buckets
      /\ k \in ToSet(new.keyOrder) /\ ToSet(acc.keyOrder) \subseteq ToSet(new.keyOrder)
      /\ new.states[k].current = Append(q, t) /\ new.states[k].bytes = acc.states[k].bytes + bytes[t]
      /\ new.states[k].limit = acc.states[k].limit
      /\ \A l \in K : l # k => new.states[l] = acc.states[l]
  BY <1>3 DEF JoinedTo, k
<1>5. AppendsTo(q, t, 1..n) /\ SumsOn(bytes, q, t) /\ Begins(q, t)
  <2>1. AppendsTo(q, t, 1..n)
    BY <1>1, <1>2, AppendIs, Zenon
  <2>2. SumsOn(bytes, q, t)
    BY <1>1, <1>2, SumOfMore, Zenon
  <2>3. Begins(q, t)
    BY <1>1, <1>2, AppendBegins, Zenon
  <2> QED BY <2>1, <2>2, <2>3
<1>6. ToSet(new.states[k].current) = ToSet(q) \cup {t}
  <2>1. ToSet(Append(q, t)) = ToSet(q) \cup {t}
    BY <1>5 DEF AppendsTo
  <2> QED BY <1>4, <2>1
<1>7. \A l \in K : t \notin ToSet(acc.states[l].current)
  BY <1>1 DEF StateOf, OpenBucket
<1>8. \A b \in DOMAIN acc.buckets : t \notin ToSet(acc.buckets[b])
  BY <1>1 DEF ClosedBucket
<1>9. /\ Distinct(q) /\ (\A x \in ToSet(q) : x \in A /\ key[x] = k)
      /\ acc.states[k].bytes = Summed(bytes, q)
      /\ \A i \in 1..m - 1 : Summed(bytes, SubSeq(q, 1, i)) < limits[acc.states[k].limit]
  BY <1>1 DEF StateOf, OpenBucket
<1>10. OpenBucket(new.states[k], k, A \cup {t}, key, bytes, limits)
  <2> DEFINE r == new.states[k].current
             limit == limits[new.states[k].limit]
  <2>1. Distinct(r)
    <3>1. Distinct(Append(q, t))
      BY <1>1, <1>2, <1>7, <1>9, DistinctAppend, Zenon
    <3> QED BY <1>4, <3>1
  <2>2. \A x \in ToSet(r) : x \in A \cup {t} /\ key[x] = k
    BY <1>6, <1>9 DEF k
  <2>3. new.states[k].bytes = Summed(bytes, r)
    <3>1. Summed(bytes, Append(q, t)) = Summed(bytes, q) + bytes[t]
      BY <1>5 DEF SumsOn
    <3> QED BY <1>4, <1>9, <3>1
  <2>4. Len(r) - 1 = m
    <3>1. Len(Append(q, t)) = m + 1
      BY <1>5 DEF AppendsTo
    <3> HIDE DEF m
    <3> QED BY <1>2, <1>4, <3>1
  <2>5. ASSUME NEW i \in 1..m PROVE Summed(bytes, SubSeq(r, 1, i)) < limit
    <3>1. SubSeq(r, 1, i) = SubSeq(q, 1, i) /\ SubSeq(q, 1, m) = q
      <4>1. i \in 0..m
        BY <1>2
      <4>2. SubSeq(Append(q, t), 1, i) = SubSeq(q, 1, i) /\ SubSeq(q, 1, m) = q
        BY <1>5, <4>1 DEF Begins
      <4> QED BY <1>4, <4>2
    <3>2. CASE i = m
      <4>1. q # <<>>
        BY <1>2, <3>2, SMTT(20)
      <4>2. Summed(bytes, q) < limits[acc.states[k].limit]
        BY <1>9, <4>1 DEF Below, k
      <4> QED BY <1>4, <3>1, <3>2, <4>2
    <3>3. CASE i # m
      <4>1. i \in 1..m - 1
        <5> HIDE DEF m
        <5> QED BY <1>2, <3>3
      <4> QED BY <1>4, <1>9, <3>1, <4>1
    <3> QED BY <3>2, <3>3
  <2> HIDE DEF r
  <2> QED BY <2>1, <2>2, <2>3, <2>4, <2>5 DEF OpenBucket, r
<1>11. ASSUME NEW l \in K PROVE StateOf(new, l, A \cup {t}, {}, key, bytes, limits)
  <2>1. StateOf(acc, l, A, {}, key, bytes, limits)
    BY <1>1
  <2>2. OpenBucket(new.states[l], l, A \cup {t}, key, bytes, limits)
    <3>1. CASE l = k
      BY <1>10, <3>1
    <3>2. CASE l # k
      <4>1. new.states[l] = acc.states[l]
        BY <1>4, <3>2
      <4>2. OpenBucket(acc.states[l], l, A \cup {t}, key, bytes, limits)
        BY <2>1 DEF StateOf, OpenBucket
      <4> QED BY <4>1, <4>2
    <3> QED BY <3>1, <3>2
  <2>3. new.states[l].limit = acc.states[l].limit
    BY <1>4
  <2>4. new.states[l].current # <<>> => l \in ToSet(new.keyOrder)
    <3>1. CASE l = k
      BY <1>4, <3>1
    <3>2. CASE l # k
      BY <1>4, <2>1, <3>2 DEF StateOf
    <3> QED BY <3>1, <3>2
  <2> QED BY <1>4, <2>1, <2>2, <2>3, <2>4 DEF StateOf
<1>12. ASSUME NEW b \in DOMAIN new.buckets
       PROVE  ClosedBucket(new.buckets, b, A \cup {t}, {}, key, bytes, limits)
  <2>1. ClosedBucket(acc.buckets, b, A, {}, key, bytes, limits)
    BY <1>1, <1>4, <1>12
  <2>2. ClosedBucket(acc.buckets, b, A \cup {t}, {}, key, bytes, limits)
    BY <2>1 DEF ClosedBucket
  <2> QED BY <1>4, <2>2
<1>13. DOMAIN acc.states = K /\ DOMAIN new.states = K
  BY <1>1, <1>4 DEF Bucketings
<1>14. Apart(new)
  <2>1. ASSUME NEW b \in DOMAIN acc.buckets, NEW l \in K, NEW x \in ToSet(acc.buckets[b])
        PROVE  x \notin ToSet(new.states[l].current)
    <3>1. x \notin ToSet(acc.states[l].current) /\ x # t
      BY <1>1, <1>8, <1>13, <2>1 DEF Apart
    <3>2. CASE l = k
      BY <1>6, <3>1, <3>2
    <3>3. CASE l # k
      BY <1>4, <3>1, <3>3
    <3> QED BY <3>2, <3>3
  <2> QED BY <1>1, <1>4, <1>13, <2>1 DEF Apart
<1>15. Covered(new, A \cup {t}, key)
  <2> SUFFICES ASSUME NEW x \in A \cup {t}
               PROVE  \/ x \in ToSet(new.states[key[x]].current)
                      \/ \E b \in DOMAIN new.buckets : x \in ToSet(new.buckets[b])
    BY DEF Covered
  <2>1. CASE x = t
    BY <1>6, <2>1 DEF k
  <2>2. CASE x \in A
    <3>1. \/ x \in ToSet(acc.states[key[x]].current)
          \/ \E b \in DOMAIN acc.buckets : x \in ToSet(acc.buckets[b])
      BY <1>1, <2>2 DEF Covered
    <3>2. key[x] \in K
      BY <2>2
    <3>3. x \in ToSet(acc.states[key[x]].current) => x \in ToSet(new.states[key[x]].current)
      <4>1. CASE key[x] = k
        BY <1>6, <4>1
      <4>2. CASE key[x] # k
        BY <1>4, <3>2, <4>2
      <4> QED BY <4>1, <4>2
    <3> QED BY <1>4, <3>1, <3>3
  <2> QED BY <2>1, <2>2
<1>16. BucketInv(new, A \cup {t}, {}, K, n, key, bytes, limits)
  BY <1>4, <1>11, <1>12, <1>14, <1>15 DEF BucketInv
<1> QED BY <1>4, <1>16 DEF new, k, Joins

(* The open bucket of a key is closed.                                     *)
Flushed(new, acc, k, K, n) ==
    /\ new \in Bucketings(K, n) /\ new.keyOrder = acc.keyOrder
    /\ new.buckets = Append(acc.buckets, acc.states[k].current)
    /\ new.states[k].current = <<>> /\ new.states[k].bytes = 0 /\ new.states[k].limit = 2
    /\ \A l \in K : l # k => new.states[l] = acc.states[l]

LEMMA FlushIs ==
    ASSUME NEW n \in Nat, NEW K, NEW limits \in [1..2 -> Nat], NEW acc \in Bucketings(K, n), NEW k \in K
    PROVE  /\ acc.states[k].current = <<>> => FlushCurrentBucket(acc, k, limits) = acc
           /\ acc.states[k].current # <<>> => Flushed(FlushCurrentBucket(acc, k, limits), acc, k, K, n)
<1> DEFINE s == acc.states[k]
           r == [current |-> <<>>, bytes |-> 0, limit |-> IF s.limit < Len(limits) THEN s.limit + 1 ELSE s.limit]
           states == [acc.states EXCEPT ![k] = r]
           buckets == Append(acc.buckets, s.current)
           new == [acc EXCEPT !.buckets = buckets, !.states = states]
           flush == FlushCurrentBucket(acc, k, limits)
<1>1. /\ acc.keyOrder \in Seq(K) /\ acc.buckets \in Seq(Seq(1..n)) /\ s.current \in Seq(1..n)
      /\ acc.states \in [K -> [current : Seq(1..n), bytes : Nat, limit : 1..2]]
      /\ s.limit \in 1..2
  BY DEF Bucketings
<1>2. CASE s.current = <<>>
  <2>1. flush = acc
    BY <1>2 DEF FlushCurrentBucket
  <2> QED BY <1>2, <2>1
<1>3. CASE s.current # <<>>
  <2>1. flush = new
    BY <1>3 DEF FlushCurrentBucket
  <2>2. r = [current |-> <<>>, bytes |-> 0, limit |-> 2]
    <3>1. Len(limits) = 2
      OBVIOUS
    <3> HIDE DEF s
    <3> QED BY <1>1, <3>1
  <2>3. r \in [current : Seq(1..n), bytes : Nat, limit : 1..2]
    <3>1. <<>> \in Seq(1..n) /\ 0 \in Nat /\ 2 \in 1..2
      OBVIOUS
    <3> HIDE DEF r
    <3> QED BY <2>2, <3>1
  <2> HIDE DEF r
  <2>4. states \in [K -> [current : Seq(1..n), bytes : Nat, limit : 1..2]] /\ states[k] = r
        /\ \A l \in K : l # k => states[l] = acc.states[l]
    BY <1>1, <2>3
  <2>5. buckets \in Seq(Seq(1..n))
    BY <1>1
  <2> HIDE DEF states, buckets
  <2>6. /\ new.keyOrder = acc.keyOrder /\ new.buckets = buckets /\ new.states = states
        /\ new \in Bucketings(K, n)
    BY <1>1, <2>4, <2>5 DEF Bucketings
  <2> HIDE DEF new
  <2>7. Flushed(new, acc, k, K, n)
    <3>1. r.current = <<>> /\ r.bytes = 0 /\ r.limit = 2
      BY <2>2
    <3> QED BY <2>4, <2>6, <3>1, Zenon DEF Flushed, buckets
  <2> QED BY <1>3, <2>1, <2>7
<1> QED BY <1>2, <1>3

Closes(new, acc, k, A, G, K, n, key, bytes, limits) ==
    /\ BucketInv(new, A, G, K, n, key, bytes, limits)
    /\ new.states[k].current = <<>> /\ new.keyOrder = acc.keyOrder
    /\ \A l \in K : l # k => new.states[l] = acc.states[l]

LEMMA FlushInv ==
    ASSUME NEW n \in Nat, NEW K, NEW key \in [1..n -> K], NEW bytes \in [1..n -> Nat],
           NEW limits \in [1..2 -> Nat], NEW A \in SUBSET (1..n), NEW F, NEW G, NEW acc, NEW k \in K,
           BucketInv(acc, A, F, K, n, key, bytes, limits), F \subseteq G, G \subseteq F \cup {k},
           k \in G \/ acc.states[k].bytes >= limits[acc.states[k].limit]
    PROVE  Closes(FlushCurrentBucket(acc, k, limits), acc, k, A, G, K, n, key, bytes, limits)
<1> DEFINE new == FlushCurrentBucket(acc, k, limits)
           q == acc.states[k].current
           m == Len(acc.buckets)
<1>1. /\ acc \in Bucketings(K, n)
      /\ \A l \in K : StateOf(acc, l, A, F, key, bytes, limits)
      /\ \A b \in DOMAIN acc.buckets : ClosedBucket(acc.buckets, b, A, F, key, bytes, limits)
      /\ Apart(acc) /\ Covered(acc, A, key)
  BY DEF BucketInv
<1>2. CASE q = <<>>
  <2>1. new = acc
    BY <1>1, <1>2, FlushIs
  <2>2. \A l \in K : StateOf(acc, l, A, G, key, bytes, limits)
    BY <1>1, <1>2 DEF StateOf
  <2>3. \A b \in DOMAIN acc.buckets : ClosedBucket(acc.buckets, b, A, G, key, bytes, limits)
    BY <1>1 DEF ClosedBucket
  <2>4. BucketInv(acc, A, G, K, n, key, bytes, limits)
    BY <1>1, <2>2, <2>3 DEF BucketInv
  <2> HIDE DEF new
  <2> QED BY <1>2, <2>1, <2>4 DEF new, Closes
<1>3. CASE q # <<>>
  <2>1. Flushed(new, acc, k, K, n)
    <3> HIDE DEF new
    <3> QED BY <1>1, <1>3, FlushIs DEF new
  <2> HIDE DEF new
  <2>2. /\ new \in Bucketings(K, n) /\ new.keyOrder = acc.keyOrder
        /\ new.buckets = Append(acc.buckets, q)
        /\ new.states[k].current = <<>> /\ new.states[k].bytes = 0 /\ new.states[k].limit = 2
        /\ \A l \in K : l # k => new.states[l] = acc.states[l]
    BY <2>1 DEF Flushed
  <2>3. acc.buckets \in Seq(Seq(1..n)) /\ q \in Seq(1..n) /\ acc.states[k].limit \in 1..2
    BY <1>1 DEF Bucketings
  <2>4. AppendsTo(acc.buckets, q, Seq(1..n))
    BY <2>3, AppendIs, Zenon
  <2>5. /\ m \in Nat /\ DOMAIN acc.buckets = 1..m /\ DOMAIN new.buckets = 1..m + 1
        /\ new.buckets[m + 1] = q /\ \A b \in 1..m : new.buckets[b] = acc.buckets[b]
    <3>1. /\ m \in Nat /\ DOMAIN acc.buckets = 1..m /\ DOMAIN Append(acc.buckets, q) = 1..m + 1
          /\ Append(acc.buckets, q)[m + 1] = q
          /\ \A b \in 1..m : Append(acc.buckets, q)[b] = acc.buckets[b]
      BY <2>4 DEF AppendsTo
    <3> QED BY <2>2, <3>1
  <2> HIDE DEF m
  <2>6. /\ Distinct(q) /\ (\A x \in ToSet(q) : x \in A /\ key[x] = k)
        /\ acc.states[k].bytes = Summed(bytes, q)
        /\ \A i \in 1..Len(q) - 1 : Summed(bytes, SubSeq(q, 1, i)) < limits[acc.states[k].limit]
        /\ acc.states[k].limit = 1 <=> \A b \in DOMAIN acc.buckets : KeyOf(acc.buckets, b, key) # k
        /\ k \notin F
    BY <1>1, <1>3 DEF StateOf, OpenBucket
  <2>7. key[q[1]] = k
    <3>1. 1 \in DOMAIN q
      BY <1>3, <2>3
    <3> QED BY <2>6, <3>1 DEF ToSet
  <2>8. /\ KeyOf(new.buckets, m + 1, key) = k
        /\ \A b \in 1..m : KeyOf(new.buckets, b, key) = KeyOf(acc.buckets, b, key)
    BY <2>5, <2>7 DEF KeyOf
  <2>9. \A b \in 1..m + 1 : b \in 1..m \/ b = m + 1
    BY <2>5
  <2>10. m + 1 \in 1..m + 1 /\ \A b \in 1..m : b \in 1..m + 1 /\ b # m + 1 /\ m + 1 > b
    BY <2>5
  <2>11. LimitOf(new.buckets, m + 1, key, limits) = limits[acc.states[k].limit]
    <3>1. m + 1 - 1 = m
      BY <2>5
    <3>2. (\A c \in 1..m : KeyOf(acc.buckets, c, key) # k) <=> acc.states[k].limit = 1
      BY <2>5, <2>6
    <3>3. IsFirst(new.buckets, m + 1, key) <=> acc.states[k].limit = 1
      <4>1. (\A c \in 1..m : KeyOf(new.buckets, c, key) # k) <=> acc.states[k].limit = 1
        BY <2>8, <3>2
      <4>2. ASSUME NEW d, d - 1 = m, KeyOf(new.buckets, d, key) = k
            PROVE  IsFirst(new.buckets, d, key) <=> acc.states[k].limit = 1
        BY <4>1, <4>2 DEF IsFirst
      <4>3. PICK d : d = m + 1
        OBVIOUS
      <4>4. d - 1 = m /\ KeyOf(new.buckets, d, key) = k
        BY <2>5, <2>8, <4>3
      <4>5. IsFirst(new.buckets, d, key) <=> acc.states[k].limit = 1
        BY <4>2, <4>4, Zenon
      <4> QED BY <4>3, <4>5
    <3>4. CASE acc.states[k].limit = 1
      BY <3>3, <3>4 DEF LimitOf
    <3>5. CASE acc.states[k].limit = 2
      BY <3>3, <3>5 DEF LimitOf
    <3> QED BY <2>3, <3>4, <3>5
  <2>12. \A b \in 1..m : LimitOf(new.buckets, b, key, limits) = LimitOf(acc.buckets, b, key, limits)
    <3> SUFFICES ASSUME NEW b \in 1..m
                 PROVE  LimitOf(new.buckets, b, key, limits) = LimitOf(acc.buckets, b, key, limits)
      OBVIOUS
    <3>1. \A c \in 1..b - 1 : c \in 1..m
      BY <2>5
    <3>2. IsFirst(new.buckets, b, key) <=> IsFirst(acc.buckets, b, key)
      BY <2>8, <3>1 DEF IsFirst
    <3> QED BY <3>2 DEF LimitOf
  <2>13. ASSUME NEW b \in 1..m + 1 PROVE ClosedBucket(new.buckets, b, A, G, key, bytes, limits)
    <3>1. CASE b = m + 1
      <4>1. /\ new.buckets[b] = q /\ KeyOf(new.buckets, b, key) = k
            /\ LimitOf(new.buckets, b, key, limits) = limits[acc.states[k].limit]
        BY <2>5, <2>8, <2>11, <3>1
      <4>2. \A c \in DOMAIN new.buckets : ~(c > b)
        BY <2>5, <3>1
      <4>3. k \in G \/ Summed(bytes, q) >= limits[acc.states[k].limit]
        BY <2>6
      <4> QED BY <1>3, <2>6, <4>1, <4>2, <4>3 DEF ClosedBucket
    <3>2. CASE b \in 1..m
      <4>1. ClosedBucket(acc.buckets, b, A, F, key, bytes, limits)
        BY <1>1, <2>5, <3>2
      <4>2. /\ new.buckets[b] = acc.buckets[b] /\ KeyOf(new.buckets, b, key) = KeyOf(acc.buckets, b, key)
            /\ LimitOf(new.buckets, b, key, limits) = LimitOf(acc.buckets, b, key, limits)
        BY <2>5, <2>8, <2>12, <3>2
      <4>3. CASE Summed(bytes, acc.buckets[b]) >= LimitOf(acc.buckets, b, key, limits)
        BY <4>1, <4>2, <4>3 DEF ClosedBucket
      <4>4. CASE /\ KeyOf(acc.buckets, b, key) \in F
                 /\ \A c \in DOMAIN acc.buckets : c > b => KeyOf(acc.buckets, c, key) # KeyOf(acc.buckets, b, key)
        <5>1. KeyOf(new.buckets, b, key) \in G /\ KeyOf(acc.buckets, b, key) # k
          BY <2>6, <4>2, <4>4
        <5>2. \A c \in DOMAIN new.buckets : c > b => KeyOf(new.buckets, c, key) # KeyOf(new.buckets, b, key)
          BY <2>5, <2>8, <2>9, <4>2, <4>4, <5>1
        <5> QED BY <4>1, <4>2, <5>1, <5>2 DEF ClosedBucket
      <4> QED BY <4>1, <4>3, <4>4 DEF ClosedBucket
    <3> QED BY <2>9, <3>1, <3>2
  <2>14. ASSUME NEW l \in K PROVE StateOf(new, l, A, G, key, bytes, limits)
    <3>1. CASE l = k
      <4>1. OpenBucket(new.states[k], k, A, key, bytes, limits)
        <5>1. DOMAIN <<>> = {} /\ Len(<<>>) = 0
          OBVIOUS
        <5>2. Distinct(<<>>) /\ ToSet(<<>>) = {}
          BY <5>1 DEF Distinct, ToSet
        <5>3. Summed(bytes, <<>>) = 0
          BY SumOfNone, Zenon
        <5>4. \A i \in 1..Len(<<>>) - 1 : FALSE
          BY <5>1
        <5> QED BY <2>2, <5>2, <5>3, <5>4 DEF OpenBucket
      <4>2. ~(\A b \in DOMAIN new.buckets : KeyOf(new.buckets, b, key) # k)
        BY <2>5, <2>8, <2>10
      <4>3. new.states[k].limit # 1
        BY <2>2
      <4> QED BY <2>2, <3>1, <4>1, <4>2, <4>3 DEF StateOf
    <3>2. CASE l # k
      <4>1. StateOf(acc, l, A, F, key, bytes, limits) /\ new.states[l] = acc.states[l]
        BY <1>1, <2>2, <3>2
      <4>2. (\A b \in DOMAIN new.buckets : KeyOf(new.buckets, b, key) # l) <=>
            (\A b \in DOMAIN acc.buckets : KeyOf(acc.buckets, b, key) # l)
        BY <2>5, <2>8, <2>9, <2>10, <3>2
      <4>3. l \in G => l \in F
        BY <3>2
      <4> QED BY <2>2, <4>1, <4>2, <4>3 DEF StateOf
    <3> QED BY <3>1, <3>2
  <2>15. DOMAIN acc.states = K /\ DOMAIN new.states = K
    BY <1>1, <2>2 DEF Bucketings
  <2>16. \A b \in 1..m : ToSet(new.buckets[b]) = ToSet(acc.buckets[b])
    BY <2>5
  <2>17. ToSet(new.buckets[m + 1]) = ToSet(q)
    BY <2>5
  <2>18. /\ \A b, c \in 1..m : \A t \in ToSet(acc.buckets[b]) : t \in ToSet(acc.buckets[c]) => b = c
         /\ \A b \in 1..m : \A l \in K : \A t \in ToSet(acc.buckets[b]) : t \notin ToSet(acc.states[l].current)
    BY <1>1, <2>5, <2>15 DEF Apart
  <2>19. Apart(new)
    <3>1. ASSUME NEW b \in 1..m + 1, NEW c \in 1..m + 1, NEW t \in ToSet(new.buckets[b]), t \in ToSet(new.buckets[c])
          PROVE  b = c
      <4>1. CASE b \in 1..m /\ c \in 1..m
        BY <2>16, <2>18, <3>1, <4>1
      <4>2. CASE b = m + 1 /\ c \in 1..m
        BY <2>16, <2>17, <2>18, <3>1, <4>2
      <4>3. CASE b \in 1..m /\ c = m + 1
        BY <2>16, <2>17, <2>18, <3>1, <4>3
      <4> QED BY <2>9, <4>1, <4>2, <4>3
    <3>2. ASSUME NEW b \in 1..m + 1, NEW l \in K, NEW t \in ToSet(new.buckets[b])
          PROVE  t \notin ToSet(new.states[l].current)
      <4>1. CASE l = k
        <5>1. ToSet(<<>>) = {}
          BY DEF ToSet
        <5> QED BY <2>2, <4>1, <5>1
      <4>2. CASE l # k
        <5>1. new.states[l] = acc.states[l]
          BY <2>2, <4>2
        <5>2. CASE b \in 1..m
          BY <2>16, <2>18, <3>2, <5>1, <5>2
        <5>3. CASE b = m + 1
          <6>1. key[t] = k
            BY <2>6, <2>17, <3>2, <5>3
          <6>2. \A x \in ToSet(acc.states[l].current) : key[x] = l
            BY <1>1 DEF StateOf, OpenBucket
          <6> QED BY <4>2, <5>1, <6>1, <6>2
        <5> QED BY <2>9, <5>2, <5>3
      <4> QED BY <4>1, <4>2
    <3> QED BY <2>5, <2>15, <3>1, <3>2 DEF Apart
  <2>20. Covered(new, A, key)
    <3> SUFFICES ASSUME NEW t \in A
                 PROVE  \/ t \in ToSet(new.states[key[t]].current)
                        \/ \E b \in DOMAIN new.buckets : t \in ToSet(new.buckets[b])
      BY DEF Covered
    <3>1. \/ t \in ToSet(acc.states[key[t]].current)
          \/ \E b \in 1..m : t \in ToSet(acc.buckets[b])
      BY <1>1, <2>5 DEF Covered
    <3>2. key[t] \in K
      OBVIOUS
    <3>3. CASE \E b \in 1..m : t \in ToSet(acc.buckets[b])
      BY <2>5, <2>10, <2>16, <3>3
    <3>4. CASE t \in ToSet(acc.states[key[t]].current)
      <4>1. CASE key[t] = k
        BY <2>5, <2>10, <2>17, <3>4, <4>1
      <4>2. CASE key[t] # k
        BY <2>2, <3>2, <3>4, <4>2
      <4> QED BY <4>1, <4>2
    <3> QED BY <3>1, <3>3, <3>4
  <2>21. BucketInv(new, A, G, K, n, key, bytes, limits)
    BY <2>2, <2>5, <2>13, <2>14, <2>19, <2>20 DEF BucketInv
  <2> QED BY <2>2, <2>21 DEF new, Closes
<1> QED BY <1>2, <1>3

(* One tensor: the bucket it fills is closed at once.                      *)
Assigning(acc, A, K, n, key, bytes, limits) ==
    /\ BucketInv(acc, A, {}, K, n, key, bytes, limits)
    /\ \A k \in K : Below(acc, k, limits)

LEMMA AssignInv ==
    ASSUME NEW n \in Nat, NEW K, NEW key \in [1..n -> K], NEW bytes \in [1..n -> Nat],
           NEW limits \in [1..2 -> Nat], NEW A \in SUBSET (1..n), NEW t \in (1..n) \ A, NEW acc,
           Assigning(acc, A, K, n, key, bytes, limits)
    PROVE  Assigning(AssignTensor(acc, t, key, bytes, limits), A \cup {t}, K, n, key, bytes, limits)
<1> DEFINE k == key[t]
           joined == Joining(acc, t, key, bytes)
           cap == limits[acc.states[k].limit]
           closed == FlushCurrentBucket(joined, k, limits)
           Result == IF joined.states[k].bytes >= cap THEN closed ELSE joined
           B == A \cup {t}
<1>1. AssignTensor(acc, t, key, bytes, limits) = Result
  BY DEF AssignTensor, Joining
<1>2. k \in K /\ B \in SUBSET (1..n) /\ BucketInv(acc, A, {}, K, n, key, bytes, limits)
      /\ \A l \in K : Below(acc, l, limits)
  BY DEF Assigning
<1> HIDE DEF joined, closed
<1>3. /\ BucketInv(joined, B, {}, K, n, key, bytes, limits) /\ joined.states[k].limit = acc.states[k].limit
      /\ \A l \in K : l # k => joined.states[l] = acc.states[l]
  <2>1. Joins(joined, acc, k, B, K, n, key, bytes, limits)
    BY <1>2, JoinInv DEF joined
  <2> QED BY <2>1 DEF Joins
<1>4. joined \in Bucketings(K, n)
  BY <1>3 DEF BucketInv
<1>5. joined.states[k].bytes \in Nat /\ joined.states[k].limit \in 1..2
  BY <1>2, <1>4 DEF Bucketings
<1>6. cap \in Nat
  BY <1>3, <1>5
<1> HIDE DEF k, cap, B
<1>7. \A l \in K : l # k => Below(joined, l, limits)
  BY <1>2, <1>3 DEF Below
<1>8. CASE joined.states[k].bytes >= cap
  <2>1. joined.states[k].bytes >= limits[joined.states[k].limit]
    BY <1>3, <1>8 DEF cap
  <2>2. /\ BucketInv(closed, B, {}, K, n, key, bytes, limits) /\ closed.states[k].current = <<>>
        /\ \A l \in K : l # k => closed.states[l] = joined.states[l]
    <3>1. Closes(closed, joined, k, B, {}, K, n, key, bytes, limits)
      BY <1>2, <1>3, <2>1, FlushInv, SMTT(30) DEF closed
    <3> QED BY <3>1 DEF Closes
  <2>3. \A l \in K : Below(closed, l, limits)
    BY <1>7, <2>2 DEF Below
  <2>4. Assigning(closed, B, K, n, key, bytes, limits)
    BY <2>2, <2>3 DEF Assigning
  <2> QED BY <1>1, <1>8, <2>4 DEF B
<1>9. CASE ~(joined.states[k].bytes >= cap)
  <2>1. joined.states[k].bytes < limits[joined.states[k].limit]
    <3>1. joined.states[k].bytes < cap
      BY <1>5, <1>6, <1>9
    <3> QED BY <1>3, <3>1 DEF cap
  <2>2. \A l \in K : Below(joined, l, limits)
    BY <1>7, <2>1 DEF Below
  <2>3. Assigning(joined, B, K, n, key, bytes, limits)
    BY <1>3, <2>2 DEF Assigning
  <2> QED BY <1>1, <1>9, <2>3 DEF B
<1> QED BY <1>8, <1>9

EmptyBucketing(K) == [states |-> [k \in K |-> EmptyState], keyOrder |-> <<>>, buckets |-> <<>>]

LEMMA EmptyAssigning ==
    ASSUME NEW n \in Nat, NEW K, NEW key \in [1..n -> K], NEW bytes \in [1..n -> Nat],
           NEW limits \in [1..2 -> Nat]
    PROVE  Assigning(EmptyBucketing(K), {}, K, n, key, bytes, limits)
<1> DEFINE x == EmptyBucketing(K)
<1>1. EmptyState \in [current : Seq(1..n), bytes : Nat, limit : 1..2]
  <2>1. <<>> \in Seq(1..n) /\ 1 \in 1..2
    OBVIOUS
  <2> QED BY <2>1 DEF EmptyState
<1>2. x.buckets = <<>> /\ x.keyOrder = <<>> /\ x.states = [k \in K |-> EmptyState]
  BY DEF EmptyBucketing
<1>3. x \in Bucketings(K, n)
  <2>1. [k \in K |-> EmptyState] \in [K -> [current : Seq(1..n), bytes : Nat, limit : 1..2]]
    BY <1>1
  <2>2. <<>> \in Seq(Seq(1..n)) /\ <<>> \in Seq(K)
    OBVIOUS
  <2> QED BY <2>1, <2>2 DEF Bucketings, EmptyBucketing
<1>4. DOMAIN <<>> = {} /\ Len(<<>>) = 0
  OBVIOUS
<1>5. Distinct(<<>>) /\ ToSet(<<>>) = {}
  BY <1>4 DEF Distinct, ToSet
<1>6. Summed(bytes, <<>>) = 0
  BY SumOfNone, Zenon
<1>7. \A i \in 1..Len(<<>>) - 1 : FALSE
  BY <1>4
<1>8. EmptyState.current = <<>> /\ EmptyState.bytes = 0 /\ EmptyState.limit = 1
  BY DEF EmptyState
<1> HIDE DEF x
<1>9. ASSUME NEW k \in K PROVE StateOf(x, k, {}, {}, key, bytes, limits) /\ Below(x, k, limits)
  <2>1. x.states[k] = EmptyState
    BY <1>2
  <2>2. OpenBucket(x.states[k], k, {}, key, bytes, limits)
    BY <1>5, <1>6, <1>7, <1>8, <2>1 DEF OpenBucket
  <2> QED BY <1>2, <1>4, <1>8, <2>1, <2>2 DEF StateOf, Below
<1>10. Apart(x) /\ Covered(x, {}, key)
  BY <1>2, <1>4 DEF Apart, Covered
<1>11. \A b \in DOMAIN x.buckets : ClosedBucket(x.buckets, b, {}, {}, key, bytes, limits)
  BY <1>2, <1>4
<1> QED BY <1>3, <1>9, <1>10, <1>11 DEF Assigning, BucketInv, x

Assigned1(assigned, K, N, key, bytes, limits, order) ==
    assigned = [j \in 0..N |-> IF j = 0 THEN EmptyBucketing(K)
                               ELSE AssignTensor(assigned[j - 1], order[j], key, bytes, limits)]

FilledBy(K, key, bytes, limits, order) ==
    (CHOOSE h : Assigned1(h, K, Len(order), key, bytes, limits, order))[Len(order)]

(* The tensors taken so far are assigned.                                  *)
LEMMA AssignedIs ==
    ASSUME NEW n \in Nat, NEW K, NEW key \in [1..n -> K], NEW bytes \in [1..n -> Nat],
           NEW limits \in [1..2 -> Nat], NEW order \in Seq(1..n), Distinct(order)
    PROVE  Assigning(FilledBy(K, key, bytes, limits, order), ToSet(order), K, n, key, bytes, limits)
<1> DEFINE N == Len(order)
           X == Bucketings(K, n)
           x0 == EmptyBucketing(K)
           Take(x, j) == AssignTensor(x, order[j], key, bytes, limits)
           f == [j \in 1..N |-> [x \in X |-> IF Take(x, j) \in X THEN Take(x, j) ELSE x]]
           taken(j) == {order[i] : i \in 1..j}
           Inv(x, j) == Assigning(x, taken(j), K, n, key, bytes, limits)
           Rec(h) == Assigned1(h, K, N, key, bytes, limits, order)
           assigned == CHOOSE h : Rec(h)
<1>1. N \in Nat /\ DOMAIN order = 1..N /\ \A j \in 1..N : order[j] \in 1..n
  BY SMTT(20)
<1>2. x0 \in X /\ Inv(x0, 0)
  <2>1. taken(0) = {}
    OBVIOUS
  <2>2. Assigning(x0, {}, K, n, key, bytes, limits)
    BY EmptyAssigning
  <2> HIDE DEF x0
  <2> QED BY <2>1, <2>2 DEF Assigning, BucketInv
<1> HIDE DEF x0
<1>3. ASSUME NEW j \in 1..N, NEW x \in X, Inv(x, j - 1) PROVE Inv(Take(x, j), j) /\ Take(x, j) \in X
  <2>1. order[j] \in (1..n) \ taken(j - 1) /\ taken(j - 1) \in SUBSET (1..n)
    <3>1. \A i \in 1..(j - 1) : i \in 1..N /\ i # j
      BY <1>1, SMTT(20)
    <3>2. \A i \in 1..(j - 1) : order[i] # order[j] /\ order[i] \in 1..n
      BY <1>1, <3>1 DEF Distinct
    <3> QED BY <1>1, <3>2
  <2>2. taken(j - 1) \cup {order[j]} = taken(j)
    <3>1. 1..j = (1..(j - 1)) \cup {j}
      BY SMTT(20)
    <3> QED BY <3>1
  <2> HIDE DEF taken
  <2>3. Assigning(Take(x, j), taken(j - 1) \cup {order[j]}, K, n, key, bytes, limits)
    BY <1>3, <2>1, AssignInv
  <2> HIDE DEF Take
  <2> QED BY <2>2, <2>3 DEF Assigning, BucketInv
<1>4. PICK h : Iterates(h, N, X, x0, f)
  <2>1. f \in [1..N -> [X -> X]]
    <3> HIDE DEF X, Take
    <3> QED OBVIOUS
  <2> HIDE DEF f, X, N
  <2> QED BY <1>1, <1>2, <2>1, Recursion
<1>5. /\ h \in [0..N -> X] /\ h[0] = x0
      /\ \A j \in 1..N : h[j] = IF Take(h[j - 1], j) \in X THEN Take(h[j - 1], j) ELSE h[j - 1]
  <2>1. h \in [0..N -> X] /\ h[0] = x0 /\ \A j \in 1..N : h[j] = f[j][h[j - 1]]
    BY <1>4 DEF Iterates
  <2>2. \A j \in 1..N : h[j - 1] \in X
    <3>1. h \in [0..N -> X] /\ \A j \in 1..N : j - 1 \in 0..N
      BY <1>1, <2>1
    <3> HIDE DEF X, N
    <3> QED BY <3>1
  <2> HIDE DEF X, Take
  <2> QED BY <2>1, <2>2
<1>6. \A j \in 0..N : Inv(h[j], j)
  <2> DEFINE S == {j \in 0..N : Inv(h[j], j)}
  <2> HIDE DEF Inv, Take, X, N
  <2>1. 0 \in S
    BY <1>1, <1>2, <1>5
  <2>2. ASSUME NEW j \in 0..N, j < N, j \in S PROVE j + 1 \in S
    <3>1. j + 1 \in 1..N /\ j + 1 \in 0..N /\ j + 1 - 1 = j
      BY <1>1, <2>2
    <3>2. h[j] \in X /\ Inv(h[j], j)
      BY <1>5, <2>2
    <3>3. Inv(Take(h[j], j + 1), j + 1) /\ Take(h[j], j + 1) \in X
      BY <1>3, <3>1, <3>2
    <3>4. h[j + 1] = IF Take(h[j], j + 1) \in X THEN Take(h[j], j + 1) ELSE h[j]
      BY <1>5, <3>1
    <3> QED BY <3>1, <3>3, <3>4
  <2> HIDE DEF S
  <2>3. \A j \in 0..N : j \in S
    BY <1>1, <2>1, <2>2, Induction
  <2> QED BY <2>3 DEF S
<1>7. Rec(h)
  <2> HIDE DEF Inv, X, N
  <2>1. ASSUME NEW j \in 0..N, j # 0 PROVE h[j] = Take(h[j - 1], j)
    <3>1. j \in 1..N /\ j - 1 \in 0..N
      BY <1>1, <2>1
    <3>2. h[j - 1] \in X /\ Inv(h[j - 1], j - 1)
      BY <1>5, <1>6, <3>1
    <3> HIDE DEF Take
    <3> QED BY <1>3, <1>5, <3>1, <3>2
  <2>2. h = [j \in 0..N |-> IF j = 0 THEN x0 ELSE Take(h[j - 1], j)]
    <3> HIDE DEF Take
    <3> QED BY <1>5, <2>1
  <2> QED BY <2>2 DEF Assigned1, x0
<1>8. Rec(assigned)
  <2> HIDE DEF Rec
  <2> QED BY <1>7
<1>9. /\ \A j \in 0..N : assigned[j] = IF j = 0 THEN x0 ELSE Take(assigned[j - 1], j)
  <2>1. assigned = [j \in 0..N |-> IF j = 0 THEN x0 ELSE Take(assigned[j - 1], j)]
    <3> HIDE DEF assigned
    <3> QED BY <1>8 DEF Assigned1, x0
  <2> HIDE DEF assigned, Take, N
  <2> QED BY <2>1
<1>10. \A j \in 0..N : Inv(assigned[j], j)
  <2> DEFINE S == {j \in 0..N : Inv(assigned[j], j) /\ assigned[j] \in X}
  <2> HIDE DEF Inv, Take, X, assigned, N
  <2>1. 0 \in S
    BY <1>1, <1>2, <1>9
  <2>2. ASSUME NEW j \in 0..N, j < N, j \in S PROVE j + 1 \in S
    <3>1. j + 1 \in 1..N /\ j + 1 \in 0..N /\ j + 1 - 1 = j /\ j + 1 # 0
      BY <1>1, <2>2
    <3>2. assigned[j + 1] = Take(assigned[j], j + 1)
      BY <1>9, <3>1
    <3> QED BY <1>3, <2>2, <3>1, <3>2
  <2> HIDE DEF S
  <2>3. \A j \in 0..N : j \in S
    BY <1>1, <2>1, <2>2, Induction
  <2> QED BY <2>3 DEF S
<1>11. Inv(assigned[N], N) /\ taken(N) = ToSet(order)
  <2>1. N \in 0..N
    BY <1>1
  <2>2. taken(N) = ToSet(order)
    BY <1>1 DEF ToSet
  <2> HIDE DEF Inv, assigned
  <2> QED BY <1>10, <2>1, <2>2
<1> HIDE DEF taken
<1> QED BY <1>11 DEF FilledBy

Flushed1(flushed, filled, M, limits) ==
    flushed = [j \in 0..M |-> IF j = 0 THEN filled
                              ELSE FlushCurrentBucket(flushed[j - 1], filled.keyOrder[j], limits)]

FlushedOf(filled, limits) ==
    (CHOOSE h : Flushed1(h, filled, Len(filled.keyOrder), limits))[Len(filled.keyOrder)]

Finished(last, filled, A, K, n, key, bytes, limits) ==
    /\ BucketInv(last, A, ToSet(filled.keyOrder), K, n, key, bytes, limits)
    /\ last.keyOrder = filled.keyOrder

(* The keys taken so far have no open bucket left.                         *)
LEMMA FlushedIs ==
    ASSUME NEW n \in Nat, NEW K, NEW key \in [1..n -> K], NEW bytes \in [1..n -> Nat],
           NEW limits \in [1..2 -> Nat], NEW A \in SUBSET (1..n), NEW filled,
           BucketInv(filled, A, {}, K, n, key, bytes, limits)
    PROVE  Finished(FlushedOf(filled, limits), filled, A, K, n, key, bytes, limits)
<1> DEFINE order == filled.keyOrder
           N == Len(order)
           X == Bucketings(K, n)
           Take(x, j) == FlushCurrentBucket(x, order[j], limits)
           f == [j \in 1..N |-> [x \in X |-> IF Take(x, j) \in X THEN Take(x, j) ELSE x]]
           taken(j) == {order[i] : i \in 1..j}
           Inv(x, j) == BucketInv(x, A, taken(j), K, n, key, bytes, limits) /\ x.keyOrder = order
           Rec(h) == Flushed1(h, filled, N, limits)
           flushed == CHOOSE h : Rec(h)
<1>1. order \in Seq(K) /\ N \in Nat /\ DOMAIN order = 1..N /\ \A j \in 1..N : order[j] \in K
  <2>1. order \in Seq(K)
    BY DEF BucketInv, Bucketings
  <2> HIDE DEF order
  <2> QED BY <2>1
<1>2. filled \in X /\ Inv(filled, 0)
  <2>1. taken(0) = {}
    OBVIOUS
  <2> HIDE DEF taken
  <2> QED BY <2>1 DEF BucketInv
<1> HIDE DEF order
<1>3. ASSUME NEW j \in 1..N, NEW x \in X, Inv(x, j - 1) PROVE Inv(Take(x, j), j) /\ Take(x, j) \in X
  <2>1. taken(j) = taken(j - 1) \cup {order[j]}
    <3>1. 1..j = (1..(j - 1)) \cup {j}
      OBVIOUS
    <3> QED BY <3>1
  <2>2. order[j] \in K /\ order[j] \in taken(j) /\ taken(j - 1) \subseteq taken(j)
        /\ taken(j) \subseteq taken(j - 1) \cup {order[j]}
    BY <1>1, <2>1
  <2> HIDE DEF taken
  <2>3. Closes(Take(x, j), x, order[j], A, taken(j), K, n, key, bytes, limits)
    BY <1>3, <2>2, FlushInv
  <2> HIDE DEF Take
  <2> QED BY <1>3, <2>3 DEF Closes, BucketInv
<1>4. PICK h : Iterates(h, N, X, filled, f)
  <2>1. f \in [1..N -> [X -> X]]
    <3> HIDE DEF X, Take
    <3> QED OBVIOUS
  <2> HIDE DEF f, X, N
  <2> QED BY <1>1, <1>2, <2>1, Recursion
<1>5. /\ h \in [0..N -> X] /\ h[0] = filled
      /\ \A j \in 1..N : h[j] = IF Take(h[j - 1], j) \in X THEN Take(h[j - 1], j) ELSE h[j - 1]
  <2>1. h \in [0..N -> X] /\ h[0] = filled /\ \A j \in 1..N : h[j] = f[j][h[j - 1]]
    BY <1>4 DEF Iterates
  <2>2. \A j \in 1..N : h[j - 1] \in X
    <3>1. h \in [0..N -> X] /\ \A j \in 1..N : j - 1 \in 0..N
      BY <1>1, <2>1
    <3> HIDE DEF X, N
    <3> QED BY <3>1
  <2> HIDE DEF X, Take
  <2> QED BY <2>1, <2>2
<1>6. \A j \in 0..N : Inv(h[j], j)
  <2> DEFINE S == {j \in 0..N : Inv(h[j], j)}
  <2> HIDE DEF Inv, Take, X, N
  <2>1. 0 \in S
    BY <1>1, <1>2, <1>5
  <2>2. ASSUME NEW j \in 0..N, j < N, j \in S PROVE j + 1 \in S
    <3>1. j + 1 \in 1..N /\ j + 1 \in 0..N /\ j + 1 - 1 = j
      BY <1>1, <2>2
    <3>2. h[j] \in X /\ Inv(h[j], j)
      BY <1>5, <2>2
    <3>3. Inv(Take(h[j], j + 1), j + 1) /\ Take(h[j], j + 1) \in X
      BY <1>3, <3>1, <3>2
    <3>4. h[j + 1] = IF Take(h[j], j + 1) \in X THEN Take(h[j], j + 1) ELSE h[j]
      BY <1>5, <3>1
    <3> QED BY <3>1, <3>3, <3>4
  <2> HIDE DEF S
  <2>3. \A j \in 0..N : j \in S
    BY <1>1, <2>1, <2>2, Induction
  <2> QED BY <2>3 DEF S
<1>7. Rec(h)
  <2> HIDE DEF Inv, X, N
  <2>1. ASSUME NEW j \in 0..N, j # 0 PROVE h[j] = Take(h[j - 1], j)
    <3>1. j \in 1..N /\ j - 1 \in 0..N
      BY <1>1, <2>1
    <3>2. h[j - 1] \in X /\ Inv(h[j - 1], j - 1)
      BY <1>5, <1>6, <3>1
    <3> HIDE DEF Take
    <3> QED BY <1>3, <1>5, <3>1, <3>2
  <2>2. h = [j \in 0..N |-> IF j = 0 THEN filled ELSE Take(h[j - 1], j)]
    <3> HIDE DEF Take
    <3> QED BY <1>5, <2>1
  <2> QED BY <2>2 DEF Flushed1, order
<1>8. Rec(flushed)
  <2> HIDE DEF Rec
  <2> QED BY <1>7
<1>9. \A j \in 0..N : flushed[j] = IF j = 0 THEN filled ELSE Take(flushed[j - 1], j)
  <2>1. flushed = [j \in 0..N |-> IF j = 0 THEN filled ELSE Take(flushed[j - 1], j)]
    <3> HIDE DEF flushed
    <3> QED BY <1>8 DEF Flushed1, order
  <2> HIDE DEF flushed, Take, N
  <2> QED BY <2>1
<1>10. \A j \in 0..N : Inv(flushed[j], j)
  <2> DEFINE S == {j \in 0..N : Inv(flushed[j], j) /\ flushed[j] \in X}
  <2> HIDE DEF Inv, Take, X, flushed, N
  <2>1. 0 \in S
    BY <1>1, <1>2, <1>9
  <2>2. ASSUME NEW j \in 0..N, j < N, j \in S PROVE j + 1 \in S
    <3>1. j + 1 \in 1..N /\ j + 1 \in 0..N /\ j + 1 - 1 = j /\ j + 1 # 0
      BY <1>1, <2>2
    <3>2. flushed[j + 1] = Take(flushed[j], j + 1)
      BY <1>9, <3>1
    <3> QED BY <1>3, <2>2, <3>1, <3>2
  <2> HIDE DEF S
  <2>3. \A j \in 0..N : j \in S
    BY <1>1, <2>1, <2>2, Induction
  <2> QED BY <2>3 DEF S
<1>11. Inv(flushed[N], N) /\ taken(N) = ToSet(order)
  <2>1. N \in 0..N
    BY <1>1
  <2>2. taken(N) = ToSet(order)
    BY <1>1 DEF ToSet
  <2> HIDE DEF Inv, flushed
  <2> QED BY <1>10, <2>1, <2>2
<1> HIDE DEF flushed, taken
<1>12. Finished(flushed[N], filled, A, K, n, key, bytes, limits)
  BY <1>11 DEF Finished, order
<1> QED BY <1>12 DEF flushed, order, FlushedOf

(* Every tensor is assigned, and no bucket is left open.                   *)
Completed(bs, K, n, key, bytes, limits) ==
    \E acc : /\ BucketInv(acc, 1..n, K, K, n, key, bytes, limits) /\ acc.buckets = bs
             /\ \A k \in K : acc.states[k].current = <<>>

LEMMA AssignmentIs ==
    ASSUME NEW n \in Nat, NEW K, NEW key \in [1..n -> K], ToSet(key) = K, NEW bytes \in [1..n -> Nat],
           NEW limits \in [1..2 -> Nat], NEW order \in Seq(1..n), Distinct(order), ToSet(order) = 1..n
    PROVE  Completed(ComputeBucketAssignmentBySize(key, bytes, limits, order), K, n, key, bytes, limits)
<1> DEFINE filled == FilledBy(K, key, bytes, limits, order)
           last == FlushedOf(filled, limits)
<1>1. ComputeBucketAssignmentBySize(key, bytes, limits, order) = last.buckets
  <2> DEFINE Run(S) ==
               LET empty == [states |-> [k \in S |-> EmptyState], keyOrder |-> <<>>, buckets |-> <<>>]
                   row[j \in 0..Len(order)] ==
                       IF j = 0 THEN empty
                       ELSE AssignTensor(row[j - 1], order[j], key, bytes, limits)
                   full == row[Len(order)]
                   drain[j \in 0..Len(full.keyOrder)] ==
                       IF j = 0 THEN full
                       ELSE FlushCurrentBucket(drain[j - 1], full.keyOrder[j], limits)
               IN  drain[Len(full.keyOrder)].buckets
  <2>1. ComputeBucketAssignmentBySize(key, bytes, limits, order) = Run(ToSet(key))
    BY DEF ComputeBucketAssignmentBySize
  <2>2. Run(K) = last.buckets
    BY DEF FilledBy, FlushedOf, Assigned1, Flushed1, EmptyBucketing
  <2> HIDE DEF Run, last
  <2> QED BY <2>1, <2>2
<1>2. Assigning(filled, 1..n, K, n, key, bytes, limits)
  <2>1. Assigning(filled, ToSet(order), K, n, key, bytes, limits)
    BY AssignedIs, Zenon
  <2> HIDE DEF filled
  <2> QED BY <2>1
<1>3. 1..n \in SUBSET (1..n) /\ BucketInv(filled, 1..n, {}, K, n, key, bytes, limits)
  BY <1>2 DEF Assigning
<1> HIDE DEF filled
<1>4. /\ BucketInv(last, 1..n, ToSet(filled.keyOrder), K, n, key, bytes, limits)
      /\ last.keyOrder = filled.keyOrder
  <2>1. Finished(last, filled, 1..n, K, n, key, bytes, limits)
    BY <1>3, FlushedIs, Zenon
  <2> HIDE DEF last
  <2> QED BY <2>1 DEF Finished
<1> HIDE DEF last
<1>5. \A k \in K : last.states[k].current = <<>>
  BY <1>4 DEF BucketInv, StateOf
<1>6. BucketInv(last, 1..n, K, K, n, key, bytes, limits)
  <2>1. \A k \in K : StateOf(last, k, 1..n, K, key, bytes, limits)
    BY <1>4, <1>5 DEF BucketInv, StateOf
  <2>2. ToSet(filled.keyOrder) \subseteq K
    <3>1. filled.keyOrder \in Seq(K)
      BY <1>3 DEF BucketInv, Bucketings
    <3> QED BY <3>1 DEF ToSet
  <2>3. \A b \in DOMAIN last.buckets : ClosedBucket(last.buckets, b, 1..n, K, key, bytes, limits)
    BY <1>4, <2>2 DEF BucketInv, ClosedBucket
  <2> QED BY <1>4, <2>1, <2>3 DEF BucketInv
<1> QED BY <1>1, <1>5, <1>6 DEF Completed

(* So each tensor has one place.                                           *)
LEMMA PartitionIs ==
    ASSUME NEW n \in Nat, NEW K, NEW key \in [1..n -> K], NEW bytes, NEW limits, NEW bs,
           Completed(bs, K, n, key, bytes, limits)
    PROVE  IsPartition(bs, n)
<1>1. PICK acc : /\ BucketInv(acc, 1..n, K, K, n, key, bytes, limits) /\ acc.buckets = bs
                 /\ \A k \in K : acc.states[k].current = <<>>
  BY DEF Completed
<1>2. \A b \in DOMAIN bs : bs[b] # <<>> /\ ToSet(bs[b]) \subseteq 1..n /\ Distinct(bs[b])
  BY <1>1 DEF BucketInv, ClosedBucket
<1>3. \A b, c \in DOMAIN bs : \A t \in ToSet(bs[b]) : t \in ToSet(bs[c]) => b = c
  BY <1>1 DEF BucketInv, Apart
<1>4. ASSUME NEW t \in 1..n
      PROVE  \E b \in DOMAIN bs : \E i \in DOMAIN bs[b] :
                \A c \in DOMAIN bs : \A j \in DOMAIN bs[c] : bs[c][j] = t <=> c = b /\ j = i
  <2>1. acc.states[key[t]].current = <<>>
    BY <1>1
  <2>2. ToSet(<<>>) = {}
    BY DEF ToSet
  <2>3. PICK b \in DOMAIN bs : t \in ToSet(bs[b])
    BY <1>1, <2>1, <2>2 DEF BucketInv, Covered
  <2>4. PICK i \in DOMAIN bs[b] : bs[b][i] = t
    BY <2>3 DEF ToSet
  <2>5. ASSUME NEW c \in DOMAIN bs, NEW j \in DOMAIN bs[c], bs[c][j] = t PROVE c = b /\ j = i
    <3>1. t \in ToSet(bs[c])
      BY <2>5 DEF ToSet
    <3>2. c = b
      BY <1>3, <2>3, <3>1
    <3> QED BY <1>2, <2>4, <2>5, <3>2 DEF Distinct
  <2>6. \A c \in DOMAIN bs : \A j \in DOMAIN bs[c] : bs[c][j] = t <=> c = b /\ j = i
    BY <2>4, <2>5
  <2> QED BY <2>6
<1>5. bs \in Seq(Seq(1..n) \ {<<>>})
  <2>1. bs \in Seq(Seq(1..n))
    BY <1>1 DEF BucketInv, Bucketings
  <2>2. \A b \in DOMAIN bs : bs[b] \in Seq(1..n) \ {<<>>}
    BY <1>2, <2>1
  <2> QED BY <2>1, <2>2
<1> QED BY <1>4, <1>5 DEF IsPartition

(* The turn of a bucket among those of its key is its limit.               *)
LEMMA TurnIs ==
    ASSUME NEW bs, NEW key, NEW b \in Nat \ {0}, NEW limits \in [1..2 -> Nat]
    PROVE  LET turn == Cardinality({c \in 1..b : key[bs[b][1]] = key[bs[c][1]]})
           IN  limits[IF turn < Len(limits) THEN turn ELSE Len(limits)] = LimitOf(bs, b, key, limits)
<1> DEFINE S == {c \in 1..b : key[bs[b][1]] = key[bs[c][1]]}
           turn == Cardinality(S)
<1>1. IsFiniteSet(S) /\ turn \in Nat
  <2>1. IsFiniteSet(1..b)
    BY FS_Interval
  <2>2. S \subseteq 1..b
    OBVIOUS
  <2> HIDE DEF S
  <2>3. IsFiniteSet(S)
    BY <2>1, <2>2, FS_Subset
  <2> QED BY <2>3, FS_CardinalityType
<1>2. Len(limits) = 2 /\ b \in S
  OBVIOUS
<1>3. CASE IsFirst(bs, b, key)
  <2>1. S = {b}
    <3>1. \A c \in 1..b : c = b \/ c \in 1..b - 1
      OBVIOUS
    <3>2. \A c \in 1..b - 1 : key[bs[b][1]] # key[bs[c][1]]
      BY <1>3 DEF IsFirst, KeyOf
    <3> QED BY <1>2, <3>1, <3>2
  <2> HIDE DEF S
  <2>2. turn = 1
    BY <2>1, FS_Singleton
  <2> QED BY <1>2, <1>3, <2>2 DEF LimitOf, S
<1>4. CASE ~IsFirst(bs, b, key)
  <2>1. PICK c \in 1..b - 1 : key[bs[b][1]] = key[bs[c][1]]
    BY <1>4 DEF IsFirst, KeyOf
  <2>2. c \in S /\ c # b
    BY <2>1
  <2> HIDE DEF S
  <2>3. Cardinality({b, c}) = 2 /\ {b, c} \subseteq S
    <3>1. IsFiniteSet({b}) /\ Cardinality({b}) = 1
      BY FS_Singleton
    <3>2. Cardinality({b} \cup {c}) = Cardinality({b}) + 1
      BY <2>2, <3>1, FS_AddElement
    <3>3. {b, c} = {b} \cup {c}
      OBVIOUS
    <3> QED BY <1>2, <2>2, <3>1, <3>2, <3>3
  <2>4. 2 <= turn
    BY <1>1, <2>3, FS_Subset
  <2>5. ~(turn < 2)
    BY <1>1, <2>4
  <2> QED BY <1>2, <1>4, <2>5 DEF LimitOf, S
<1> QED BY <1>3, <1>4

LEMMA CappedIs ==
    ASSUME NEW n \in Nat, NEW K, NEW key \in [1..n -> K], NEW bytes, NEW limits \in [1..2 -> Nat], NEW bs,
           Completed(bs, K, n, key, bytes, limits)
    PROVE  AreCapped(bs, key, bytes, limits)
<1>1. PICK acc : BucketInv(acc, 1..n, K, K, n, key, bytes, limits) /\ acc.buckets = bs
  BY DEF Completed
<1>2. bs \in Seq(Seq(1..n)) /\ \A b \in DOMAIN bs : ClosedBucket(bs, b, 1..n, K, key, bytes, limits)
  BY <1>1 DEF BucketInv, Bucketings
<1> DEFINE SameKey(b, c) == key[bs[b][1]] = key[bs[c][1]]
           turn(b) == Cardinality({c \in 1..b : SameKey(b, c)})
           limit(b) == limits[IF turn(b) < Len(limits) THEN turn(b) ELSE Len(limits)]
<1>3. ASSUME NEW b \in DOMAIN bs
      PROVE  /\ \A i \in DOMAIN bs[b] : key[bs[b][i]] = key[bs[b][1]]
             /\ \A i \in 1..(Len(bs[b]) - 1) : BytesOf(bs[b], i, bytes) < limit(b)
             /\ \/ BytesOf(bs[b], Len(bs[b]), bytes) >= limit(b)
                \/ \A c \in DOMAIN bs : c > b => ~SameKey(b, c)
  <2>1. limit(b) = LimitOf(bs, b, key, limits)
    <3>1. b \in Nat \ {0}
      BY <1>2
    <3> QED BY <3>1, TurnIs
  <2>2. ClosedBucket(bs, b, 1..n, K, key, bytes, limits)
    BY <1>2
  <2> HIDE DEF limit
  <2>3. \A i : BytesOf(bs[b], i, bytes) = Summed(bytes, SubSeq(bs[b], 1, i))
    BY DEF BytesOf, Summed
  <2>4. SubSeq(bs[b], 1, Len(bs[b])) = bs[b]
    <3>1. bs[b] \in Seq(1..n)
      BY <1>2, ElementOf, Zenon
    <3> QED BY <3>1
  <2>5. \A i \in DOMAIN bs[b] : key[bs[b][i]] = key[bs[b][1]]
    BY <2>2 DEF ClosedBucket, KeyOf, ToSet
  <2>6. \A i \in 1..(Len(bs[b]) - 1) : BytesOf(bs[b], i, bytes) < limit(b)
    BY <2>1, <2>2, <2>3 DEF ClosedBucket
  <2>7. \/ BytesOf(bs[b], Len(bs[b]), bytes) >= limit(b)
        \/ \A c \in DOMAIN bs : c > b => ~SameKey(b, c)
    BY <2>1, <2>2, <2>3, <2>4 DEF ClosedBucket, KeyOf
  <2> QED BY <2>5, <2>6, <2>7
<1> QED BY <1>3 DEF AreCapped

(* The registration order from its end.                                    *)
LEMMA ReverseIs ==
    ASSUME NEW n \in Nat, NEW key, DOMAIN key = 1..n
    PROVE  LET order == Reverse([i \in DOMAIN key |-> i])
           IN  order \in Seq(1..n) /\ Distinct(order) /\ ToSet(order) = 1..n
<1> DEFINE ids == [i \in 1..n |-> i]
           order == [i \in 1..n |-> n - i + 1]
<1>1. ids \in Seq(1..n) /\ Len(ids) = n
  OBVIOUS
<1>2. Reverse(ids) = order
  <2>1. Reverse(ids) = [i \in 1..Len(ids) |-> ids[(Len(ids) - i) + 1]]
    BY DEF Reverse
  <2>2. \A i \in 1..n : (n - i) + 1 \in 1..n /\ ids[(n - i) + 1] = n - i + 1
    OBVIOUS
  <2> HIDE DEF ids
  <2> QED BY <1>1, <2>1, <2>2
<1>3. order \in Seq(1..n)
  OBVIOUS
<1>4. Distinct(order)
  BY DEF Distinct
<1>5. ToSet(order) = 1..n
  <2>1. \A t \in 1..n : n - t + 1 \in 1..n /\ order[n - t + 1] = t
    OBVIOUS
  <2>2. DOMAIN order = 1..n /\ \A i \in 1..n : order[i] \in 1..n
    OBVIOUS
  <2> HIDE DEF order
  <2> QED BY <2>1, <2>2 DEF ToSet
<1> QED BY <1>2, <1>3, <1>4, <1>5

(* The recorded order and what it lacks.                                   *)
Rest(with, recorded, n) ==
    with = [i \in 0..n |-> IF i = 0 THEN recorded
                           ELSE IF i \in ToSet(recorded) THEN with[i - 1]
                           ELSE Append(with[i - 1], i)]

LEMMA FullOrderIs ==
    ASSUME NEW n \in Nat, NEW recorded \in Seq(1..n), Distinct(recorded)
    PROVE  /\ FullOrder(recorded, n) \in Seq(1..n) /\ Distinct(FullOrder(recorded, n))
           /\ ToSet(FullOrder(recorded, n)) = 1..n
<1> DEFINE X == Seq(1..n)
           R == ToSet(recorded)
           Next1(x, i) == IF i \in R THEN x ELSE Append(x, i)
           f == [i \in 1..n |-> [x \in X |-> Next1(x, i)]]
           with == CHOOSE h : Rest(h, recorded, n)
           Inv(x, i) == x \in X /\ Distinct(x) /\ ToSet(x) = R \cup 1..i
<1>1. R \subseteq 1..n
  BY DEF ToSet
<1> HIDE DEF R
<1>2. ASSUME NEW i \in 1..n, NEW x \in X PROVE Next1(x, i) \in X
  <2>1. AppendsTo(x, i, 1..n)
    BY AppendIs
  <2> QED BY <2>1 DEF AppendsTo
<1>3. PICK h : Iterates(h, n, X, recorded, f)
  <2>1. f \in [1..n -> [X -> X]]
    <3> HIDE DEF X, Next1
    <3> QED BY <1>2
  <2> HIDE DEF f, X
  <2> QED BY <2>1, Recursion DEF X
<1>4. h \in [0..n -> X] /\ h[0] = recorded /\ \A i \in 1..n : h[i] = Next1(h[i - 1], i)
  <2>1. h \in [0..n -> X] /\ h[0] = recorded /\ \A i \in 1..n : h[i] = f[i][h[i - 1]]
    BY <1>3 DEF Iterates
  <2>2. \A i \in 1..n : h[i - 1] \in X
    <3> HIDE DEF X
    <3> QED BY <2>1
  <2> HIDE DEF X, Next1
  <2> QED BY <2>1, <2>2
<1>5. Rest(h, recorded, n)
  <2>1. h = [i \in 0..n |-> IF i = 0 THEN recorded ELSE Next1(h[i - 1], i)]
    <3>1. \A i \in 0..n : i # 0 => i \in 1..n
      OBVIOUS
    <3> HIDE DEF X, Next1
    <3> QED BY <1>4, <3>1
  <2> QED BY <2>1, Zenon DEF Rest, R
<1>6. Rest(with, recorded, n)
  BY <1>5
<1>7. \A i \in 0..n : with[i] = IF i = 0 THEN recorded ELSE Next1(with[i - 1], i)
  <2>1. with = [i \in 0..n |-> IF i = 0 THEN recorded ELSE Next1(with[i - 1], i)]
    <3> HIDE DEF with
    <3> QED BY <1>6, Zenon DEF Rest, R
  <2> HIDE DEF with, Next1
  <2> QED BY <2>1
<1>8. Inv(recorded, 0)
  <2>1. R \cup 1..0 = R
    OBVIOUS
  <2> QED BY <2>1 DEF R
<1>9. ASSUME NEW i \in 1..n, NEW x, Inv(x, i - 1) PROVE Inv(Next1(x, i), i)
  <2>1. 1..i = (1..(i - 1)) \cup {i}
    OBVIOUS
  <2>2. CASE i \in R
    BY <1>9, <2>1, <2>2
  <2>3. CASE i \notin R
    <3>1. i \notin ToSet(x)
      BY <1>9, <2>3
    <3>2. AppendsTo(x, i, 1..n) /\ Distinct(Append(x, i))
      <4>1. AppendsTo(x, i, 1..n)
        BY <1>9, AppendIs
      <4>2. Distinct(Append(x, i))
        BY <1>9, <3>1, DistinctAppend
      <4> QED BY <4>1, <4>2
    <3>3. Append(x, i) \in X /\ ToSet(Append(x, i)) = ToSet(x) \cup {i}
      BY <3>2 DEF AppendsTo
    <3> QED BY <1>9, <2>1, <2>3, <3>2, <3>3
  <2> QED BY <2>2, <2>3
<1>10. Inv(with[n], n)
  <2> DEFINE S == {i \in 0..n : Inv(with[i], i)}
  <2> HIDE DEF Inv, Next1, with
  <2>1. 0 \in S
    BY <1>7, <1>8
  <2>2. ASSUME NEW i \in 0..n, i < n, i \in S PROVE i + 1 \in S
    <3>1. i + 1 \in 1..n /\ i + 1 \in 0..n /\ i + 1 - 1 = i /\ i + 1 # 0
      BY <2>2
    <3>2. with[i + 1] = Next1(with[i], i + 1)
      BY <1>7, <3>1
    <3> QED BY <1>9, <2>2, <3>1, <3>2
  <2> HIDE DEF S
  <2>3. \A i \in 0..n : i \in S
    BY <2>1, <2>2, Induction
  <2>4. n \in S
    BY <2>3
  <2> QED BY <2>4 DEF S
<1>11. FullOrder(recorded, n) = with[n]
  BY DEF FullOrder, Rest
<1> HIDE DEF with
<1> QED BY <1>1, <1>10, <1>11

LEMMA PermutationLength ==
    ASSUME NEW n \in Nat, NEW q \in Seq(1..n), Distinct(q), ToSet(q) = 1..n
    PROVE  q \in [1..n -> 1..n]
<1>1. Len(q) \in Nat /\ DOMAIN q = 1..Len(q) /\ q \in [1..Len(q) -> 1..n]
  OBVIOUS
<1>2. q \in Bijection(1..Len(q), 1..n)
  <2>1. \A i, j \in 1..Len(q) : q[i] = q[j] => i = j
    BY <1>1 DEF Distinct
  <2>2. \A t \in 1..n : \E i \in 1..Len(q) : q[i] = t
    BY <1>1 DEF ToSet
  <2> QED BY <1>1, <2>1, <2>2 DEF Bijection, Injection, Surjection, IsInjective
<1>3. IsFiniteSet(1..Len(q)) /\ Cardinality(1..Len(q)) = Len(q) /\ Cardinality(1..n) = n
  <2>1. \A k \in Nat : IsFiniteSet(1..k) /\ Cardinality(1..k) = k
    <3> SUFFICES ASSUME NEW k \in Nat PROVE IsFiniteSet(1..k) /\ Cardinality(1..k) = k
      OBVIOUS
    <3>1. IsFiniteSet(1..k) /\ Cardinality(1..k) = IF 1 > k THEN 0 ELSE k - 1 + 1
      BY FS_Interval
    <3>2. (IF 1 > k THEN 0 ELSE k - 1 + 1) = k
      OBVIOUS
    <3> QED BY <3>1, <3>2
  <2> QED BY <1>1, <2>1, Zenon
<1>4. Cardinality(1..n) = Cardinality(1..Len(q))
  <2>1. ExistsBijection(1..Len(q), 1..n)
    BY <1>2 DEF ExistsBijection
  <2> QED BY <1>3, <2>1, FS_Bijection
<1> QED BY <1>1, <1>3, <1>4

(* The assignment of the constructor.                                      *)
LEMMA InitialIs ==
    ASSUME NEW n \in Nat, NEW K, NEW key \in [1..n -> K], NEW bytes \in [1..n -> Nat],
           NEW limits \in [1..2 -> Nat]
    PROVE  /\ IsPartition(InitialAssignment(key, bytes, limits), n)
           /\ AreCapped(InitialAssignment(key, bytes, limits), key, bytes, limits)
<1> DEFINE order == Reverse([i \in DOMAIN key |-> i])
           L == ToSet(key)
           bs == InitialAssignment(key, bytes, limits)
<1>1. order \in Seq(1..n) /\ Distinct(order) /\ ToSet(order) = 1..n
  <2>1. DOMAIN key = 1..n
    OBVIOUS
  <2> QED BY <2>1, ReverseIs
<1>2. bs = ComputeBucketAssignmentBySize(key, bytes, limits, order)
  BY DEF InitialAssignment
<1>3. key \in [1..n -> L]
  BY DEF ToSet
<1> HIDE DEF order, L, bs
<1>4. Completed(bs, L, n, key, bytes, limits)
  BY <1>1, <1>2, <1>3, AssignmentIs DEF L
<1> QED BY <1>3, <1>4, PartitionIs, CappedIs DEF bs

(* That of RebuildBuckets, whose sizes and keys are permuted twice.        *)
LEMMA RebuiltIs ==
    ASSUME NEW n \in Nat, NEW K, NEW key \in [1..n -> K], NEW bytes \in [1..n -> Nat],
           NEW limits \in [1..2 -> Nat], NEW recorded \in Seq(1..n), Distinct(recorded)
    PROVE  IsPartition(RebuiltAssignment(key, bytes, limits, recorded), n)
<1> DEFINE full == FullOrder(recorded, n)
           key2 == [j \in 1..n |-> key[full[j]]]
           bytes2 == [j \in 1..n |-> bytes[full[j]]]
           L == ToSet(key2)
           bs == RebuiltAssignment(key, bytes, limits, recorded)
<1>1. full \in Seq(1..n) /\ Distinct(full) /\ ToSet(full) = 1..n
  BY FullOrderIs
<1>2. Len(key) = n /\ DOMAIN key = 1..n
  OBVIOUS
<1>3. bs = ComputeBucketAssignmentBySize(key2, bytes2, limits, full)
  BY <1>2 DEF RebuiltAssignment
<1> HIDE DEF full
<1>4. full \in [1..n -> 1..n]
  BY <1>1, PermutationLength
<1>5. key2 \in [1..n -> L] /\ bytes2 \in [1..n -> Nat]
  <2>1. bytes2 \in [1..n -> Nat]
    BY <1>4
  <2>2. key2 \in [1..n -> L]
    BY DEF ToSet
  <2> QED BY <2>1, <2>2
<1> HIDE DEF key2, bytes2, L, bs
<1>6. Completed(bs, L, n, key2, bytes2, limits)
  BY <1>1, <1>3, <1>5, AssignmentIs DEF L
<1> QED BY <1>5, <1>6, PartitionIs DEF bs

(* What Reducer assumes of its buckets (BucketsAssumption) holds of the    *)
(* assignment the code computes, for every number of parameters, their     *)
(* devices, dtypes and bytes, every pair of caps and every order the first *)
(* round can record, the empty one included: each parameter has exactly    *)
(* one place, and no bucket is empty.                                      *)
THEOREM EveryAssignmentPartitions ==
    ASSUME NEW n \in Nat, NEW K, NEW key \in [1..n -> K], NEW bytes \in [1..n -> Nat],
           NEW limits \in [1..2 -> Nat]
    PROVE  /\ IsPartition(InitialAssignment(key, bytes, limits), n)
           /\ \A recorded \in Seq(1..n) :
                 (\A i, j \in DOMAIN recorded : recorded[i] = recorded[j] => i = j)
                   => IsPartition(RebuiltAssignment(key, bytes, limits, recorded), n)
<1>1. IsPartition(InitialAssignment(key, bytes, limits), n)
  BY InitialIs
<1>2. ASSUME NEW recorded \in Seq(1..n), \A i, j \in DOMAIN recorded : recorded[i] = recorded[j] => i = j
      PROVE  IsPartition(RebuiltAssignment(key, bytes, limits, recorded), n)
  <2>1. Distinct(recorded)
    BY <1>2 DEF Distinct
  <2> QED BY <2>1, RebuiltIs
<1> QED BY <1>1, <1>2

-----------------------------------------------------------------------------
(* Lists in an order.                                                      *)

(* P orders S strictly and totally.                                        *)
StrictOrder(P, S) ==
    /\ \A x \in S : <<x, x>> \notin P
    /\ \A x, y, z \in S : <<x, y>> \in P /\ <<y, z>> \in P => <<x, z>> \in P
    /\ \A x, y \in S : x # y => <<x, y>> \in P \/ <<y, x>> \in P

Earlier(P, S, x) == {y \in S : <<y, x>> \in P}

(* s lists S in the order P. *)
Lists(s, S, P) ==
    /\ s \in [1..Cardinality(S) -> S]
    /\ \A x \in S : \E i \in 1..Cardinality(S) : s[i] = x
    /\ \A i, j \in 1..Cardinality(S) : s[i] = s[j] => i = j
    /\ \A i, j \in 1..Cardinality(S) : <<s[i], s[j]>> \in P => i < j

(* The members before x are some of those other than x. *)
LEMMA EarlierAre ==
    ASSUME NEW S, IsFiniteSet(S), NEW P, StrictOrder(P, S), NEW x \in S
    PROVE  /\ IsFiniteSet(Earlier(P, S, x))
           /\ Cardinality(Earlier(P, S, x)) \in Nat
           /\ Cardinality(Earlier(P, S, x)) < Cardinality(S)
<1>1. Earlier(P, S, x) \subseteq S \ {x}
  BY DEF Earlier, StrictOrder
<1>2. IsFiniteSet(S \ {x}) /\ Cardinality(S \ {x}) = Cardinality(S) - 1
  BY FS_RemoveElement
<1>3. IsFiniteSet(Earlier(P, S, x)) /\ Cardinality(Earlier(P, S, x)) <= Cardinality(S \ {x})
  BY <1>1, <1>2, FS_Subset
<1>4. Cardinality(Earlier(P, S, x)) \in Nat /\ Cardinality(S) \in Nat
  BY <1>3, FS_CardinalityType
<1> QED BY <1>2, <1>3, <1>4

LEMMA EarlierGrow ==
    ASSUME NEW S, IsFiniteSet(S), NEW P, StrictOrder(P, S), NEW x \in S, NEW y \in S, <<y, x>> \in P
    PROVE  Cardinality(Earlier(P, S, y)) < Cardinality(Earlier(P, S, x))
<1>1. Earlier(P, S, y) \subseteq Earlier(P, S, x) \ {y} /\ y \in Earlier(P, S, x)
  BY DEF Earlier, StrictOrder
<1>2. IsFiniteSet(Earlier(P, S, x)) /\ Cardinality(Earlier(P, S, x)) \in Nat
  BY EarlierAre
<1>3. /\ IsFiniteSet(Earlier(P, S, x) \ {y})
      /\ Cardinality(Earlier(P, S, x) \ {y}) = Cardinality(Earlier(P, S, x)) - 1
  BY <1>1, <1>2, FS_RemoveElement
<1>4. Cardinality(Earlier(P, S, y)) <= Cardinality(Earlier(P, S, x) \ {y})
  BY <1>1, <1>3, FS_Subset
<1>5. Cardinality(Earlier(P, S, y)) \in Nat
  BY EarlierAre
<1> QED BY <1>2, <1>3, <1>4, <1>5

(* As many are before a member as there are places before its own. *)
LEMMA EveryPlaceTaken ==
    ASSUME NEW S, IsFiniteSet(S), NEW P, StrictOrder(P, S)
    PROVE  /\ \A i \in 1..Cardinality(S) : \E x \in S : Cardinality(Earlier(P, S, x)) = i - 1
           /\ \A x, y \in S : Cardinality(Earlier(P, S, x)) = Cardinality(Earlier(P, S, y)) => x = y
<1> DEFINE N == Cardinality(S)
           r == [x \in S |-> Cardinality(Earlier(P, S, x))]
<1>1. N \in Nat
  BY FS_CardinalityType
<1>2. r \in [S -> 0..N-1]
  <2>1. ASSUME NEW x \in S PROVE Cardinality(Earlier(P, S, x)) \in 0..N-1
    BY <1>1, EarlierAre
  <2> HIDE DEF N
  <2> QED BY <2>1
<1>3. \A x, y \in S : <<y, x>> \in P => r[y] < r[x]
  BY EarlierGrow
<1>4. \A x, y \in S : r[x] = r[y] => x = y
  <2> HIDE DEF r, N
  <2>1. SUFFICES ASSUME NEW x \in S, NEW y \in S, r[x] = r[y], x # y PROVE FALSE
    OBVIOUS
  <2>2. r[x] \in Nat /\ r[y] \in Nat
    BY <1>1, <1>2
  <2>3. r[x] < r[y] \/ r[y] < r[x]
    BY <1>3, <2>1 DEF StrictOrder
  <2> QED BY <2>1, <2>2, <2>3
<1>5. r \in Surjection(S, 0..N-1)
  <2>1. r \in Injection(S, 0..N-1)
    <3> HIDE DEF r, N
    <3> QED BY <1>2, <1>4 DEF Injection, IsInjective
  <2>2. IsFiniteSet(0..N-1) /\ Cardinality(0..N-1) = N
    <3> HIDE DEF N
    <3>1. 0 \in Int /\ N - 1 \in Int
      BY <1>1
    <3>2. IsFiniteSet(0..N-1) /\ Cardinality(0..N-1) = IF 0 > N - 1 THEN 0 ELSE N - 1 - 0 + 1
      BY <3>1, FS_Interval
    <3> QED BY <1>1, <3>2
  <2> HIDE DEF r
  <2> QED BY <2>1, <2>2, FS_Injection
<1>6. ASSUME NEW i \in 1..N PROVE \E x \in S : r[x] = i - 1
  <2>1. i - 1 \in 0..N-1
    BY <1>1
  <2> HIDE DEF r, N
  <2> QED BY <1>5, <2>1 DEF Surjection
<1> QED BY <1>4, <1>6

LEMMA ListedInOrder ==
    ASSUME NEW S, IsFiniteSet(S), NEW P, StrictOrder(P, S), NEW s \in [1..Cardinality(S) -> S],
           \A i \in 1..Cardinality(S) : Cardinality(Earlier(P, S, s[i])) = i - 1
    PROVE  Lists(s, S, P)
<1> DEFINE N == Cardinality(S)
           r == [x \in S |-> Cardinality(Earlier(P, S, x))]
<1>1. N \in Nat
  BY FS_CardinalityType
<1>2. \A x \in S : r[x] \in 0..N-1
  <2>1. ASSUME NEW x \in S PROVE Cardinality(Earlier(P, S, x)) \in 0..N-1
    BY <1>1, EarlierAre
  <2> HIDE DEF N
  <2> QED BY <2>1
<1>3. \A x, y \in S : <<y, x>> \in P => r[y] < r[x]
  BY EarlierGrow
<1>4. \A x, y \in S : r[x] = r[y] => x = y
  BY EveryPlaceTaken
<1>5. s \in [1..N -> S]
  OBVIOUS
<1>6. \A i \in 1..N : s[i] \in S /\ r[s[i]] = i - 1
  OBVIOUS
<1> HIDE DEF r, N
<1>7. ASSUME NEW x \in S PROVE \E i \in 1..N : s[i] = x
  <2>1. PICK k \in Nat : k = r[x] /\ k < N
    BY <1>1, <1>2
  <2>2. PICK i \in 1..N : i = k + 1
    BY <1>1, <2>1
  <2>3. i - 1 = r[x]
    BY <2>1, <2>2
  <2> QED BY <1>4, <1>6, <2>3
<1>8. ASSUME NEW i \in 1..N, NEW j \in 1..N, s[i] = s[j] PROVE i = j
  <2>1. i - 1 = j - 1
    BY <1>6, <1>8
  <2> QED BY <1>1, <2>1
<1>9. ASSUME NEW i \in 1..N, NEW j \in 1..N, <<s[i], s[j]>> \in P PROVE i < j
  <2>1. i - 1 < j - 1
    BY <1>3, <1>6, <1>9
  <2> QED BY <1>1, <2>1
<1> QED BY <1>5, <1>7, <1>8, <1>9 DEF Lists, N

(* One task for each micro-batch, chunk and direction.                     *)
IsTask(t, mb, c, f) == t.mb = mb /\ t.chunk = c /\ t.forward = f

OneTaskEach(T, n, chunks) ==
    /\ \A t \in T : t.mb \in 0..n-1 /\ t.chunk \in 0..chunks-1 /\ t.forward \in BOOLEAN
    /\ \A mb \in 0..n-1 : \A c \in 0..chunks-1 : \A f \in BOOLEAN :
           \E t \in T : IsTask(t, mb, c, f) /\ \A u \in T : IsTask(u, mb, c, f) => u = t

LEMMA TasksCounted ==
    ASSUME NEW T, NEW n \in Nat, NEW chunks \in Nat, OneTaskEach(T, n, chunks)
    PROVE  IsFiniteSet(T) /\ Cardinality(T) = 2 * n * chunks
<1> DEFINE M == 0..n-1
           C == 0..chunks-1
           X == (M \X C) \X BOOLEAN
           h == [t \in T |-> <<<<t.mb, t.chunk>>, t.forward>>]
<1>1. IsFiniteSet(M) /\ Cardinality(M) = n
  <2>1. 0 \in Int /\ n - 1 \in Int
    OBVIOUS
  <2>2. IsFiniteSet(0..n-1) /\ Cardinality(0..n-1) = IF 0 > n - 1 THEN 0 ELSE n - 1 - 0 + 1
    BY <2>1, FS_Interval
  <2> QED BY <2>2
<1>2. IsFiniteSet(C) /\ Cardinality(C) = chunks
  <2>1. 0 \in Int /\ chunks - 1 \in Int
    OBVIOUS
  <2>2. IsFiniteSet(0..chunks-1) /\ Cardinality(0..chunks-1) = IF 0 > chunks - 1 THEN 0 ELSE chunks - 1 - 0 + 1
    BY <2>1, FS_Interval
  <2> QED BY <2>2
<1>3. IsFiniteSet(BOOLEAN) /\ Cardinality(BOOLEAN) = 2
  <2>1. IsFiniteSet({TRUE}) /\ Cardinality({TRUE}) = 1
    BY FS_Singleton
  <2>2. IsFiniteSet({TRUE} \cup {FALSE}) /\ Cardinality({TRUE} \cup {FALSE}) = 2
    <3> DEFINE One == {TRUE}
    <3>1. FALSE \notin One
      OBVIOUS
    <3>2. IsFiniteSet(One) /\ Cardinality(One) = 1
      BY <2>1
    <3> HIDE DEF One
    <3>3. IsFiniteSet(One \cup {FALSE}) /\ Cardinality(One \cup {FALSE}) = Cardinality(One) + 1
      BY <3>1, <3>2, FS_AddElement
    <3>4. Cardinality(One \cup {FALSE}) = 2
      BY <3>2, <3>3
    <3> QED BY <3>3, <3>4 DEF One
  <2>3. BOOLEAN = {TRUE} \cup {FALSE}
    BY Zenon
  <2> QED BY <2>2, <2>3, Zenon
<1> HIDE DEF M, C
<1>4. IsFiniteSet(X) /\ Cardinality(X) = (n * chunks) * 2
  <2>1. IsFiniteSet(M \X C) /\ Cardinality(M \X C) = n * chunks
    BY <1>1, <1>2, FS_Product
  <2> DEFINE B == BOOLEAN
             Y == M \X C
  <2>2. IsFiniteSet(B) /\ Cardinality(B) = 2 /\ IsFiniteSet(Y) /\ Cardinality(Y) = n * chunks
    BY <1>3, <2>1, Zenon
  <2> HIDE DEF B, Y
  <2>3. IsFiniteSet(Y \X B) /\ Cardinality(Y \X B) = Cardinality(Y) * Cardinality(B)
    BY <2>2, FS_Product
  <2>4. Cardinality(Y \X B) = (n * chunks) * 2
    BY <2>2, <2>3
  <2> QED BY <2>3, <2>4, Zenon DEF B, Y
<1>5. h \in [T -> X]
  BY DEF OneTaskEach, M, C
<1>6. ASSUME NEW t \in T, NEW u \in T, h[t] = h[u] PROVE t = u
  <2>1. t.mb = u.mb /\ t.chunk = u.chunk /\ t.forward = u.forward
    BY <1>6
  <2>2. t.mb \in 0..n-1 /\ t.chunk \in 0..chunks-1 /\ t.forward \in BOOLEAN
    BY DEF OneTaskEach
  <2>3. PICK mb \in 0..n-1, c \in 0..chunks-1, f \in BOOLEAN : t.mb = mb /\ t.chunk = c /\ t.forward = f
    BY <2>2, Zenon
  <2>4. IsTask(t, mb, c, f) /\ IsTask(u, mb, c, f)
    BY <2>1, <2>3, Zenon DEF IsTask
  <2>5. PICK v \in T : IsTask(v, mb, c, f) /\ \A w \in T : IsTask(w, mb, c, f) => w = v
    BY DEF OneTaskEach
  <2> QED BY <2>4, <2>5
<1>7. ASSUME NEW x \in X PROVE \E t \in T : h[t] = x
  <2>1. PICK mb \in M, c \in C, f \in BOOLEAN : x = <<<<mb, c>>, f>>
    OBVIOUS
  <2>2. PICK t \in T : IsTask(t, mb, c, f)
    BY DEF OneTaskEach, M, C
  <2>3. h[t] = <<<<t.mb, t.chunk>>, t.forward>>
    BY Zenon
  <2> QED BY <2>1, <2>2, <2>3, Zenon DEF IsTask
<1> HIDE DEF h, X
<1>8. h \in Injection(T, X) /\ h \in Surjection(T, X)
  BY <1>5, <1>6, <1>7 DEF Injection, IsInjective, Surjection
<1>9. IsFiniteSet(T) /\ Cardinality(T) = Cardinality(X)
  BY <1>4, <1>8, FS_Injection
<1>10. (n * chunks) * 2 = 2 * n * chunks
  OBVIOUS
<1> QED BY <1>4, <1>9, <1>10

(* A list of such tasks in an order that puts producers first is a         *)
(* schedule.                                                               *)
LEMMA ScheduleIs ==
    ASSUME NEW T, NEW n \in Nat, NEW chunks \in Nat, OneTaskEach(T, n, chunks), NEW P,
           \A t \in T : HasProducer(t) => \E p \in T : IsProducer(p, t, chunks) /\ <<p, t>> \in P,
           NEW s, Lists(s, T, P)
    PROVE  IsSchedule(s, n, chunks)
<1> DEFINE N == Cardinality(T)
<1>1. N = 2 * n * chunks /\ N \in Nat
  <2>1. IsFiniteSet(T)
    BY TasksCounted
  <2> QED BY <2>1, TasksCounted, FS_CardinalityType
<1>2. /\ s \in [1..N -> T]
      /\ \A x \in T : \E i \in 1..N : s[i] = x
      /\ \A i, j \in 1..N : s[i] = s[j] => i = j
      /\ \A i, j \in 1..N : <<s[i], s[j]>> \in P => i < j
  BY DEF Lists
<1> HIDE DEF N
<1>3. ASSUME NEW mb \in 0..(n - 1), NEW c \in 0..(chunks - 1), NEW f \in BOOLEAN
      PROVE  Cardinality({i \in DOMAIN s :
                 s[i].mb = mb /\ s[i].chunk = c /\ s[i].forward = f}) = 1
  <2>1. PICK t \in T : IsTask(t, mb, c, f) /\ \A u \in T : IsTask(u, mb, c, f) => u = t
    BY DEF OneTaskEach
  <2>2. PICK k \in 1..N : s[k] = t
    BY <1>2
  <2>3. ASSUME NEW i \in 1..N, IsTask(s[i], mb, c, f) PROVE i = k
    <3>1. s[i] = t
      BY <1>2, <2>1, <2>3
    <3> QED BY <1>2, <2>2, <3>1
  <2>4. {i \in DOMAIN s : IsTask(s[i], mb, c, f)} = {k}
    BY <1>2, <2>1, <2>2, <2>3
  <2>5. {i \in DOMAIN s : s[i].mb = mb /\ s[i].chunk = c /\ s[i].forward = f} = {k}
    BY <2>4 DEF IsTask
  <2> QED BY <2>5, FS_Singleton
<1>4. Len(s) = 2 * n * chunks
  BY <1>1, <1>2
<1>5. ASSUME NEW i \in DOMAIN s, HasProducer(s[i])
      PROVE  \E j \in 1..(i - 1) : IsProducer(s[j], s[i], chunks)
  <2>1. i \in 1..N /\ s[i] \in T
    BY <1>2
  <2>2. PICK p \in T : IsProducer(p, s[i], chunks) /\ <<p, s[i]>> \in P
    BY <1>5, <2>1
  <2>3. PICK j \in 1..N : s[j] = p
    BY <1>2
  <2>4. j \in 1..(i - 1)
    <3>1. j < i
      BY <1>2, <2>1, <2>2, <2>3
    <3> QED BY <1>1, <2>1, <3>1
  <2> QED BY <2>2, <2>3, <2>4
<1> QED BY <1>3, <1>4, <1>5 DEF IsSchedule

(* F[mb][c] and B[mb][c] are the tasks of T.                               *)
AreTasks(T, F, B, n, chunks) ==
    /\ F \in [0..n-1 -> [0..chunks-1 -> T]]
    /\ B \in [0..n-1 -> [0..chunks-1 -> T]]
    /\ \A mb \in 0..n-1 : \A c \in 0..chunks-1 :
           IsTask(F[mb][c], mb, c, TRUE) /\ IsTask(B[mb][c], mb, c, FALSE)
    /\ \A t \in T : \E mb \in 0..n-1 : \E c \in 0..chunks-1 : t = F[mb][c] \/ t = B[mb][c]

(* Each task comes after the one whose output it needs.                    *)
Chained(P, F, B, n, chunks) ==
    \A mb \in 0..n-1 : \A c \in 0..chunks-1 :
        /\ c > 0 => <<F[mb][c - 1], F[mb][c]>> \in P
        /\ c = chunks - 1 => <<F[mb][c], B[mb][c]>> \in P
        /\ c < chunks - 1 => <<B[mb][c + 1], B[mb][c]>> \in P

LEMMA TasksAreOneEach ==
    ASSUME NEW T, NEW n \in Nat, NEW chunks \in Nat, NEW F, NEW B, AreTasks(T, F, B, n, chunks)
    PROVE  OneTaskEach(T, n, chunks)
<1>1. ASSUME NEW t \in T PROVE t.mb \in 0..n-1 /\ t.chunk \in 0..chunks-1 /\ t.forward \in BOOLEAN
  <2>1. PICK mb \in 0..n-1, c \in 0..chunks-1 : t = F[mb][c] \/ t = B[mb][c]
    BY DEF AreTasks
  <2>2. IsTask(t, mb, c, TRUE) \/ IsTask(t, mb, c, FALSE)
    BY <2>1 DEF AreTasks
  <2> QED BY <2>2, Zenon DEF IsTask
<1>2. ASSUME NEW mb \in 0..n-1, NEW c \in 0..chunks-1
      PROVE  /\ \E t \in T : IsTask(t, mb, c, TRUE) /\ \A u \in T : IsTask(u, mb, c, TRUE) => u = t
             /\ \E t \in T : IsTask(t, mb, c, FALSE) /\ \A u \in T : IsTask(u, mb, c, FALSE) => u = t
  <2>1. F[mb][c] \in T /\ IsTask(F[mb][c], mb, c, TRUE) /\ B[mb][c] \in T /\ IsTask(B[mb][c], mb, c, FALSE)
    BY DEF AreTasks
  <2>2. ASSUME NEW u \in T, NEW k \in 0..n-1, NEW d \in 0..chunks-1, u = F[k][d],
               NEW f \in BOOLEAN, IsTask(u, mb, c, f)
        PROVE  f = TRUE /\ k = mb /\ d = c
    <3>1. IsTask(u, k, d, TRUE)
      BY <2>2 DEF AreTasks
    <3> QED BY <2>2, <3>1, Zenon DEF IsTask
  <2>3. ASSUME NEW u \in T, NEW k \in 0..n-1, NEW d \in 0..chunks-1, u = B[k][d],
               NEW f \in BOOLEAN, IsTask(u, mb, c, f)
        PROVE  f = FALSE /\ k = mb /\ d = c
    <3>1. IsTask(u, k, d, FALSE)
      BY <2>3 DEF AreTasks
    <3> QED BY <2>3, <3>1, Zenon DEF IsTask
  <2>4. ASSUME NEW u \in T, IsTask(u, mb, c, TRUE) PROVE u = F[mb][c]
    <3>1. PICK k \in 0..n-1, d \in 0..chunks-1 : u = F[k][d] \/ u = B[k][d]
      BY DEF AreTasks
    <3> QED BY <2>2, <2>3, <2>4, <3>1
  <2>5. ASSUME NEW u \in T, IsTask(u, mb, c, FALSE) PROVE u = B[mb][c]
    <3>1. PICK k \in 0..n-1, d \in 0..chunks-1 : u = F[k][d] \/ u = B[k][d]
      BY DEF AreTasks
    <3> QED BY <2>2, <2>3, <2>5, <3>1
  <2> QED BY <2>1, <2>4, <2>5
<1>3. ASSUME NEW mb \in 0..n-1, NEW c \in 0..chunks-1, NEW f \in BOOLEAN
      PROVE  \E t \in T : IsTask(t, mb, c, f) /\ \A u \in T : IsTask(u, mb, c, f) => u = t
  <2>1. CASE f = TRUE
    BY <1>2, <2>1
  <2>2. CASE f = FALSE
    BY <1>2, <2>2
  <2> QED BY <2>1, <2>2
<1> QED BY <1>1, <1>3 DEF OneTaskEach

LEMMA ProducersBefore ==
    ASSUME NEW T, NEW n \in Nat, NEW chunks \in Nat \ {0}, NEW F, NEW B, AreTasks(T, F, B, n, chunks),
           NEW P, Chained(P, F, B, n, chunks), NEW t \in T, HasProducer(t)
    PROVE  \E p \in T : IsProducer(p, t, chunks) /\ <<p, t>> \in P
<1>1. PICK mb \in 0..n-1, c \in 0..chunks-1 : t = F[mb][c] \/ t = B[mb][c]
  BY DEF AreTasks
<1>2. ASSUME NEW d \in 0..chunks-1
      PROVE  /\ F[mb][d] \in T /\ IsTask(F[mb][d], mb, d, TRUE)
             /\ B[mb][d] \in T /\ IsTask(B[mb][d], mb, d, FALSE)
  <2>1. F[mb] \in [0..chunks-1 -> T] /\ B[mb] \in [0..chunks-1 -> T]
    BY DEF AreTasks
  <2>2. IsTask(F[mb][d], mb, d, TRUE) /\ IsTask(B[mb][d], mb, d, FALSE)
    BY DEF AreTasks
  <2> QED BY <2>1, <2>2
<1>3. CASE t = F[mb][c]
  <2>1. t.mb = mb /\ t.chunk = c /\ t.forward
    BY <1>2, <1>3, Zenon DEF IsTask
  <2>2. c > 0
    BY <2>1 DEF HasProducer
  <2>3. PICK d \in 0..chunks-1 : d = c - 1
    BY <2>2
  <2>4. <<F[mb][d], t>> \in P
    BY <1>3, <2>2, <2>3 DEF Chained
  <2>5. F[mb][d].mb = mb /\ F[mb][d].chunk = t.chunk - 1 /\ F[mb][d].forward
    <3>1. F[mb][d].mb = mb /\ F[mb][d].chunk = d /\ F[mb][d].forward
      BY <1>2, Zenon DEF IsTask
    <3> QED BY <2>1, <2>3, <3>1
  <2>6. IsProducer(F[mb][d], t, chunks)
    BY <2>1, <2>5 DEF IsProducer
  <2> QED BY <1>2, <2>4, <2>6
<1>4. CASE t = B[mb][c] /\ c = chunks - 1
  <2>1. t.mb = mb /\ t.chunk = c /\ ~t.forward
    BY <1>2, <1>4, Zenon DEF IsTask
  <2>2. F[mb][c].mb = mb /\ F[mb][c].chunk = c /\ F[mb][c].forward
    BY <1>2, Zenon DEF IsTask
  <2>3. <<F[mb][c], t>> \in P
    BY <1>4 DEF Chained
  <2>4. IsProducer(F[mb][c], t, chunks)
    BY <1>4, <2>1, <2>2 DEF IsProducer
  <2> QED BY <1>2, <2>3, <2>4
<1>5. CASE t = B[mb][c] /\ c < chunks - 1
  <2>1. t.mb = mb /\ t.chunk = c /\ ~t.forward
    BY <1>2, <1>5, Zenon DEF IsTask
  <2>2. PICK d \in 0..chunks-1 : d = c + 1
    BY <1>5
  <2>3. <<B[mb][d], t>> \in P
    BY <1>5, <2>2 DEF Chained
  <2>4. B[mb][d].mb = mb /\ B[mb][d].chunk = d /\ ~B[mb][d].forward
    BY <1>2, Zenon DEF IsTask
  <2>5. IsProducer(B[mb][d], t, chunks)
    BY <1>5, <2>1, <2>2, <2>4 DEF IsProducer
  <2> QED BY <1>2, <2>3, <2>5
<1>6. c = chunks - 1 \/ c < chunks - 1
  OBVIOUS
<1> QED BY <1>1, <1>3, <1>4, <1>5, <1>6

(* The order of GenerateGPipeSchedule: by step, place on the stage and     *)
(* micro-batch.                                                            *)
GPipeOrder(T) == {p \in T \X T : Before(p[1], p[2]) \/ (~Before(p[2], p[1]) /\ p[1].mb < p[2].mb)}

(* And of GenerateInterleaved1F1BSchedule.                                 *)
InTurn(a, b) ==
    \/ a.step < b.step
    \/ a.step = b.step /\ a.mb < b.mb
    \/ a.step = b.step /\ a.mb = b.mb /\ a.forward /\ ~b.forward

InterleavedOrder(T) ==
    {p \in T \X T : \/ p[1].step < p[2].step
                    \/ p[1].step = p[2].step /\ p[1].mb < p[2].mb
                    \/ p[1].step = p[2].step /\ p[1].mb = p[2].mb /\ p[1].forward /\ ~p[2].forward}

IsTimed(t, step, mb, f) == t.step = step /\ t.mb = mb /\ t.forward = f /\ t.local \in Nat

LEMMA TaskFields ==
    ASSUME NEW step, NEW mb, NEW chunk \in Nat, NEW f, NEW stages \in Nat \ {0}
    PROVE  IsTimed(Task(step, mb, chunk, f, stages), step, mb, f)
<1>1. chunk \div stages \in Nat
  OBVIOUS
<1> QED BY <1>1, Zenon DEF IsTimed, Task, LocalOf

LEMMA GPipeOrdered ==
    ASSUME NEW T, \A t \in T : t.step \in Nat /\ t.local \in Nat /\ t.mb \in Nat,
           \A t, u \in T : t.step = u.step /\ t.mb = u.mb => t = u
    PROVE  StrictOrder(GPipeOrder(T), T)
<1> DEFINE P == GPipeOrder(T)
<1>1. ASSUME NEW x \in T, NEW y \in T
      PROVE  <<x, y>> \in P <=> \/ x.step < y.step
                                \/ x.step = y.step /\ x.local < y.local
                                \/ x.step = y.step /\ x.local = y.local /\ x.mb < y.mb
  BY DEF GPipeOrder, Before
<1> HIDE DEF P
<1>2. ASSUME NEW x \in T PROVE <<x, x>> \notin P
  BY <1>1
<1>3. ASSUME NEW x \in T, NEW y \in T, NEW z \in T, <<x, y>> \in P, <<y, z>> \in P PROVE <<x, z>> \in P
  BY <1>1, <1>3
<1>4. ASSUME NEW x \in T, NEW y \in T, x # y PROVE <<x, y>> \in P \/ <<y, x>> \in P
  BY <1>1, <1>4
<1> QED BY <1>2, <1>3, <1>4 DEF StrictOrder, P

LEMMA InterleavedOrdered ==
    ASSUME NEW T, \A t \in T : t.step \in Nat /\ t.mb \in Nat /\ t.forward \in BOOLEAN,
           \A t, u \in T : t.step = u.step /\ t.mb = u.mb /\ t.forward = u.forward => t = u
    PROVE  StrictOrder(InterleavedOrder(T), T)
<1> DEFINE P == InterleavedOrder(T)
<1>1. ASSUME NEW x \in T, NEW y \in T
      PROVE  <<x, y>> \in P <=> \/ x.step < y.step
                                \/ x.step = y.step /\ x.mb < y.mb
                                \/ x.step = y.step /\ x.mb = y.mb /\ x.forward /\ ~y.forward
  BY DEF InterleavedOrder
<1> HIDE DEF P
<1>2. ASSUME NEW x \in T PROVE <<x, x>> \notin P
  BY <1>1
<1>3. ASSUME NEW x \in T, NEW y \in T, NEW z \in T, <<x, y>> \in P, <<y, z>> \in P PROVE <<x, z>> \in P
  BY <1>1, <1>3
<1>4. ASSUME NEW x \in T, NEW y \in T, x # y PROVE <<x, y>> \in P \/ <<y, x>> \in P
  BY <1>1, <1>4
<1> QED BY <1>2, <1>3, <1>4 DEF StrictOrder, P

-----------------------------------------------------------------------------
(* GPipe: the forward of a chunk runs as many steps after the start as the *)
(* micro-batch and the chunk count together, its backward as many before   *)
(* the end.                                                                *)
GPipeTimed(F, B, n, K, stages) ==
    \A mb \in 0..n-1 : \A c \in 0..K-1 :
        /\ F[mb][c] = Task(mb + c, mb, c, TRUE, stages)
        /\ B[mb][c] = Task(2 * (n + K - 1) - 1 - mb - c, mb, c, FALSE, stages)

LEMMA GPipeTasksAre ==
    ASSUME NEW n \in Nat \ {0}, NEW stages \in Nat \ {0}, NEW vpp \in Nat \ {0},
           NEW K \in Nat, K = stages * vpp, K > 0,
           NEW T, T = GPipeTasks(n, stages, vpp),
           NEW F, F = [mb \in 0..n-1 |-> [c \in 0..K-1 |-> Task(mb + c, mb, c, TRUE, stages)]],
           NEW B, B = [mb \in 0..n-1 |-> [c \in 0..K-1 |->
                          Task(2 * (n + K - 1) - 1 - mb - c, mb, c, FALSE, stages)]]
    PROVE  AreTasks(T, F, B, n, K) /\ GPipeTimed(F, B, n, K, stages)
<1> DEFINE total == n + K - 1
           W == (0..(total - 1)) \X (0..(n - 1))
           Forwards == {Task(w[1], w[2], w[1] - w[2], TRUE, stages) :
                           w \in {v \in W : v[1] - v[2] \in 0..(K - 1)}}
           Backwards == {Task(w[1] + total, w[2], BackwardChunk(total, w[1], w[2]), FALSE, stages) :
                           w \in {v \in W : BackwardChunk(total, v[1], v[2]) \in 0..(K - 1)}}
<1>1. T = Forwards \cup Backwards
  BY Zenon DEF GPipeTasks
<1>2. total \in Nat
  OBVIOUS
<1>3. ASSUME NEW mb \in 0..n-1, NEW c \in 0..K-1
      PROVE  /\ F[mb][c] \in Forwards /\ B[mb][c] \in Backwards
             /\ IsTask(F[mb][c], mb, c, TRUE) /\ IsTask(B[mb][c], mb, c, FALSE)
  <2>1. F[mb][c] = Task(mb + c, mb, c, TRUE, stages)
    OBVIOUS
  <2>2. B[mb][c] = Task(2 * (n + K - 1) - 1 - mb - c, mb, c, FALSE, stages)
    OBVIOUS
  <2>3. PICK w \in W : w[1] = mb + c /\ w[2] = mb /\ w[1] - w[2] = c
    <3>1. <<mb + c, mb>> \in W /\ (mb + c) - mb = c
      OBVIOUS
    <3> QED BY <3>1
  <2>4. F[mb][c] \in Forwards
    BY <2>1, <2>3
  <2>5. PICK x \in W : /\ x[1] + total = 2 * (n + K - 1) - 1 - mb - c /\ x[2] = mb
                       /\ BackwardChunk(total, x[1], x[2]) = c
    <3>1. PICK k \in 0..(total - 1) : k = total - 1 - mb - c
      OBVIOUS
    <3>2. <<k, mb>> \in W /\ (total - 1 - k) - mb = c /\ k + total = 2 * (n + K - 1) - 1 - mb - c
      BY <3>1
    <3> QED BY <3>2 DEF BackwardChunk
  <2>6. B[mb][c] \in Backwards
    BY <2>2, <2>5
  <2>7. IsTask(F[mb][c], mb, c, TRUE) /\ IsTask(B[mb][c], mb, c, FALSE)
    BY <2>1, <2>2, Zenon DEF IsTask, Task
  <2> QED BY <2>4, <2>6, <2>7
<1>4. ASSUME NEW t \in T
      PROVE  \E mb \in 0..n-1 : \E c \in 0..K-1 : t = F[mb][c] \/ t = B[mb][c]
  <2>1. CASE t \in Forwards
    <3>1. PICK w \in W : w[1] - w[2] \in 0..(K - 1) /\ t = Task(w[1], w[2], w[1] - w[2], TRUE, stages)
      BY <2>1
    <3>2. PICK mb \in 0..n-1, c \in 0..K-1 : w[2] = mb /\ w[1] - w[2] = c
      BY <3>1
    <3>3. w[1] = mb + c
      <4>1. w[1] \in 0..(total - 1)
        BY <3>1
      <4> HIDE DEF W, total
      <4>2. w[1] \in Int
        BY <1>2, <4>1
      <4> QED BY <3>2, <4>2
    <3>4. t = Task(mb + c, mb, c, TRUE, stages)
      BY <3>1, <3>2, <3>3
    <3>5. t = F[mb][c]
      BY <3>4
    <3> QED BY <3>5
  <2>2. CASE t \in Backwards
    <3>1. PICK w \in W : /\ BackwardChunk(total, w[1], w[2]) \in 0..(K - 1)
                         /\ t = Task(w[1] + total, w[2], BackwardChunk(total, w[1], w[2]), FALSE, stages)
      BY <2>2
    <3>2. PICK mb \in 0..n-1, c \in 0..K-1 : w[2] = mb /\ BackwardChunk(total, w[1], w[2]) = c
      BY <3>1
    <3>3. w[1] + total = 2 * (n + K - 1) - 1 - mb - c
      <4>1. w[1] \in 0..(total - 1)
        BY <3>1
      <4>2. (total - 1 - w[1]) - mb = c
        BY <3>2 DEF BackwardChunk
      <4>3. PICK v \in Int : v = w[1] /\ (total - 1 - v) - mb = c
        BY <4>1, <4>2
      <4>4. total \in Int /\ mb \in Int /\ c \in Int
        OBVIOUS
      <4>5. v + total = 2 * total - 1 - mb - c
        <5> HIDE DEF W, total
        <5> QED BY <4>3, <4>4, SMTT(20)
      <4> QED BY <4>3, <4>5, Zenon
    <3>4. t = Task(2 * (n + K - 1) - 1 - mb - c, mb, c, FALSE, stages)
      BY <3>1, <3>2, <3>3
    <3>5. t = B[mb][c]
      BY <3>4
    <3> QED BY <3>5
  <2> QED BY <1>1, <2>1, <2>2
<1>5. F \in [0..n-1 -> [0..K-1 -> T]] /\ B \in [0..n-1 -> [0..K-1 -> T]]
  <2>1. \A mb \in 0..n-1 : \A c \in 0..K-1 : F[mb][c] \in T /\ B[mb][c] \in T
    BY <1>1, <1>3
  <2> QED BY <2>1
<1>6. GPipeTimed(F, B, n, K, stages)
  BY DEF GPipeTimed
<1> QED BY <1>3, <1>4, <1>5, <1>6 DEF AreTasks

(* Two tasks of a step differ in their micro-batch, and each is steps      *)
(* after the one it needs.                                                 *)
LEMMA GPipeIsOrdered ==
    ASSUME NEW n \in Nat \ {0}, NEW stages \in Nat \ {0}, NEW K \in Nat \ {0}, NEW T,
           NEW F, NEW B, AreTasks(T, F, B, n, K), GPipeTimed(F, B, n, K, stages)
    PROVE  StrictOrder(GPipeOrder(T), T) /\ Chained(GPipeOrder(T), F, B, n, K)
<1>1. ASSUME NEW mb \in 0..n-1, NEW c \in 0..K-1
      PROVE  /\ F[mb][c].step = mb + c /\ F[mb][c].mb = mb /\ F[mb][c].local \in Nat
             /\ F[mb][c] \in T
  <2>1. F[mb][c] = Task(mb + c, mb, c, TRUE, stages)
    BY DEF GPipeTimed
  <2>2. mb + c \in Nat /\ mb \in Nat /\ c \in Nat
    OBVIOUS
  <2>3. F[mb] \in [0..K-1 -> T]
    BY DEF AreTasks
  <2>4. F[mb][c] \in T
    BY <2>3
  <2>5. IsTimed(F[mb][c], mb + c, mb, TRUE)
    BY <2>1, <2>2, TaskFields, Zenon
  <2> QED BY <2>4, <2>5, Zenon DEF IsTimed
<1>2. ASSUME NEW mb \in 0..n-1, NEW c \in 0..K-1
      PROVE  /\ B[mb][c].step = 2 * (n + K - 1) - 1 - mb - c /\ B[mb][c].mb = mb
             /\ B[mb][c].local \in Nat /\ B[mb][c] \in T
  <2>1. B[mb][c] = Task(2 * (n + K - 1) - 1 - mb - c, mb, c, FALSE, stages)
    BY DEF GPipeTimed
  <2>2. 2 * (n + K - 1) - 1 - mb - c \in Nat /\ mb \in Nat /\ c \in Nat
    OBVIOUS
  <2>3. B[mb] \in [0..K-1 -> T]
    BY DEF AreTasks
  <2>4. B[mb][c] \in T
    BY <2>3
  <2>5. IsTimed(B[mb][c], 2 * (n + K - 1) - 1 - mb - c, mb, FALSE)
    BY <2>1, <2>2, TaskFields, Zenon
  <2> QED BY <2>4, <2>5, Zenon DEF IsTimed
<1>3. \A t \in T : \E mb \in 0..n-1 : \E c \in 0..K-1 : t = F[mb][c] \/ t = B[mb][c]
  BY DEF AreTasks
<1>4. ASSUME NEW t \in T PROVE t.step \in Nat /\ t.local \in Nat /\ t.mb \in Nat
  <2>1. PICK mb \in 0..n-1, c \in 0..K-1 : t = F[mb][c] \/ t = B[mb][c]
    BY <1>3
  <2>2. CASE t = F[mb][c]
    BY <1>1, <2>2
  <2>3. CASE t = B[mb][c]
    BY <1>2, <2>3
  <2> QED BY <2>1, <2>2, <2>3
<1>5. ASSUME NEW t \in T, NEW u \in T, t.step = u.step, t.mb = u.mb PROVE t = u
  <2>1. PICK mb \in 0..n-1, c \in 0..K-1 : t = F[mb][c] \/ t = B[mb][c]
    BY <1>3
  <2>2. PICK k \in 0..n-1, d \in 0..K-1 : u = F[k][d] \/ u = B[k][d]
    BY <1>3
  <2>3. t.mb = mb /\ (t = F[mb][c] => t.step = mb + c)
        /\ (t = B[mb][c] => t.step = 2 * (n + K - 1) - 1 - mb - c)
    BY <1>1, <1>2, <2>1
  <2>4. u.mb = k /\ (u = F[k][d] => u.step = k + d)
        /\ (u = B[k][d] => u.step = 2 * (n + K - 1) - 1 - k - d)
    BY <1>1, <1>2, <2>2
  <2>5. k = mb
    BY <1>5, <2>3, <2>4
  <2>6. CASE t = F[mb][c] /\ u = F[k][d]
    <3>1. mb + c = mb + d
      BY <1>5, <2>3, <2>4, <2>5, <2>6
    <3>2. c = d
      BY <3>1
    <3> QED BY <2>5, <2>6, <3>2
  <2>7. CASE t = B[mb][c] /\ u = B[k][d]
    <3>1. 2 * (n + K - 1) - 1 - mb - c = 2 * (n + K - 1) - 1 - mb - d
      BY <1>5, <2>3, <2>4, <2>5, <2>7
    <3>2. c = d
      BY <3>1
    <3> QED BY <2>5, <2>7, <3>2
  <2>8. CASE t = F[mb][c] /\ u = B[k][d]
    <3>1. mb + c = 2 * (n + K - 1) - 1 - mb - d
      BY <1>5, <2>3, <2>4, <2>5, <2>8
    <3> QED BY <3>1
  <2>9. CASE t = B[mb][c] /\ u = F[k][d]
    <3>1. mb + d = 2 * (n + K - 1) - 1 - mb - c
      BY <1>5, <2>3, <2>4, <2>5, <2>9
    <3> QED BY <3>1
  <2> QED BY <2>1, <2>2, <2>6, <2>7, <2>8, <2>9
<1>6. StrictOrder(GPipeOrder(T), T)
  BY <1>4, <1>5, GPipeOrdered
<1>7. ASSUME NEW t \in T, NEW u \in T, t.step < u.step PROVE <<t, u>> \in GPipeOrder(T)
  BY <1>7 DEF GPipeOrder, Before
<1>8. ASSUME NEW mb \in 0..n-1, NEW c \in 0..K-1
      PROVE  /\ c > 0 => <<F[mb][c - 1], F[mb][c]>> \in GPipeOrder(T)
             /\ c = K - 1 => <<F[mb][c], B[mb][c]>> \in GPipeOrder(T)
             /\ c < K - 1 => <<B[mb][c + 1], B[mb][c]>> \in GPipeOrder(T)
  <2>1. ASSUME c > 0 PROVE <<F[mb][c - 1], F[mb][c]>> \in GPipeOrder(T)
    <3>1. PICK d \in 0..K-1 : d = c - 1
      BY <2>1
    <3>2. F[mb][d].step < F[mb][c].step
      BY <1>1, <3>1
    <3> QED BY <1>1, <1>7, <3>1, <3>2
  <2>2. <<F[mb][c], B[mb][c]>> \in GPipeOrder(T)
    <3>1. F[mb][c].step < B[mb][c].step
      BY <1>1, <1>2
    <3> QED BY <1>1, <1>2, <1>7, <3>1
  <2>3. ASSUME c < K - 1 PROVE <<B[mb][c + 1], B[mb][c]>> \in GPipeOrder(T)
    <3>1. PICK d \in 0..K-1 : d = c + 1
      BY <2>3
    <3>2. B[mb][d].step < B[mb][c].step
      BY <1>2, <3>1
    <3> QED BY <1>2, <1>7, <3>1, <3>2
  <2> QED BY <2>1, <2>2, <2>3
<1> QED BY <1>6, <1>8 DEF Chained

LEMMA ChunksAre ==
    ASSUME NEW stages \in Nat \ {0}, NEW vpp \in Nat \ {0}
    PROVE  \E K \in Nat \ {0} : K = stages * vpp
<1>1. stages * vpp >= stages
  OBVIOUS
<1> QED BY <1>1

LEMMA GPipeScheduleIs ==
    ASSUME NEW n \in Nat \ {0}, NEW stages \in Nat \ {0}, NEW vpp \in Nat \ {0}
    PROVE  IsSchedule(GPipeSchedule(n, stages, vpp), n, stages * vpp)
<1>1. PICK K \in Nat \ {0} : K = stages * vpp
  BY ChunksAre
<1> DEFINE T == GPipeTasks(n, stages, vpp)
           P == GPipeOrder(T)
           F == [mb \in 0..n-1 |-> [c \in 0..K-1 |-> Task(mb + c, mb, c, TRUE, stages)]]
           B == [mb \in 0..n-1 |-> [c \in 0..K-1 |->
                    Task(2 * (n + K - 1) - 1 - mb - c, mb, c, FALSE, stages)]]
           s == GPipeSchedule(n, stages, vpp)
<1>2. AreTasks(T, F, B, n, K) /\ GPipeTimed(F, B, n, K, stages)
  <2> HIDE DEF T, F, B
  <2>1. K \in Nat /\ K > 0
    OBVIOUS
  <2> QED BY <1>1, <2>1, GPipeTasksAre, Zenon DEF T, F, B
<1>3. s = [i \in 1..Cardinality(T) |->
              CHOOSE x \in T : Cardinality({y \in T : Before(y, x) \/ (~Before(x, y) /\ y.mb < x.mb)}) = i - 1]
  BY Zenon DEF GPipeSchedule, InOrder
<1> HIDE DEF F, B, T, s
<1>4. StrictOrder(P, T) /\ Chained(P, F, B, n, K)
  BY <1>2, GPipeIsOrdered
<1>5. OneTaskEach(T, n, K)
  BY <1>2, TasksAreOneEach
<1>6. IsFiniteSet(T)
  BY <1>5, TasksCounted
<1>7. Lists(s, T, P)
  <2>1. \A x \in T : {y \in T : Before(y, x) \/ (~Before(x, y) /\ y.mb < x.mb)} = {y \in T : <<y, x>> \in P}
    BY DEF GPipeOrder
  <2> HIDE DEF P
  <2>2. ASSUME NEW i \in 1..Cardinality(T)
        PROVE  s[i] \in T /\ Cardinality(Earlier(P, T, s[i])) = i - 1
    <3> DEFINE Q(x) == Cardinality({y \in T : Before(y, x) \/ (~Before(x, y) /\ y.mb < x.mb)}) = i - 1
    <3>1. \E x \in T : Cardinality(Earlier(P, T, x)) = i - 1
      BY <1>4, <1>6, EveryPlaceTaken
    <3>2. \A x \in T : Q(x) <=> Cardinality(Earlier(P, T, x)) = i - 1
      BY <2>1 DEF Earlier
    <3>3. s[i] = CHOOSE x \in T : Q(x)
      BY <1>3
    <3>4. s[i] \in T /\ Q(s[i])
      <4> HIDE DEF Q
      <4> QED BY <3>1, <3>2, <3>3
    <3> QED BY <3>2, <3>4
  <2>3. s \in [1..Cardinality(T) -> T]
    BY <1>3, <2>2
  <2> QED BY <1>4, <1>6, <2>2, <2>3, ListedInOrder
<1>8. \A t \in T : HasProducer(t) => \E p \in T : IsProducer(p, t, K) /\ <<p, t>> \in P
  <2> HIDE DEF P
  <2> QED BY <1>2, <1>4, ProducersBefore
<1>9. IsSchedule(s, n, K)
  <2> HIDE DEF P
  <2> QED BY <1>5, <1>7, <1>8, ScheduleIs
<1> QED BY <1>1, <1>9, Zenon DEF s

-----------------------------------------------------------------------------
(* 1F1B: the forwards run as in GPipe, the backward of a chunk as many     *)
(* steps after the forward as twice the chunks that follow it.             *)
InterleavedTimed(F, B, n, K, stages) ==
    \A mb \in 0..n-1 : \A c \in 0..K-1 :
        /\ F[mb][c] = Task(mb + c, mb, c, TRUE, stages)
        /\ B[mb][c] = Task(2 * (K - 1) + mb - c, mb, c, FALSE, stages)

LEMMA BackwardStep ==
    ASSUME NEW K \in Int, NEW v \in Int, NEW mb \in Int, NEW c \in Int,
           (K - 1) - (v - (K - 1) - mb) = c
    PROVE  v = 2 * (K - 1) + mb - c
OBVIOUS

LEMMA InterleavedTasksAre ==
    ASSUME NEW n \in Nat \ {0}, NEW stages \in Nat \ {0}, NEW vpp \in Nat \ {0},
           NEW K \in Nat, K = stages * vpp, K > 0,
           NEW T, T = OneForwardOneBackwardTasks(n, stages, vpp),
           NEW F, F = [mb \in 0..n-1 |-> [c \in 0..K-1 |-> Task(mb + c, mb, c, TRUE, stages)]],
           NEW B, B = [mb \in 0..n-1 |-> [c \in 0..K-1 |->
                          Task(2 * (K - 1) + mb - c, mb, c, FALSE, stages)]]
    PROVE  AreTasks(T, F, B, n, K) /\ InterleavedTimed(F, B, n, K, stages)
<1> DEFINE warmup == K - 1
           W == (0..(2 * warmup + n - 1)) \X (0..(n - 1))
           back(v) == (K - 1) - (v[1] - warmup - v[2])
           Forwards == {Task(w[1], w[2], w[1] - w[2], TRUE, stages) :
                           w \in {v \in W : v[1] < warmup + n /\ v[1] - v[2] \in 0..(K - 1)}}
           Backwards == {Task(w[1], w[2], back(w), FALSE, stages) :
                           w \in {v \in W : v[1] >= warmup /\ back(v) \in 0..(K - 1)}}
<1>1. T = Forwards \cup Backwards
  BY Zenon DEF OneForwardOneBackwardTasks
<1>2. 2 * warmup + n - 1 \in Nat
  OBVIOUS
<1>3. ASSUME NEW mb \in 0..n-1, NEW c \in 0..K-1
      PROVE  /\ F[mb][c] \in Forwards /\ B[mb][c] \in Backwards
             /\ IsTask(F[mb][c], mb, c, TRUE) /\ IsTask(B[mb][c], mb, c, FALSE)
  <2>1. F[mb][c] = Task(mb + c, mb, c, TRUE, stages)
    OBVIOUS
  <2>2. B[mb][c] = Task(2 * (K - 1) + mb - c, mb, c, FALSE, stages)
    OBVIOUS
  <2>3. PICK w \in W : w[1] = mb + c /\ w[2] = mb /\ w[1] < warmup + n /\ w[1] - w[2] = c
    <3>1. <<mb + c, mb>> \in W /\ mb + c < warmup + n /\ (mb + c) - mb = c
      OBVIOUS
    <3> QED BY <3>1
  <2>4. F[mb][c] \in Forwards
    BY <2>1, <2>3
  <2>5. PICK x \in W : x[1] = 2 * (K - 1) + mb - c /\ x[2] = mb /\ x[1] >= warmup /\ back(x) = c
    <3>1. PICK k \in 0..(2 * warmup + n - 1) : k = 2 * (K - 1) + mb - c
      OBVIOUS
    <3>2. <<k, mb>> \in W /\ k >= warmup /\ (K - 1) - (k - warmup - mb) = c
      BY <3>1
    <3> QED BY <3>1, <3>2
  <2>6. B[mb][c] \in Backwards
    BY <2>2, <2>5
  <2>7. IsTask(F[mb][c], mb, c, TRUE) /\ IsTask(B[mb][c], mb, c, FALSE)
    BY <2>1, <2>2, Zenon DEF IsTask, Task
  <2> QED BY <2>4, <2>6, <2>7
<1>4. ASSUME NEW t \in T
      PROVE  \E mb \in 0..n-1 : \E c \in 0..K-1 : t = F[mb][c] \/ t = B[mb][c]
  <2>1. CASE t \in Forwards
    <3>1. PICK w \in W : w[1] - w[2] \in 0..(K - 1) /\ t = Task(w[1], w[2], w[1] - w[2], TRUE, stages)
      BY <2>1
    <3>2. PICK mb \in 0..n-1, c \in 0..K-1 : w[2] = mb /\ w[1] - w[2] = c
      BY <3>1
    <3>3. w[1] = mb + c
      <4>1. w[1] \in 0..(2 * warmup + n - 1)
        BY <3>1
      <4> DEFINE Z == 2 * warmup + n - 1
      <4>2. w[1] \in 0..Z /\ Z \in Nat
        BY <1>2, <4>1
      <4> HIDE DEF W, Z
      <4>3. w[1] \in Int
        BY <4>2
      <4> QED BY <3>2, <4>3
    <3>4. t = Task(mb + c, mb, c, TRUE, stages)
      BY <3>1, <3>2, <3>3
    <3>5. t = F[mb][c]
      BY <3>4
    <3> QED BY <3>5
  <2>2. CASE t \in Backwards
    <3>1. PICK w \in W : back(w) \in 0..(K - 1) /\ t = Task(w[1], w[2], back(w), FALSE, stages)
      BY <2>2
    <3>2. PICK mb \in 0..n-1, c \in 0..K-1 : w[2] = mb /\ back(w) = c
      BY <3>1
    <3>3. w[1] = 2 * (K - 1) + mb - c
      <4>1. w[1] \in 0..(2 * warmup + n - 1) /\ (K - 1) - (w[1] - warmup - mb) = c
        BY <3>1, <3>2
      <4>2. PICK v \in Int : v = w[1] /\ (K - 1) - (v - warmup - mb) = c
        BY <4>1, SMTT(20)
      <4>3. (K - 1) - (v - (K - 1) - mb) = c /\ K \in Int /\ mb \in Int /\ c \in Int
        BY <4>2
      <4>4. v = 2 * (K - 1) + mb - c
        BY <4>3, BackwardStep
      <4> QED BY <4>2, <4>4, Zenon
    <3>4. t = Task(2 * (K - 1) + mb - c, mb, c, FALSE, stages)
      BY <3>1, <3>2, <3>3
    <3>5. t = B[mb][c]
      BY <3>4
    <3> QED BY <3>5
  <2> QED BY <1>1, <2>1, <2>2
<1>5. F \in [0..n-1 -> [0..K-1 -> T]] /\ B \in [0..n-1 -> [0..K-1 -> T]]
  <2>1. \A mb \in 0..n-1 : \A c \in 0..K-1 : F[mb][c] \in T /\ B[mb][c] \in T
    BY <1>1, <1>3
  <2> QED BY <2>1
<1>6. InterleavedTimed(F, B, n, K, stages)
  BY DEF InterleavedTimed
<1> QED BY <1>3, <1>4, <1>5, <1>6 DEF AreTasks

(* The backward of the last chunk runs in the step of its forward; every   *)
(* other task runs in a later step than the one it needs.                  *)
LEMMA InterleavedIsOrdered ==
    ASSUME NEW n \in Nat \ {0}, NEW stages \in Nat \ {0}, NEW K \in Nat \ {0}, NEW T,
           NEW F, NEW B, AreTasks(T, F, B, n, K), InterleavedTimed(F, B, n, K, stages)
    PROVE  StrictOrder(InterleavedOrder(T), T) /\ Chained(InterleavedOrder(T), F, B, n, K)
<1>1. ASSUME NEW mb \in 0..n-1, NEW c \in 0..K-1
      PROVE  /\ F[mb][c].step = mb + c /\ F[mb][c].mb = mb
             /\ F[mb][c] \in T
  <2>1. F[mb][c] = Task(mb + c, mb, c, TRUE, stages)
    BY DEF InterleavedTimed
  <2>2. mb + c \in Nat /\ mb \in Nat /\ c \in Nat
    OBVIOUS
  <2>3. F[mb] \in [0..K-1 -> T]
    BY DEF AreTasks
  <2>4. F[mb][c] \in T
    BY <2>3
  <2>5. IsTimed(F[mb][c], mb + c, mb, TRUE)
    BY <2>1, <2>2, TaskFields, Zenon
  <2> QED BY <2>4, <2>5, Zenon DEF IsTimed
<1>2. ASSUME NEW mb \in 0..n-1, NEW c \in 0..K-1
      PROVE  /\ B[mb][c].step = 2 * (K - 1) + mb - c /\ B[mb][c].mb = mb
             /\ B[mb][c] \in T
  <2>1. B[mb][c] = Task(2 * (K - 1) + mb - c, mb, c, FALSE, stages)
    BY DEF InterleavedTimed
  <2>2. 2 * (K - 1) + mb - c \in Nat /\ mb \in Nat /\ c \in Nat
    OBVIOUS
  <2>3. B[mb] \in [0..K-1 -> T]
    BY DEF AreTasks
  <2>4. B[mb][c] \in T
    BY <2>3
  <2>5. IsTimed(B[mb][c], 2 * (K - 1) + mb - c, mb, FALSE)
    BY <2>1, <2>2, TaskFields, Zenon
  <2> QED BY <2>4, <2>5, Zenon DEF IsTimed
<1>3. \A t \in T : \E mb \in 0..n-1 : \E c \in 0..K-1 : t = F[mb][c] \/ t = B[mb][c]
  BY DEF AreTasks
<1>9. ASSUME NEW mb \in 0..n-1, NEW c \in 0..K-1
      PROVE  F[mb][c].forward = TRUE /\ B[mb][c].forward = FALSE
  <2>1. IsTask(F[mb][c], mb, c, TRUE) /\ IsTask(B[mb][c], mb, c, FALSE)
    BY DEF AreTasks
  <2> QED BY <2>1, Zenon DEF IsTask
<1>4. ASSUME NEW t \in T PROVE t.step \in Nat /\ t.mb \in Nat /\ t.forward \in BOOLEAN
  <2>1. PICK mb \in 0..n-1, c \in 0..K-1 : t = F[mb][c] \/ t = B[mb][c]
    BY <1>3
  <2>2. t.step \in Nat /\ t.mb \in Nat
    <3>1. CASE t = F[mb][c]
      BY <1>1, <3>1
    <3>2. CASE t = B[mb][c]
      BY <1>2, <3>2
    <3> QED BY <2>1, <3>1, <3>2
  <2>3. t.forward = TRUE \/ t.forward = FALSE
    <3>1. F[mb][c].forward = TRUE /\ B[mb][c].forward = FALSE
      BY <1>9, Zenon
    <3> QED BY <2>1, <3>1, Zenon
  <2> QED BY <2>2, <2>3
<1>5. ASSUME NEW t \in T, NEW u \in T, t.step = u.step, t.mb = u.mb, t.forward = u.forward PROVE t = u
  <2>1. PICK mb \in 0..n-1, c \in 0..K-1 : t = F[mb][c] \/ t = B[mb][c]
    BY <1>3
  <2>2. PICK k \in 0..n-1, d \in 0..K-1 : u = F[k][d] \/ u = B[k][d]
    BY <1>3
  <2>3. t.mb = mb /\ (t = F[mb][c] => t.step = mb + c)
        /\ (t = B[mb][c] => t.step = 2 * (K - 1) + mb - c)
    BY <1>1, <1>2, <2>1
  <2>4. u.mb = k /\ (u = F[k][d] => u.step = k + d)
        /\ (u = B[k][d] => u.step = 2 * (K - 1) + k - d)
    BY <1>1, <1>2, <2>2
  <2>5. k = mb
    BY <1>5, <2>3, <2>4
  <2>6. CASE t = F[mb][c] /\ u = F[k][d]
    <3>1. mb + c = mb + d
      BY <1>5, <2>3, <2>4, <2>5, <2>6
    <3>2. c = d
      BY <3>1
    <3> QED BY <2>5, <2>6, <3>2
  <2>7. CASE t = B[mb][c] /\ u = B[k][d]
    <3>1. 2 * (K - 1) + mb - c = 2 * (K - 1) + mb - d
      BY <1>5, <2>3, <2>4, <2>5, <2>7
    <3>2. c = d
      BY <3>1
    <3> QED BY <2>5, <2>7, <3>2
  <2>8. ~(t = F[mb][c] /\ u = B[k][d]) /\ ~(t = B[mb][c] /\ u = F[k][d])
    <3>1. F[mb][c].forward /\ ~B[mb][c].forward
      BY <1>9, Zenon
    <3>2. F[k][d].forward /\ ~B[k][d].forward
      BY <1>9, Zenon
    <3> QED BY <1>5, <3>1, <3>2, Zenon
  <2> QED BY <2>1, <2>2, <2>6, <2>7, <2>8
<1>6. StrictOrder(InterleavedOrder(T), T)
  BY <1>4, <1>5, InterleavedOrdered
<1>7. ASSUME NEW t \in T, NEW u \in T, t.step < u.step PROVE <<t, u>> \in InterleavedOrder(T)
  BY <1>7 DEF InterleavedOrder
<1>8. ASSUME NEW mb \in 0..n-1, NEW c \in 0..K-1
      PROVE  /\ c > 0 => <<F[mb][c - 1], F[mb][c]>> \in InterleavedOrder(T)
             /\ c = K - 1 => <<F[mb][c], B[mb][c]>> \in InterleavedOrder(T)
             /\ c < K - 1 => <<B[mb][c + 1], B[mb][c]>> \in InterleavedOrder(T)
  <2>1. ASSUME c > 0 PROVE <<F[mb][c - 1], F[mb][c]>> \in InterleavedOrder(T)
    <3>1. PICK d \in 0..K-1 : d = c - 1
      BY <2>1
    <3>2. F[mb][d].step < F[mb][c].step
      BY <1>1, <3>1
    <3> QED BY <1>1, <1>7, <3>1, <3>2
  <2>2. ASSUME c = K - 1 PROVE <<F[mb][c], B[mb][c]>> \in InterleavedOrder(T)
    <3>1. F[mb][c].step = B[mb][c].step /\ F[mb][c].mb = B[mb][c].mb
      BY <1>1, <1>2, <2>2
    <3>2. F[mb][c].forward /\ ~B[mb][c].forward
      BY <1>9, Zenon
    <3>3. F[mb][c] \in T /\ B[mb][c] \in T
      BY <1>1, <1>2
    <3> QED BY <3>1, <3>2, <3>3 DEF InterleavedOrder
  <2>3. ASSUME c < K - 1 PROVE <<B[mb][c + 1], B[mb][c]>> \in InterleavedOrder(T)
    <3>1. PICK d \in 0..K-1 : d = c + 1
      BY <2>3
    <3>2. B[mb][d].step < B[mb][c].step
      BY <1>2, <3>1
    <3> QED BY <1>2, <1>7, <3>1, <3>2
  <2> QED BY <2>1, <2>2, <2>3
<1> QED BY <1>6, <1>8 DEF Chained

LEMMA OneForwardOneBackwardScheduleIs ==
    ASSUME NEW n \in Nat \ {0}, NEW stages \in Nat \ {0}, NEW vpp \in Nat \ {0}
    PROVE  IsSchedule(OneForwardOneBackwardSchedule(n, stages, vpp), n, stages * vpp)
<1>1. PICK K \in Nat \ {0} : K = stages * vpp
  BY ChunksAre
<1> DEFINE T == OneForwardOneBackwardTasks(n, stages, vpp)
           P == InterleavedOrder(T)
           F == [mb \in 0..n-1 |-> [c \in 0..K-1 |-> Task(mb + c, mb, c, TRUE, stages)]]
           B == [mb \in 0..n-1 |-> [c \in 0..K-1 |->
                    Task(2 * (K - 1) + mb - c, mb, c, FALSE, stages)]]
           s == OneForwardOneBackwardSchedule(n, stages, vpp)
<1>2. AreTasks(T, F, B, n, K) /\ InterleavedTimed(F, B, n, K, stages)
  <2> HIDE DEF T, F, B
  <2>1. K \in Nat /\ K > 0
    OBVIOUS
  <2> QED BY <1>1, <2>1, InterleavedTasksAre, Zenon DEF T, F, B
<1>3. s = [i \in 1..Cardinality(T) |->
              CHOOSE x \in T : Cardinality({y \in T : InTurn(y, x)}) = i - 1]
  BY Zenon DEF OneForwardOneBackwardSchedule, InOrder, InTurn
<1> HIDE DEF F, B, T, s
<1>4. StrictOrder(P, T) /\ Chained(P, F, B, n, K)
  BY <1>2, InterleavedIsOrdered
<1>5. OneTaskEach(T, n, K)
  BY <1>2, TasksAreOneEach
<1>6. IsFiniteSet(T)
  BY <1>5, TasksCounted
<1>7. Lists(s, T, P)
  <2>1. \A x \in T : {y \in T : InTurn(y, x)} = {y \in T : <<y, x>> \in P}
    BY DEF InterleavedOrder, InTurn
  <2> HIDE DEF P
  <2>2. ASSUME NEW i \in 1..Cardinality(T)
        PROVE  s[i] \in T /\ Cardinality(Earlier(P, T, s[i])) = i - 1
    <3> DEFINE Q(x) == Cardinality({y \in T : InTurn(y, x)}) = i - 1
    <3>1. \E x \in T : Cardinality(Earlier(P, T, x)) = i - 1
      BY <1>4, <1>6, EveryPlaceTaken
    <3>2. \A x \in T : Q(x) <=> Cardinality(Earlier(P, T, x)) = i - 1
      BY <2>1 DEF Earlier
    <3>3. s[i] = CHOOSE x \in T : Q(x)
      BY <1>3
    <3>4. s[i] \in T /\ Q(s[i])
      <4> HIDE DEF Q
      <4> QED BY <3>1, <3>2, <3>3
    <3> QED BY <3>2, <3>4
  <2>3. s \in [1..Cardinality(T) -> T]
    BY <1>3, <2>2
  <2> QED BY <1>4, <1>6, <2>2, <2>3, ListedInOrder
<1>8. \A t \in T : HasProducer(t) => \E p \in T : IsProducer(p, t, K) /\ <<p, t>> \in P
  <2> HIDE DEF P
  <2> QED BY <1>2, <1>4, ProducersBefore
<1>9. IsSchedule(s, n, K)
  <2> HIDE DEF P
  <2> QED BY <1>5, <1>7, <1>8, ScheduleIs
<1> QED BY <1>1, <1>9, Zenon DEF s

-----------------------------------------------------------------------------
(* The learning rate of the training run.                                  *)
Leaf(base, k) == [last |-> k, base |-> base, kids |-> <<>>]
Warmup(config) == [class |-> "lambda", style |-> "warmup", config |-> config]

(* The numbers of a configuration. *)
LEMMA ConfigIs ==
    ASSUME NEW c, IsRateConfig(c)
    PROVE  /\ c.style \in RateStyles /\ c.lr \in Nat \ {0} /\ c.min \in Nat /\ c.init \in Nat
           /\ c.warmup \in Nat /\ c.decay \in Nat \ {0} /\ c.warmup < c.decay
           /\ c.min <= c.lr /\ c.init <= c.lr
           /\ DecayIters(c) \in Nat \ {0}
           /\ DecayIters(c) = c.decay - c.warmup
<1>1. c \in [style : RateStyles, lr : Nat, min : Nat, init : Nat, warmup : Nat, decay : Nat]
  BY DEF IsRateConfig
<1>2. ValidConfig(c)
  BY DEF IsRateConfig
<1> QED BY <1>1, <1>2 DEF ValidConfig, DecayIters

LEMMA ScaledBack ==
    ASSUME NEW v \in Nat, NEW q \in Nat \ {0}
    PROVE  Scaled(q, v, q) = v /\ Scaled(v, q, q) = v
<1>1. q * v = v * q + 0 /\ v * q = v * q + 0 /\ 0 \in 0..q - 1
  OBVIOUS
<1> QED BY <1>1, Digits DEF Scaled

(* Dividing a natural number gives one. *)
LEMMA ScaledNat ==
    ASSUME NEW v \in Nat, NEW p \in Nat, NEW q \in Nat \ {0}
    PROVE  Scaled(v, p, q) \in Nat
<1>1. v * p \in Nat
  OBVIOUS
<1> QED BY <1>1, DivMod DEF Scaled

LEMMA LambdaNat ==
    ASSUME NEW c, IsRateConfig(c), NEW k \in Nat, NEW style \in {"one", "cosine", "inverse-square-root"}
    PROVE  LambdaLRValue(style, c, k) \in Nat
<1> DEFINE n == DecayIters(c)
           g == IF k + c.warmup >= 1 THEN k + c.warmup ELSE 1
           w == IF c.warmup >= 1 THEN c.warmup ELSE 1
           a == Scaled(c.lr - c.min, (n - k) * (n - k), n * n)
           b == Scaled(c.lr, w, g)
<1>1. /\ c.lr \in Nat \ {0} /\ c.min \in Nat /\ n \in Nat \ {0} /\ c.warmup \in Nat /\ c.lr - c.min \in Nat
  BY ConfigIs
<1> HIDE DEF n
<1>2. k <= n => a \in Nat
  <2> SUFFICES ASSUME k <= n PROVE a \in Nat
    OBVIOUS
  <2>1. n * n \in Nat \ {0}
    BY <1>1
  <2>2. (n - k) * (n - k) \in Nat
    <3>1. PICK m \in Nat : n - k = m
      BY <1>1
    <3>2. m * m \in Nat
      OBVIOUS
    <3> QED BY <3>1, <3>2
  <2> QED BY <1>1, <2>1, <2>2, ScaledNat
<1>3. b \in Nat
  <2>1. w \in Nat /\ g \in Nat \ {0}
    BY <1>1
  <2> HIDE DEF w, g
  <2> QED BY <1>1, <2>1, ScaledNat
<1> HIDE DEF a, b
<1>4. CASE style = "one"
  BY <1>1, <1>4 DEF LambdaLRValue
<1>5. CASE style = "cosine"
  <2>1. LambdaLRValue(style, c, k) = IF k > n THEN c.min ELSE c.min + a
    BY <1>5 DEF LambdaLRValue, n, a
  <2> QED BY <1>1, <1>2, <2>1
<1>6. CASE style = "inverse-square-root"
  <2>1. LambdaLRValue(style, c, k) =
            IF k + c.warmup > c.decay THEN c.min ELSE IF c.min >= b THEN c.min ELSE b
    BY <1>6, Zenon DEF LambdaLRValue, b, w, g
  <2> QED BY <1>1, <1>3, <2>1
<1> QED BY <1>4, <1>5, <1>6

LEMMA WarmupNat ==
    ASSUME NEW c, IsRateConfig(c), NEW k \in Nat, c.warmup # 0
    PROVE  LambdaLRValue("warmup", c, k) \in Nat
<1>1. c.lr - c.init \in Nat /\ c.warmup \in Nat \ {0} /\ c.init \in Nat
  BY ConfigIs
<1>2. Scaled(c.lr - c.init, k, c.warmup) \in Nat
  BY <1>1, ScaledNat
<1>3. LambdaLRValue("warmup", c, k) = c.init + Scaled(c.lr - c.init, k, c.warmup)
  BY DEF LambdaLRValue
<1> QED BY <1>1, <1>2, <1>3

(* A LambdaLR has the rate its function gives, whatever it was. *)
LEMMA LambdaStep ==
    ASSUME NEW c, IsRateConfig(c), NEW style, NEW k \in Int, NEW r, NEW initial,
           LambdaLRValue(style, c, k + 1) \in Nat
    PROVE  LET l == [class |-> "lambda", style |-> style, config |-> c]
           IN  /\ LeafStep(l, [s |-> Leaf(c.lr, k), lr |-> r], initial)
                      = [s |-> Leaf(c.lr, k + 1), lr |-> LambdaLRValue(style, c, k + 1)]
               /\ LeafStepTo(l, [s |-> Leaf(c.lr, k), lr |-> r], k + 1)
                      = [s |-> Leaf(c.lr, k + 1), lr |-> LambdaLRValue(style, c, k + 1)]
<1> DEFINE l == [class |-> "lambda", style |-> style, config |-> c]
           v == LambdaLRValue(style, c, k + 1)
           s2 == Leaf(c.lr, k + 1)
<1>1. c.lr \in Nat \ {0}
  BY ConfigIs
<1>2. GetClosedFormLR(l, s2) = v
  <2>1. GetClosedFormLR(l, s2) = Scaled(c.lr, v, c.lr)
    BY DEF GetClosedFormLR, Leaf
  <2> HIDE DEF v
  <2> QED BY <1>1, <2>1, ScaledBack DEF v
<1>3. GetChainedFormLR(l, s2, r, initial) = v
  <2>1. GetChainedFormLR(l, s2, r, initial) = GetClosedFormLR(l, s2)
    BY DEF GetChainedFormLR
  <2> QED BY <1>2, <2>1
<1> HIDE DEF l, v
<1>4. [Leaf(c.lr, k) EXCEPT !.last = @ + 1] = s2 /\ [Leaf(c.lr, k) EXCEPT !.last = k + 1] = s2
  BY DEF Leaf
<1> HIDE DEF s2
<1>5. LeafStep(l, [s |-> Leaf(c.lr, k), lr |-> r], initial) = [s |-> s2, lr |-> v]
  BY <1>3, <1>4 DEF LeafStep
<1>6. LeafStepTo(l, [s |-> Leaf(c.lr, k), lr |-> r], k + 1) = [s |-> s2, lr |-> v]
  BY <1>2, <1>4 DEF LeafStepTo
<1> QED BY <1>5, <1>6 DEF l, v, s2

(* The linear decay falls by the same amount in each step.                 *)
Fall(c) == (c.lr - c.min) \div DecayIters(c)
Fallen(c, k) == c.lr - Fall(c) * k

LEMMA FallIs ==
    ASSUME NEW c, IsRateConfig(c), c.style = "linear"
    PROVE  /\ Fall(c) \in Nat /\ c.lr - c.min = Fall(c) * DecayIters(c)
           /\ \A k \in 0..DecayIters(c) :
                 /\ Fallen(c, k) \in Nat
                 /\ c.lr * (DecayIters(c) - k) + c.min * k = DecayIters(c) * Fallen(c, k)
                 /\ k < DecayIters(c) => Fallen(c, k) > 0
           /\ Fallen(c, DecayIters(c)) = c.min /\ Fallen(c, 0) = c.lr
<1> DEFINE n == DecayIters(c)
           d == Fall(c)
<1>1. /\ c.lr \in Nat \ {0} /\ c.min \in Nat /\ n \in Nat \ {0} /\ c.lr - c.min \in Nat
      /\ (c.lr - c.min) % n = 0
  BY ConfigIs DEF IsRateConfig
<1> HIDE DEF n
<1>2. d \in Nat /\ c.lr - c.min = d * n
  <2> DEFINE v == c.lr - c.min
  <2>1. v \in Nat /\ v % n = 0
    BY <1>1
  <2> HIDE DEF v
  <2>2. v = (v \div n) * n + (v % n) /\ v \div n \in Nat
    BY <1>1, <2>1, DivMod
  <2>3. v = (v \div n) * n
    <3>1. PICK q \in Nat : q = v \div n
      BY <2>2
    <3>2. v = q * n + 0
      BY <2>1, <2>2, <3>1
    <3>3. PICK p \in Nat : p = q * n
      BY <1>1
    <3> QED BY <3>1, <3>2, <3>3
  <2> QED BY <2>2, <2>3 DEF v, Fall, n
<1> HIDE DEF d
<1>3. PICK l \in Nat, m \in Nat : l = c.lr /\ m = c.min /\ l = m + d * n /\ l > 0
  <2>1. c.lr = c.min + d * n
    <3>1. PICK p \in Nat : p = d * n
      BY <1>1, <1>2
    <3> QED BY <1>1, <1>2, <3>1
  <2> QED BY <1>1, <2>1
<1>4. ASSUME NEW k \in 0..n
      PROVE  /\ Fallen(c, k) = m + d * (n - k) /\ Fallen(c, k) \in Nat
             /\ c.lr * (n - k) + c.min * k = n * Fallen(c, k)
             /\ k < n => Fallen(c, k) > 0
  <2>1. PICK j \in Nat : j = n - k /\ n = j + k
    BY <1>1
  <2>2. d * n = d * j + d * k
    BY <1>1, <1>2, <2>1
  <2>3. Fallen(c, k) = m + d * j
    <3>1. PICK x \in Nat, y \in Nat, z \in Nat : x = d * n /\ y = d * j /\ z = d * k
      BY <1>1, <1>2
    <3>2. l - z = m + y
      BY <1>3, <2>2, <3>1
    <3> QED BY <1>3, <3>1, <3>2 DEF Fallen, d
  <2>4. m + d * j \in Nat
    BY <1>2
  <2>5. l * j + m * k = n * (m + d * j)
    <3>1. l * j + m * k = (m + d * n) * j + m * k
      BY <1>3
    <3>2. (m + d * n) * j + m * k = m * j + (d * n) * j + m * k
      BY <1>1, <1>2
    <3>3. n * (m + d * j) = n * m + n * (d * j)
      BY <1>1, <1>2
    <3>4. n * m = m * j + m * k
      BY <1>1, <2>1
    <3>5. n * (d * j) = (d * n) * j
      BY <1>1, <1>2
    <3>6. PICK a \in Nat, b \in Nat, e \in Nat : a = m * j /\ b = m * k /\ e = (d * n) * j
      BY <1>1, <1>2
    <3> QED BY <3>1, <3>2, <3>3, <3>4, <3>5, <3>6
  <2>6. ASSUME j > 0 PROVE m + d * j > 0
    <3>1. CASE m > 0
      <4>1. d * j \in Nat
        BY <1>2
      <4> QED BY <3>1, <4>1
    <3>2. CASE m = 0
      <4>1. d > 0
        BY <1>1, <1>2, <1>3, <3>2
      <4>2. PICK y \in Nat : y = d * j /\ y > 0
        BY <1>2, <2>6, <4>1
      <4> QED BY <4>2
    <3> QED BY <3>1, <3>2
  <2> QED BY <1>3, <2>1, <2>3, <2>4, <2>5, <2>6
<1>5. Fallen(c, n) = m /\ Fallen(c, 0) = l
  <2>1. n \in 0..n /\ 0 \in 0..n /\ n - n = 0 /\ n - 0 = n
    BY <1>1
  <2>2. Fallen(c, n) = m + d * 0 /\ Fallen(c, 0) = m + d * n
    BY <1>4, <2>1
  <2> QED BY <1>2, <1>3, <2>2
<1> QED BY <1>2, <1>3, <1>4, <1>5 DEF n, d

LEMMA LinearRate ==
    ASSUME NEW c, IsRateConfig(c), c.style = "linear", NEW k \in Nat
    PROVE  MainRate(c, k) = IF k >= DecayIters(c) THEN c.min ELSE Fallen(c, k)
<1> DEFINE n == DecayIters(c)
<1>1. n \in Nat \ {0}
  BY ConfigIs
<1>2. MainRate(c, k) = IF k >= n THEN c.min ELSE Scaled(c.lr * (n - k) + c.min * k, 1, n)
  BY DEF MainRate
<1>3. k < n => Scaled(c.lr * (n - k) + c.min * k, 1, n) = Fallen(c, k)
  <2> SUFFICES ASSUME k < n PROVE Scaled(c.lr * (n - k) + c.min * k, 1, n) = Fallen(c, k)
    OBVIOUS
  <2>1. k \in 0..n
    BY <1>1
  <2>2. c.lr * (n - k) + c.min * k = n * Fallen(c, k) /\ Fallen(c, k) \in Nat
    BY <2>1, FallIs
  <2> HIDE DEF n
  <2>3. PICK v \in Nat : v = Fallen(c, k)
    BY <2>2
  <2>4. (n * v) * 1 = v * n + 0 /\ 0 \in 0..n - 1
    BY <1>1
  <2>5. Scaled(n * v, 1, n) = v
    BY <1>1, <2>4, Digits DEF Scaled
  <2> QED BY <2>2, <2>3, <2>5
<1> HIDE DEF n
<1> QED BY <1>1, <1>2, <1>3 DEF n

Linear(c) == [class |-> "linear", start |-> <<1, 1>>, end |-> <<c.min, c.lr>>, total |-> DecayIters(c)]

(* Its first rate, in either form, and the next from the one before.       *)
LEMMA LinearStep ==
    ASSUME NEW c, IsRateConfig(c), c.style = "linear", NEW r
    PROVE  /\ GetChainedFormLR(Linear(c), Leaf(c.lr, 0), c.lr, TRUE) = MainRate(c, 0)
           /\ GetClosedFormLR(Linear(c), Leaf(c.lr, 0)) = MainRate(c, 0)
           /\ \A k \in Nat : GetChainedFormLR(Linear(c), Leaf(c.lr, k + 1), MainRate(c, k), FALSE)
                                = MainRate(c, k + 1)
<1> DEFINE n == DecayIters(c)
           F(k) == 1 * c.lr * (n - k) + c.min * 1 * k
<1>1. n \in Nat \ {0} /\ c.lr \in Nat \ {0} /\ c.min \in Nat
  BY ConfigIs
<1>2. MainRate(c, 0) = c.lr
  <2>1. ~(0 >= n) /\ Fallen(c, 0) = c.lr
    BY <1>1, FallIs
  <2> QED BY <2>1, LinearRate
<1>3. GetChainedFormLR(Linear(c), Leaf(c.lr, 0), c.lr, TRUE) = Scaled(c.lr, 1, 1)
  BY DEF GetChainedFormLR, Linear, Leaf
<1>4. Scaled(c.lr, 1, 1) = c.lr
  BY <1>1, ScaledBack
<1>5. GetClosedFormLR(Linear(c), Leaf(c.lr, 0)) = c.lr
  <2>1. GetClosedFormLR(Linear(c), Leaf(c.lr, 0)) = Scaled(c.lr, F(0), 1 * c.lr * n)
    <3>1. ~(0 >= n)
      BY <1>1
    <3> HIDE DEF n
    <3> QED BY <3>1 DEF GetClosedFormLR, Linear, Leaf, n
  <2> HIDE DEF n
  <2>2. F(0) = c.lr * n /\ 1 * c.lr * n = c.lr * n /\ c.lr * n \in Nat \ {0}
    BY <1>1
  <2> QED BY <1>1, <2>1, <2>2, ScaledBack
<1>6. ASSUME NEW k \in Nat
      PROVE  GetChainedFormLR(Linear(c), Leaf(c.lr, k + 1), MainRate(c, k), FALSE) = MainRate(c, k + 1)
  <2>1. GetChainedFormLR(Linear(c), Leaf(c.lr, k + 1), MainRate(c, k), FALSE)
          = IF k + 1 > n THEN MainRate(c, k) ELSE Scaled(MainRate(c, k), F(k + 1), F(k + 1 - 1))
    <3>1. k + 1 # 0
      OBVIOUS
    <3> HIDE DEF n
    <3> QED BY <3>1 DEF GetChainedFormLR, Linear, Leaf, n
  <2>2. CASE k + 1 > n
    <3>1. k >= n /\ k + 1 >= n /\ k + 1 \in Nat
      BY <1>1, <2>2
    <3>2. MainRate(c, k) = c.min /\ MainRate(c, k + 1) = c.min
      BY <3>1, LinearRate
    <3> HIDE DEF n, F
    <3> QED BY <2>1, <2>2, <3>2
  <2>3. CASE k + 1 <= n
    <3>1. k \in 0..n /\ k + 1 \in 0..n /\ k < n /\ ~(k >= n) /\ ~(k + 1 > n) /\ k + 1 \in Nat
      BY <1>1, <2>3
    <3>2. PICK u \in Nat, v \in Nat : u = Fallen(c, k) /\ v = Fallen(c, k + 1) /\ u > 0
      BY <3>1, FallIs
    <3>3. MainRate(c, k) = u
      BY <3>1, <3>2, LinearRate
    <3>4. MainRate(c, k + 1) = v
      <4>1. k + 1 >= n => k + 1 = n
        BY <1>1, <3>1
      <4>2. Fallen(c, n) = c.min
        BY FallIs
      <4> HIDE DEF n
      <4> QED BY <3>1, <3>2, <4>1, <4>2, LinearRate DEF n
    <3>5. F(k) = n * u /\ F(k + 1) = n * v
      <4>1. c.lr * (n - k) + c.min * k = n * u
        BY <3>1, <3>2, FallIs
      <4>2. c.lr * (n - (k + 1)) + c.min * (k + 1) = n * v
        BY <3>1, <3>2, FallIs
      <4>3. 1 * c.lr = c.lr /\ c.min * 1 = c.min
        BY <1>1
      <4> HIDE DEF n
      <4> QED BY <4>1, <4>2, <4>3
    <3>6. F(k + 1 - 1) = F(k)
      <4>1. k + 1 - 1 = k
        OBVIOUS
      <4> HIDE DEF F
      <4> QED BY <4>1, Zenon
    <3> HIDE DEF n, F
    <3>7. Scaled(u, n * v, n * u) = v
      <4>1. u * (n * v) = v * (n * u) + 0
        BY <1>1
      <4>2. n * u \in Nat \ {0}
        BY <1>1, <3>2
      <4>3. PICK w \in Nat \ {0} : w = n * u
        BY <4>2
      <4>4. 0 \in 0..w - 1
        OBVIOUS
      <4> QED BY <4>1, <4>3, <4>4, Digits DEF Scaled
    <3>8. GetChainedFormLR(Linear(c), Leaf(c.lr, k + 1), MainRate(c, k), FALSE)
            = Scaled(MainRate(c, k), F(k + 1), F(k + 1 - 1))
      BY <2>1, <3>1
    <3>9. Scaled(MainRate(c, k), F(k + 1), F(k + 1 - 1)) = Scaled(u, n * v, n * u)
      BY <3>3, <3>5, <3>6, Zenon
    <3> QED BY <3>4, <3>7, <3>8, <3>9, Zenon
  <2>4. k + 1 > n \/ k + 1 <= n
    <3> HIDE DEF n
    <3> QED BY <1>1
  <2> QED BY <2>2, <2>3, <2>4
<1> QED BY <1>2, <1>3, <1>4, <1>5, <1>6

-----------------------------------------------------------------------------
(* The schedulers, one step at a time.                                     *)

(* The main scheduler when it is made, when it starts over at its          *)
(* milestone, and at each step after that.                                 *)
LEMMA MainStep ==
    ASSUME NEW c, IsRateConfig(c)
    PROVE  LET m == MainScheduler(c) IN
           /\ IsLeaf(m)
           /\ LeafStep(m, [s |-> Leaf(c.lr, -1), lr |-> c.lr], TRUE)
                 = [s |-> Leaf(c.lr, 0), lr |-> MainRate(c, 0)]
           /\ \A r : LeafStepTo(m, [s |-> Leaf(c.lr, -1), lr |-> r], 0)
                        = [s |-> Leaf(c.lr, 0), lr |-> MainRate(c, 0)]
           /\ \A k \in Nat : LeafStep(m, [s |-> Leaf(c.lr, k), lr |-> MainRate(c, k)], FALSE)
                                = [s |-> Leaf(c.lr, k + 1), lr |-> MainRate(c, k + 1)]
<1> DEFINE m == MainScheduler(c)
<1>0. -1 + 1 = 0 /\ -1 \in Int /\ -1 + 1 \in Nat
  OBVIOUS
<1>1. CASE c.style = "linear"
  <2>1. m = Linear(c)
    BY <1>1 DEF MainScheduler, Linear
  <2>2. IsLeaf(Linear(c))
    BY DEF IsLeaf, Linear
  <2>3. /\ [Leaf(c.lr, -1) EXCEPT !.last = @ + 1] = Leaf(c.lr, 0)
        /\ [Leaf(c.lr, -1) EXCEPT !.last = 0] = Leaf(c.lr, 0)
        /\ \A k \in Nat : [Leaf(c.lr, k) EXCEPT !.last = @ + 1] = Leaf(c.lr, k + 1)
    BY DEF Leaf
  <2>4. LeafStep(Linear(c), [s |-> Leaf(c.lr, -1), lr |-> c.lr], TRUE)
          = [s |-> Leaf(c.lr, 0), lr |-> MainRate(c, 0)]
    BY <1>1, <2>3, LinearStep DEF LeafStep
  <2>5. ASSUME NEW r
        PROVE  LeafStepTo(Linear(c), [s |-> Leaf(c.lr, -1), lr |-> r], 0)
                 = [s |-> Leaf(c.lr, 0), lr |-> MainRate(c, 0)]
    BY <1>1, <2>3, LinearStep DEF LeafStepTo
  <2>6. ASSUME NEW k \in Nat
        PROVE  LeafStep(Linear(c), [s |-> Leaf(c.lr, k), lr |-> MainRate(c, k)], FALSE)
                 = [s |-> Leaf(c.lr, k + 1), lr |-> MainRate(c, k + 1)]
    BY <1>1, <2>3, LinearStep DEF LeafStep
  <2> HIDE DEF m
  <2> QED BY <2>1, <2>2, <2>4, <2>5, <2>6 DEF m
<1>2. CASE c.style # "linear"
  <2> DEFINE style == IF c.style = "constant" THEN "one" ELSE c.style
             l == [class |-> "lambda", style |-> style, config |-> c]
  <2>1. m = l
    BY <1>2 DEF MainScheduler
  <2>2. IsLeaf(l)
    BY DEF IsLeaf
  <2>3. style \in {"one", "cosine", "inverse-square-root"}
    BY <1>2, ConfigIs DEF RateStyles
  <2>4. ASSUME NEW k \in Nat
        PROVE  LambdaLRValue(style, c, k) = MainRate(c, k) /\ LambdaLRValue(style, c, k) \in Nat
    <3>1. LambdaLRValue(style, c, k) \in Nat
      BY <2>3, LambdaNat
    <3>2. CASE c.style = "constant"
      BY <3>1, <3>2 DEF MainRate, LambdaLRValue
    <3>3. CASE c.style # "constant"
      BY <1>2, <3>1, <3>3 DEF MainRate
    <3> QED BY <3>2, <3>3
  <2> HIDE DEF style
  <2>5. ASSUME NEW k \in Int, k + 1 \in Nat, NEW r, NEW initial
        PROVE  /\ LeafStep(l, [s |-> Leaf(c.lr, k), lr |-> r], initial)
                    = [s |-> Leaf(c.lr, k + 1), lr |-> MainRate(c, k + 1)]
               /\ LeafStepTo(l, [s |-> Leaf(c.lr, k), lr |-> r], k + 1)
                    = [s |-> Leaf(c.lr, k + 1), lr |-> MainRate(c, k + 1)]
    <3>1. LambdaLRValue(style, c, k + 1) = MainRate(c, k + 1) /\ LambdaLRValue(style, c, k + 1) \in Nat
      BY <2>4, <2>5
    <3> QED BY <3>1, LambdaStep, ZenonT(30)
  <2> HIDE DEF l, m
  <2>6. LeafStep(l, [s |-> Leaf(c.lr, -1), lr |-> c.lr], TRUE)
          = [s |-> Leaf(c.lr, 0), lr |-> MainRate(c, 0)]
    <3>1. LeafStep(l, [s |-> Leaf(c.lr, -1), lr |-> c.lr], TRUE)
            = [s |-> Leaf(c.lr, -1 + 1), lr |-> MainRate(c, -1 + 1)]
      BY <1>0, <2>5, Zenon
    <3> QED BY <1>0, <3>1
  <2>7. ASSUME NEW r
        PROVE  LeafStepTo(l, [s |-> Leaf(c.lr, -1), lr |-> r], 0)
                 = [s |-> Leaf(c.lr, 0), lr |-> MainRate(c, 0)]
    <3>1. LeafStepTo(l, [s |-> Leaf(c.lr, -1), lr |-> r], -1 + 1)
            = [s |-> Leaf(c.lr, -1 + 1), lr |-> MainRate(c, -1 + 1)]
      BY <1>0, <2>5, Zenon
    <3> QED BY <1>0, <3>1
  <2>8. ASSUME NEW k \in Nat
        PROVE  LeafStep(l, [s |-> Leaf(c.lr, k), lr |-> MainRate(c, k)], FALSE)
                 = [s |-> Leaf(c.lr, k + 1), lr |-> MainRate(c, k + 1)]
    <3>1. k \in Int /\ k + 1 \in Nat
      OBVIOUS
    <3> QED BY <2>5, <3>1
  <2> QED BY <2>1, <2>2, <2>6, <2>7, <2>8 DEF m
<1> QED BY <1>1, <1>2

LEMMA WarmupStep ==
    ASSUME NEW c, IsRateConfig(c), c.warmup # 0, NEW k \in Int, k + 1 \in Nat, NEW r, NEW initial
    PROVE  /\ IsLeaf(Warmup(c))
           /\ LeafStep(Warmup(c), [s |-> Leaf(c.lr, k), lr |-> r], initial)
                 = [s |-> Leaf(c.lr, k + 1), lr |-> LambdaLRValue("warmup", c, k + 1)]
<1>1. LambdaLRValue("warmup", c, k + 1) \in Nat
  BY WarmupNat
<1>2. IsLeaf(Warmup(c))
  BY DEF IsLeaf, Warmup
<1> QED BY <1>1, <1>2, LambdaStep DEF Warmup

(* Where the scheduler is after k steps. *)
After(c, k) ==
    [s  |-> IF c.warmup = 0 THEN Leaf(c.lr, k)
            ELSE [last |-> k, base |-> c.lr,
                  kids |-> <<Leaf(c.lr, IF k < c.warmup THEN k ELSE c.warmup - 1),
                             Leaf(c.lr, IF k < c.warmup THEN -1 ELSE k - c.warmup)>>],
     lr |-> TrainingRate(c, k)]

(* Without a warm-up. *)
LEMMA PlainSteps ==
    ASSUME NEW c, IsRateConfig(c), c.warmup = 0
    PROVE  /\ CreateLRScheduler(c) = After(c, 0)
           /\ \A k \in Nat : SchedulerStep(TrainingScheduler(c), After(c, k)) = After(c, k + 1)
<1> DEFINE m == MainScheduler(c)
<1>1. TrainingScheduler(c) = m
  BY DEF TrainingScheduler
<1>2. IsLeaf(m)
  BY MainStep
<1>3. ASSUME NEW k \in Nat PROVE TrainingRate(c, k) = MainRate(c, k)
  <2>1. ~(k < 0) /\ k - 0 = k
    OBVIOUS
  <2> QED BY <2>1 DEF TrainingRate
<1>4. ASSUME NEW k \in Nat PROVE After(c, k) = [s |-> Leaf(c.lr, k), lr |-> MainRate(c, k)]
  BY <1>3 DEF After
<1>5. CreateLRScheduler(c) = LeafStep(m, [s |-> Fresh(c.lr), lr |-> c.lr], TRUE)
  BY <1>1, <1>2 DEF CreateLRScheduler, CreateScheduler
<1>6. Fresh(c.lr) = Leaf(c.lr, -1)
  BY DEF Fresh, Leaf
<1>7. ASSUME NEW p PROVE SchedulerStep(m, p) = LeafStep(m, p, FALSE)
  BY <1>2 DEF SchedulerStep, IsLeaf
<1>8. CreateLRScheduler(c) = [s |-> Leaf(c.lr, 0), lr |-> MainRate(c, 0)]
  BY <1>5, <1>6, MainStep
<1>9. ASSUME NEW k \in Nat
      PROVE  LeafStep(m, [s |-> Leaf(c.lr, k), lr |-> MainRate(c, k)], FALSE)
                = [s |-> Leaf(c.lr, k + 1), lr |-> MainRate(c, k + 1)]
  BY MainStep
<1> HIDE DEF m
<1>10. CreateLRScheduler(c) = After(c, 0)
  BY <1>4, <1>8
<1>11. ASSUME NEW k \in Nat PROVE SchedulerStep(m, After(c, k)) = After(c, k + 1)
  <2>1. k + 1 \in Nat
    OBVIOUS
  <2> QED BY <1>4, <1>7, <1>9, <2>1
<1> QED BY <1>1, <1>10, <1>11

(* A SequentialLR of two children in the states x and y.                   *)
Pair(base, k, x, y, r) == [s |-> [last |-> k, base |-> base, kids |-> <<x, y>>], lr |-> r]

LEMMA PairIs ==
    ASSUME NEW base, NEW k, NEW x, NEW y, NEW r
    PROVE  /\ Pair(base, k, x, y, r).s.kids[1] = x /\ Pair(base, k, x, y, r).s.kids[2] = y
           /\ DOMAIN Pair(base, k, x, y, r).s.kids = 1..2
           /\ Pair(base, k, x, y, r).s.last = k /\ Pair(base, k, x, y, r).s.base = base
           /\ Pair(base, k, x, y, r).lr = r
BY DEF Pair

(* The time and one child of a state are replaced.                        *)
FirstTo(s, l, z) == [s EXCEPT !.last = l, !.kids[1] = z]
SecondTo(s, l, z) == [s EXCEPT !.last = l, !.kids[2] = z]

LEMMA KidReplaced ==
    ASSUME NEW base, NEW k, NEW x, NEW y, NEW r, NEW l, NEW z
    PROVE  /\ FirstTo(Pair(base, k, x, y, r).s, l, z) = Pair(base, l, z, y, r).s
           /\ SecondTo(Pair(base, k, x, y, r).s, l, z) = Pair(base, l, x, z, r).s
<1> DEFINE a == <<x, y>>
           s == [last |-> k, base |-> base, kids |-> a]
<1>1. Pair(base, k, x, y, r).s = s
  BY DEF Pair
<1>2. [a EXCEPT ![1] = z] = <<z, y>> /\ [a EXCEPT ![2] = z] = <<x, z>>
  OBVIOUS
<1> HIDE DEF a
<1>3. ASSUME NEW u, u = [s EXCEPT !.last = l, !.kids[1] = z]
      PROVE  u = [last |-> l, base |-> base, kids |-> [a EXCEPT ![1] = z]]
  BY <1>3
<1>4. ASSUME NEW u, u = [s EXCEPT !.last = l, !.kids[2] = z]
      PROVE  u = [last |-> l, base |-> base, kids |-> [a EXCEPT ![2] = z]]
  BY <1>4
<1>5. [s EXCEPT !.last = l, !.kids[1] = z] = [last |-> l, base |-> base, kids |-> [a EXCEPT ![1] = z]]
  BY <1>3, Zenon
<1>6. [s EXCEPT !.last = l, !.kids[2] = z] = [last |-> l, base |-> base, kids |-> [a EXCEPT ![2] = z]]
  BY <1>4, Zenon
<1>7. /\ Pair(base, l, z, y, r).s = [last |-> l, base |-> base, kids |-> <<z, y>>]
      /\ Pair(base, l, x, z, r).s = [last |-> l, base |-> base, kids |-> <<x, z>>]
  BY DEF Pair
<1> HIDE DEF s
<1> QED BY <1>1, <1>2, <1>5, <1>6, <1>7, Zenon DEF FirstTo, SecondTo

(* With a warm-up.  The main scheduler is made first, the warm-up's rate   *)
(* is the one that stays, and its turn ends at its milestone.              *)
LEMMA WarmedCreate ==
    ASSUME NEW c, IsRateConfig(c), c.warmup # 0
    PROVE  CreateLRScheduler(c) = After(c, 0)
<1> DEFINE m == MainScheduler(c)
           w == Warmup(c)
           t == TrainingScheduler(c)
           base == c.lr
           empty == [s |-> [Fresh(base) EXCEPT !.kids = [k \in DOMAIN t.kids |-> Fresh(base)]], lr |-> base]
           order == <<2, 1>>
           Make(q, i) == LET k == LeafStep(t.kids[order[i]], [s |-> q.s.kids[order[i]], lr |-> q.lr], TRUE)
                         IN  [s |-> [q.s EXCEPT !.kids[order[i]] = k.s], lr |-> k.lr]
           Makes(f) == f = [i \in 0..Len(order) |-> IF i = 0 THEN empty ELSE Make(f[i - 1], i)]
           made == CHOOSE f : Makes(f)
           rate == LambdaLRValue("warmup", c, 0)
           zero == Pair(base, -1, Leaf(base, -1), Leaf(base, -1), base)
           one == Pair(base, -1, Leaf(base, -1), Leaf(base, 0), MainRate(c, 0))
           two == Pair(base, -1, Leaf(base, 0), Leaf(base, 0), rate)
           done == Pair(base, 0, Leaf(base, 0), Leaf(base, -1), rate)
<1>0. -1 + 1 = 0 /\ -1 \in Int /\ -1 + 1 \in Nat /\ 0 - 1 = -1
  OBVIOUS
<1>1. t.class = "sequential" /\ t.kids = <<w, m>>
  BY DEF TrainingScheduler, Warmup
<1>2. ~IsLeaf(t)
  BY <1>1 DEF IsLeaf
<1>3. CreateLRScheduler(c) = SequentialInitialStep(t, made[Len(order)])
  BY <1>1, <1>2, Zenon DEF CreateLRScheduler, CreateScheduler
<1>4. empty = zero
  <2>1. Fresh(base) = Leaf(base, -1)
    BY DEF Fresh, Leaf
  <2>2. DOMAIN t.kids = 1..2
    <3> HIDE DEF w, m, t
    <3> QED BY <1>1
  <2>3. [k \in 1..2 |-> Leaf(base, -1)] = <<Leaf(base, -1), Leaf(base, -1)>>
    OBVIOUS
  <2>4. [Leaf(base, -1) EXCEPT !.kids = <<Leaf(base, -1), Leaf(base, -1)>>] = zero.s
    BY DEF Leaf, Pair
  <2>5. zero = [s |-> zero.s, lr |-> base]
    BY DEF Pair
  <2> HIDE DEF t, zero
  <2> QED BY <2>1, <2>2, <2>3, <2>4, <2>5
<1>5. LeafStep(m, [s |-> Leaf(base, -1), lr |-> base], TRUE) = [s |-> Leaf(base, 0), lr |-> MainRate(c, 0)]
  BY MainStep
<1>6. ASSUME NEW r
      PROVE  LeafStep(w, [s |-> Leaf(base, -1), lr |-> r], TRUE) = [s |-> Leaf(base, 0), lr |-> rate]
  <2>1. LeafStep(w, [s |-> Leaf(base, -1), lr |-> r], TRUE)
           = [s |-> Leaf(base, -1 + 1), lr |-> LambdaLRValue("warmup", c, -1 + 1)]
    BY <1>0, WarmupStep, Zenon
  <2> QED BY <1>0, <2>1
<1>7. t.kids[1] = w /\ t.kids[2] = m /\ order[1] = 2 /\ order[2] = 1 /\ Len(order) = 2
  <2> HIDE DEF w, m, t
  <2> QED BY <1>1
<1> HIDE DEF t, w, m, empty
<1>8. Make(zero, 1) = one
  <2>1. zero.s.kids[2] = Leaf(base, -1) /\ zero.lr = base
    BY PairIs
  <2>2. [zero.s EXCEPT !.kids[2] = Leaf(base, 0)] = one.s /\ one = [s |-> one.s, lr |-> MainRate(c, 0)]
    BY DEF Pair
  <2> HIDE DEF zero, one, order
  <2> DEFINE k == LeafStep(t.kids[order[1]], [s |-> zero.s.kids[order[1]], lr |-> zero.lr], TRUE)
  <2>3. k = [s |-> Leaf(base, 0), lr |-> MainRate(c, 0)]
    BY <1>5, <1>7, <2>1
  <2>4. Make(zero, 1) = [s |-> [zero.s EXCEPT !.kids[order[1]] = k.s], lr |-> k.lr]
    OBVIOUS
  <2> HIDE DEF k, Make
  <2> QED BY <1>7, <2>2, <2>3, <2>4
<1>9. Make(one, 2) = two
  <2>1. one.s.kids[1] = Leaf(base, -1)
    BY PairIs
  <2>2. [one.s EXCEPT !.kids[1] = Leaf(base, 0)] = two.s /\ two = [s |-> two.s, lr |-> rate]
    BY DEF Pair
  <2> HIDE DEF one, two, order, rate
  <2> DEFINE k == LeafStep(t.kids[order[2]], [s |-> one.s.kids[order[2]], lr |-> one.lr], TRUE)
  <2>3. k = [s |-> Leaf(base, 0), lr |-> rate]
    BY <1>6, <1>7, <2>1
  <2>4. Make(one, 2) = [s |-> [one.s EXCEPT !.kids[order[2]] = k.s], lr |-> k.lr]
    OBVIOUS
  <2> HIDE DEF k, Make
  <2> QED BY <1>7, <2>2, <2>3, <2>4
<1>10. made[2] = two
  <2> HIDE DEF zero, one, two, order, Make
  <2> DEFINE h == [i \in 0..2 |-> IF i = 0 THEN zero ELSE IF i = 1 THEN one ELSE two]
  <2>1. h[0] = zero /\ h[1] = one /\ h[2] = two
    OBVIOUS
  <2>2. h = [i \in 0..2 |-> IF i = 0 THEN empty ELSE Make(h[i - 1], i)]
    <3>1. \A i \in 0..2 : i = 0 \/ i = 1 \/ i = 2
      OBVIOUS
    <3>2. 1 - 1 = 0 /\ 2 - 1 = 1
      OBVIOUS
    <3>3. \A i \in 0..2 : h[i] = IF i = 0 THEN empty ELSE Make(h[i - 1], i)
      <4> HIDE DEF h
      <4> QED BY <1>4, <1>8, <1>9, <2>1, <3>1, <3>2
    <3> HIDE DEF Make
    <3> QED BY <3>3
  <2>3. Makes(h)
    BY <1>7, <2>2, Zenon
  <2> HIDE DEF h
  <2>4. Makes(made)
    <3> HIDE DEF Makes
    <3> QED BY <2>3
  <2>5. \A i \in 0..2 : made[i] = IF i = 0 THEN empty ELSE Make(made[i - 1], i)
    <3>1. made = [i \in 0..2 |-> IF i = 0 THEN empty ELSE Make(made[i - 1], i)]
      <4> HIDE DEF made
      <4> QED BY <1>7, <2>4, Zenon
    <3> HIDE DEF made
    <3> QED BY <3>1
  <2> HIDE DEF made
  <2>6. made[0] = empty /\ made[1] = Make(made[0], 1) /\ made[2] = Make(made[1], 2)
    <3>1. 0 \in 0..2 /\ 1 \in 0..2 /\ 2 \in 0..2 /\ 1 - 1 = 0 /\ 2 - 1 = 1
      OBVIOUS
    <3> QED BY <2>5, <3>1
  <2> QED BY <1>4, <1>8, <1>9, <2>6
<1> HIDE DEF made
<1>11. SequentialInitialStep(t, two) = done
  <2> DEFINE undone == [i \in DOMAIN two.s.kids |-> [two.s.kids[i] EXCEPT !.last = @ - 1]]
             first == LeafStep(t.kids[1], [s |-> undone[1], lr |-> undone[1].base], TRUE)
  <2>1. /\ two.s.kids[1] = Leaf(base, 0) /\ two.s.kids[2] = Leaf(base, 0) /\ DOMAIN two.s.kids = 1..2
        /\ two.s.last = -1 /\ two.s.base = base
    BY PairIs
  <2>2. [Leaf(base, 0) EXCEPT !.last = @ - 1] = Leaf(base, -1) /\ Leaf(base, -1).base = base
    BY DEF Leaf
  <2>3. undone = <<Leaf(base, -1), Leaf(base, -1)>>
    <3>1. \A i \in 1..2 : i = 1 \/ i = 2
      OBVIOUS
    <3> HIDE DEF two
    <3>2. undone = [i \in 1..2 |-> Leaf(base, -1)]
      BY <2>1, <2>2, <3>1
    <3> HIDE DEF undone
    <3> QED BY <3>2
  <2>4. undone[1] = Leaf(base, -1) /\ undone[1].base = base
    <3> HIDE DEF undone
    <3> QED BY <2>2, <2>3
  <2>5. first = [s |-> Leaf(base, 0), lr |-> rate]
    <3> HIDE DEF undone, rate
    <3> QED BY <1>6, <1>7, <2>4
  <2>6. [undone EXCEPT ![1] = first.s] = <<Leaf(base, 0), Leaf(base, -1)>>
    <3> HIDE DEF undone, first
    <3> QED BY <2>3, <2>5
  <2>7. SequentialInitialStep(t, two)
           = [s |-> [two.s EXCEPT !.last = @ + 1, !.kids = [undone EXCEPT ![1] = first.s]], lr |-> first.lr]
    BY DEF SequentialInitialStep
  <2>8. first.lr = rate
    <3> HIDE DEF first
    <3> QED BY <2>5
  <2>9. [s |-> [two.s EXCEPT !.last = @ + 1, !.kids = <<Leaf(base, 0), Leaf(base, -1)>>], lr |-> rate] = done
    <3>1. two.s = [last |-> -1, base |-> base, kids |-> <<Leaf(base, 0), Leaf(base, 0)>>]
      BY DEF Pair
    <3>2. done = [s  |-> [last |-> 0, base |-> base, kids |-> <<Leaf(base, 0), Leaf(base, -1)>>],
                  lr |-> rate]
      BY DEF Pair
    <3>3. [two.s EXCEPT !.last = 0, !.kids = <<Leaf(base, 0), Leaf(base, -1)>>]
             = [last |-> 0, base |-> base, kids |-> <<Leaf(base, 0), Leaf(base, -1)>>]
      <4> DEFINE a == <<Leaf(base, 0), Leaf(base, 0)>>
                 b == <<Leaf(base, 0), Leaf(base, -1)>>
                 k == -1
      <4>1. two.s = [last |-> k, base |-> base, kids |-> a]
        BY <3>1, Zenon
      <4> HIDE DEF two, a, b, k
      <4>2. ASSUME NEW u, u = [[last |-> k, base |-> base, kids |-> a] EXCEPT !.last = 0, !.kids = b]
            PROVE  u = [last |-> 0, base |-> base, kids |-> b]
        BY <4>2
      <4>3. [[last |-> k, base |-> base, kids |-> a] EXCEPT !.last = 0, !.kids = b]
               = [last |-> 0, base |-> base, kids |-> b]
        BY <4>2, Zenon
      <4> QED BY <4>1, <4>3, Zenon DEF b
    <3>4. two.s.last + 1 = 0
      BY <2>1
    <3> HIDE DEF two, done
    <3> QED BY <3>2, <3>3, <3>4
  <2> HIDE DEF undone, first, two, done
  <2> QED BY <2>6, <2>7, <2>8, <2>9
<1>12. done = After(c, 0)
  <2>1. 0 < c.warmup
    BY ConfigIs
  <2>2. TrainingRate(c, 0) = rate
    BY <2>1 DEF TrainingRate
  <2> HIDE DEF rate
  <2> QED BY <2>1, <2>2 DEF Pair, After
<1> QED BY <1>3, <1>7, <1>10, <1>11, <1>12

(* The milestone that has passed.                                          *)
LEMMA Passed ==
    ASSUME NEW w \in Nat, NEW k \in Nat
    PROVE  1 + Cardinality({i \in DOMAIN <<w>> : <<w>>[i] <= k}) = IF k < w THEN 1 ELSE 2
<1> DEFINE P == {i \in DOMAIN <<w>> : <<w>>[i] <= k}
<1>1. DOMAIN <<w>> = {1} /\ <<w>>[1] = w
  OBVIOUS
<1>2. CASE k < w
  <2>1. P = {}
    BY <1>1, <1>2
  <2>2. Cardinality(P) = 0
    BY <2>1, FS_EmptySet
  <2> HIDE DEF P
  <2>3. 1 + Cardinality(P) = 1
    BY <2>2
  <2> QED BY <1>2, <2>3, Zenon DEF P
<1>3. CASE ~(k < w)
  <2>1. P = {1}
    BY <1>1, <1>3
  <2>2. Cardinality(P) = 1
    BY <2>1, FS_Singleton
  <2> HIDE DEF P
  <2>3. 1 + Cardinality(P) = 2
    BY <2>2
  <2> QED BY <1>3, <2>3, Zenon DEF P
<1> QED BY <1>2, <1>3

LEMMA AfterIs ==
    ASSUME NEW c, IsRateConfig(c), c.warmup # 0, NEW k \in Nat
    PROVE  /\ k < c.warmup =>
                 After(c, k) = Pair(c.lr, k, Leaf(c.lr, k), Leaf(c.lr, -1), LambdaLRValue("warmup", c, k))
           /\ k >= c.warmup =>
                 After(c, k) = Pair(c.lr, k, Leaf(c.lr, c.warmup - 1), Leaf(c.lr, k - c.warmup),
                                    MainRate(c, k - c.warmup))
<1>1. c.warmup \in Nat
  BY ConfigIs
<1>2. k >= c.warmup => ~(k < c.warmup)
  BY <1>1
<1> QED BY <1>2, Zenon DEF After, Pair, TrainingRate

LEMMA WarmedStep ==
    ASSUME NEW c, IsRateConfig(c), c.warmup # 0, NEW k \in Nat
    PROVE  SchedulerStep(TrainingScheduler(c), After(c, k)) = After(c, k + 1)
<1> DEFINE m == MainScheduler(c)
           w == Warmup(c)
           t == TrainingScheduler(c)
           base == c.lr
           p == After(c, k)
           idx == 1 + Cardinality({i \in DOMAIN t.milestones : t.milestones[i] <= p.s.last + 1})
           kid == [s |-> p.s.kids[idx], lr |-> p.lr]
           next == IF idx > 1 /\ t.milestones[idx - 1] = p.s.last + 1
                   THEN LeafStepTo(t.kids[idx], kid, 0)
                   ELSE LeafStep(t.kids[idx], kid, FALSE)
           stepped == [s |-> [p.s EXCEPT !.last = p.s.last + 1, !.kids[idx] = next.s], lr |-> next.lr]
           W == c.warmup
<1>0. W \in Nat \ {0} /\ k + 1 \in Nat /\ k \in Int
  BY ConfigIs
<1>1. t.class = "sequential" /\ t.kids = <<w, m>> /\ t.milestones = <<W>>
  BY DEF TrainingScheduler, Warmup
<1>2. SchedulerStep(t, p) = stepped
  <2>1. SchedulerStep(t, p) = SequentialStep(t, p)
    BY <1>1 DEF SchedulerStep
  <2>2. SequentialStep(t, p) = stepped
    BY Zenon DEF SequentialStep
  <2> QED BY <2>1, <2>2
<1>3. t.kids[1] = w /\ t.kids[2] = m /\ t.milestones[1] = W
  <2> HIDE DEF t, w, m
  <2> QED BY <1>1
<1>4. p.s.last = k
  BY DEF After, Leaf
<1>5. idx = IF k + 1 < W THEN 1 ELSE 2
  <2> HIDE DEF t, p, W
  <2>1. idx = 1 + Cardinality({i \in DOMAIN <<W>> : <<W>>[i] <= k + 1})
    BY <1>1, <1>4
  <2> QED BY <1>0, <2>1, Passed
<1> HIDE DEF t, idx
<1>6. CASE k + 1 < W
  <2>1. idx = 1 /\ ~(idx > 1) /\ k < W
    BY <1>0, <1>5, <1>6
  <2> DEFINE r == LambdaLRValue("warmup", c, k)
             r2 == LambdaLRValue("warmup", c, k + 1)
  <2>2. p = Pair(base, k, Leaf(base, k), Leaf(base, -1), r)
    BY <2>1, AfterIs
  <2>3. After(c, k + 1) = Pair(base, k + 1, Leaf(base, k + 1), Leaf(base, -1), r2)
    BY <1>0, <1>6, AfterIs
  <2>4. LeafStep(w, [s |-> Leaf(base, k), lr |-> r], FALSE) = [s |-> Leaf(base, k + 1), lr |-> r2]
    BY <1>0, WarmupStep
  <2> HIDE DEF p, w, r, r2
  <2>5. p.s.kids[1] = Leaf(base, k) /\ p.lr = r
    BY <2>2, PairIs
  <2>6. next = [s |-> Leaf(base, k + 1), lr |-> r2]
    BY <1>3, <2>1, <2>4, <2>5
  <2>7. FirstTo(p.s, k + 1, Leaf(base, k + 1)) = After(c, k + 1).s
    <3>1. FirstTo(Pair(base, k, Leaf(base, k), Leaf(base, -1), r).s, k + 1, Leaf(base, k + 1))
             = Pair(base, k + 1, Leaf(base, k + 1), Leaf(base, -1), r).s
      BY KidReplaced
    <3>2. Pair(base, k + 1, Leaf(base, k + 1), Leaf(base, -1), r).s
             = Pair(base, k + 1, Leaf(base, k + 1), Leaf(base, -1), r2).s
      BY DEF Pair
    <3> QED BY <2>2, <2>3, <3>1, <3>2, Zenon
  <2>8. After(c, k + 1) = [s |-> After(c, k + 1).s, lr |-> r2]
    BY <2>3 DEF Pair
  <2> HIDE DEF next
  <2>9. next.s = Leaf(base, k + 1) /\ next.lr = r2
    BY <2>6
  <2>10. stepped = [s |-> FirstTo(p.s, k + 1, Leaf(base, k + 1)), lr |-> r2]
    BY <1>4, <2>1, <2>9, Zenon DEF FirstTo
  <2> QED BY <1>2, <2>7, <2>8, <2>10, Zenon DEF t, p
<1>7. CASE k + 1 = W
  <2>1. idx = 2 /\ idx > 1 /\ idx - 1 = 1 /\ k < W /\ k + 1 - W = 0 /\ W - 1 = k /\ k + 1 >= W
    BY <1>0, <1>5, <1>7
  <2> DEFINE r == LambdaLRValue("warmup", c, k)
             r2 == MainRate(c, 0)
  <2>2. p = Pair(base, k, Leaf(base, k), Leaf(base, -1), r)
    BY <2>1, AfterIs
  <2>3. After(c, k + 1) = Pair(base, k + 1, Leaf(base, k), Leaf(base, 0), r2)
    <3>1. After(c, k + 1) = Pair(base, k + 1, Leaf(base, W - 1), Leaf(base, k + 1 - W), MainRate(c, k + 1 - W))
      BY <1>0, <2>1, AfterIs
    <3> HIDE DEF W
    <3> QED BY <2>1, <3>1
  <2>4. LeafStepTo(m, [s |-> Leaf(base, -1), lr |-> r], 0) = [s |-> Leaf(base, 0), lr |-> r2]
    BY MainStep
  <2> HIDE DEF p, m, r, r2
  <2>5. p.s.kids[2] = Leaf(base, -1) /\ p.lr = r
    BY <2>2, PairIs
  <2>6. next = [s |-> Leaf(base, 0), lr |-> r2]
    BY <1>3, <1>4, <1>7, <2>1, <2>4, <2>5
  <2>7. SecondTo(p.s, k + 1, Leaf(base, 0)) = After(c, k + 1).s
    <3>1. SecondTo(Pair(base, k, Leaf(base, k), Leaf(base, -1), r).s, k + 1, Leaf(base, 0))
             = Pair(base, k + 1, Leaf(base, k), Leaf(base, 0), r).s
      BY KidReplaced
    <3>2. Pair(base, k + 1, Leaf(base, k), Leaf(base, 0), r).s
             = Pair(base, k + 1, Leaf(base, k), Leaf(base, 0), r2).s
      BY DEF Pair
    <3> QED BY <2>2, <2>3, <3>1, <3>2, Zenon
  <2>8. After(c, k + 1) = [s |-> After(c, k + 1).s, lr |-> r2]
    BY <2>3 DEF Pair
  <2> HIDE DEF next
  <2>9. next.s = Leaf(base, 0) /\ next.lr = r2
    BY <2>6
  <2>10. stepped = [s |-> SecondTo(p.s, k + 1, Leaf(base, 0)), lr |-> r2]
    BY <1>4, <2>1, <2>9, Zenon DEF SecondTo
  <2> QED BY <1>2, <2>7, <2>8, <2>10, Zenon DEF t, p
<1>8. CASE k + 1 > W
  <2> DEFINE j == k - W
             r == MainRate(c, j)
             r2 == MainRate(c, j + 1)
  <2>1. /\ idx = 2 /\ idx > 1 /\ idx - 1 = 1 /\ k >= W /\ k + 1 >= W /\ W # k + 1
        /\ j \in Nat /\ k + 1 - W = j + 1
    BY <1>0, <1>5, <1>8
  <2>2. p = Pair(base, k, Leaf(base, W - 1), Leaf(base, j), r)
    BY <2>1, AfterIs
  <2>3. After(c, k + 1) = Pair(base, k + 1, Leaf(base, W - 1), Leaf(base, j + 1), r2)
    <3>1. After(c, k + 1) = Pair(base, k + 1, Leaf(base, W - 1), Leaf(base, k + 1 - W), MainRate(c, k + 1 - W))
      BY <1>0, <2>1, AfterIs
    <3> HIDE DEF W, j
    <3> QED BY <2>1, <3>1
  <2>4. LeafStep(m, [s |-> Leaf(base, j), lr |-> r], FALSE) = [s |-> Leaf(base, j + 1), lr |-> r2]
    <3> HIDE DEF j
    <3> QED BY <2>1, MainStep
  <2> HIDE DEF p, m, j, r, r2
  <2>5. p.s.kids[2] = Leaf(base, j) /\ p.lr = r
    BY <2>2, PairIs
  <2>6. next = [s |-> Leaf(base, j + 1), lr |-> r2]
    BY <1>3, <1>4, <2>1, <2>4, <2>5
  <2>7. SecondTo(p.s, k + 1, Leaf(base, j + 1)) = After(c, k + 1).s
    <3>1. SecondTo(Pair(base, k, Leaf(base, W - 1), Leaf(base, j), r).s, k + 1, Leaf(base, j + 1))
             = Pair(base, k + 1, Leaf(base, W - 1), Leaf(base, j + 1), r).s
      <4> HIDE DEF W
      <4> QED BY KidReplaced
    <3>2. Pair(base, k + 1, Leaf(base, W - 1), Leaf(base, j + 1), r).s
             = Pair(base, k + 1, Leaf(base, W - 1), Leaf(base, j + 1), r2).s
      BY DEF Pair
    <3> QED BY <2>2, <2>3, <3>1, <3>2, Zenon
  <2>8. After(c, k + 1) = [s |-> After(c, k + 1).s, lr |-> r2]
    BY <2>3 DEF Pair
  <2> HIDE DEF next
  <2>9. next.s = Leaf(base, j + 1) /\ next.lr = r2
    BY <2>6
  <2>10. stepped = [s |-> SecondTo(p.s, k + 1, Leaf(base, j + 1)), lr |-> r2]
    BY <1>4, <2>1, <2>9, Zenon DEF SecondTo
  <2> QED BY <1>2, <2>7, <2>8, <2>10, Zenon DEF t, p
<1>9. k + 1 < W \/ k + 1 = W \/ k + 1 > W
  <2> HIDE DEF W
  <2> QED BY <1>0
<1> QED BY <1>6, <1>7, <1>8, <1>9

(* A new scheduler that loads what an old one saved is where that one was. *)
LEMMA LoadIs ==
    ASSUME NEW c, IsRateConfig(c), NEW k \in Nat
    PROVE  LoadStateDict(After(c, 0), StateDict(After(c, k))) = After(c, k)
<1> DEFINE p == After(c, 0)
           q == After(c, k)
           base == c.lr
<1>1. ASSUME NEW a, NEW b
      PROVE  [Leaf(base, a) EXCEPT !.last = b, !.base = base] = Leaf(base, b)
  <2>1. ASSUME NEW u, u = [Leaf(base, a) EXCEPT !.last = b, !.base = base] PROVE u = Leaf(base, b)
    BY <2>1 DEF Leaf
  <2> QED BY <2>1, Zenon
<1>2. CASE c.warmup = 0
  <2>1. p.s = Leaf(base, 0) /\ q.s = Leaf(base, k) /\ q = [s |-> Leaf(base, k), lr |-> q.lr]
    BY <1>2 DEF After
  <2>2. p.s.kids = <<>> /\ q.s.kids = <<>> /\ q.s.last = k /\ q.s.base = base
    <3> HIDE DEF p, q
    <3> QED BY <2>1 DEF Leaf
  <2> HIDE DEF p, q
  <2>3. DOMAIN <<>> = {}
    OBVIOUS
  <2>4. LoadStateDict(p, StateDict(q)).s = Leaf(base, k) /\ LoadStateDict(p, StateDict(q)).lr = q.lr
    BY <2>2, <2>3 DEF LoadStateDict, StateDict, Leaf
  <2>5. LoadStateDict(p, StateDict(q)) = [s |-> LoadStateDict(p, StateDict(q)).s, lr |-> LoadStateDict(p, StateDict(q)).lr]
    BY DEF LoadStateDict
  <2> QED BY <2>1, <2>4, <2>5, Zenon DEF p, q
<1>3. CASE c.warmup # 0
  <2>1. PICK x, y, z, w : /\ p.s.kids = <<Leaf(base, x), Leaf(base, y)>>
                          /\ q.s.kids = <<Leaf(base, z), Leaf(base, w)>>
                          /\ q.s.last = k /\ q.s.base = base
                          /\ q = [s |-> [last |-> k, base |-> base, kids |-> q.s.kids], lr |-> q.lr]
    BY <1>3 DEF After
  <2> HIDE DEF p, q
  <2> DEFINE d == StateDict(q)
             kids == [i \in DOMAIN p.s.kids |->
                          IF i \in DOMAIN d.kids
                          THEN [p.s.kids[i] EXCEPT !.last = d.kids[i].last, !.base = d.kids[i].base]
                          ELSE p.s.kids[i]]
  <2>2. DOMAIN p.s.kids = 1..2 /\ DOMAIN q.s.kids = 1..2
    BY <2>1
  <2>3. d.last = k /\ d.base = base /\ d.recover = q.lr /\ DOMAIN d.kids = 1..2
    BY <2>1, <2>2 DEF StateDict
  <2>4. /\ d.kids[1].last = z /\ d.kids[1].base = base
        /\ d.kids[2].last = w /\ d.kids[2].base = base
    <3>1. \A i \in 1..2 : d.kids[i].last = q.s.kids[i].last /\ d.kids[i].base = q.s.kids[i].base
      BY <2>2 DEF StateDict
    <3>2. q.s.kids[1] = Leaf(base, z) /\ q.s.kids[2] = Leaf(base, w)
      BY <2>1
    <3>3. 1 \in 1..2 /\ 2 \in 1..2
      OBVIOUS
    <3> HIDE DEF d
    <3> QED BY <3>1, <3>2, <3>3 DEF Leaf
  <2>5. p.s.kids[1] = Leaf(base, x) /\ p.s.kids[2] = Leaf(base, y)
    BY <2>1
  <2> HIDE DEF d
  <2>6. kids = q.s.kids
    <3>1. kids = [i \in 1..2 |-> [p.s.kids[i] EXCEPT !.last = d.kids[i].last, !.base = d.kids[i].base]]
      BY <2>2, <2>3
    <3>2. [p.s.kids[1] EXCEPT !.last = d.kids[1].last, !.base = d.kids[1].base] = Leaf(base, z)
      <4>1. [Leaf(base, x) EXCEPT !.last = z, !.base = base] = Leaf(base, z)
        BY <1>1
      <4> QED BY <2>4, <2>5, <4>1, Zenon
    <3>3. [p.s.kids[2] EXCEPT !.last = d.kids[2].last, !.base = d.kids[2].base] = Leaf(base, w)
      <4>1. [Leaf(base, y) EXCEPT !.last = w, !.base = base] = Leaf(base, w)
        BY <1>1
      <4> QED BY <2>4, <2>5, <4>1, Zenon
    <3>4. \A i \in 1..2 : i = 1 \/ i = 2
      OBVIOUS
    <3> HIDE DEF kids
    <3>5. kids = [i \in 1..2 |-> IF i = 1 THEN Leaf(base, z) ELSE Leaf(base, w)]
      BY <3>1, <3>2, <3>3, <3>4
    <3> QED BY <2>1, <3>5
  <2>7. LoadStateDict(p, d) = [s |-> [last |-> d.last, base |-> d.base, kids |-> kids], lr |-> d.recover]
    BY Zenon DEF LoadStateDict
  <2> HIDE DEF kids
  <2> QED BY <2>1, <2>3, <2>6, <2>7, Zenon DEF d, p, q
<1> QED BY <1>2, <1>3

(* The rates of any run of the training scheduler, replaced after any of   *)
(* its steps or never, are those the options promise.                      *)
LEMMA RatesAre ==
    ASSUME NEW c, IsRateConfig(c), NEW n \in Nat, NEW k
    PROVE  RatesWithResume(TrainingScheduler(c), <<2, 1>>, c.lr, n, k) = [i \in 0..n |-> TrainingRate(c, i)]
<1> DEFINE t == TrainingScheduler(c)
           fresh == CreateScheduler(t, <<2, 1>>, c.lr)
           Stepped(q, i) == LET p == IF i = 0 THEN fresh ELSE SchedulerStep(t, q)
                            IN  IF i = k THEN LoadStateDict(fresh, StateDict(p)) ELSE p
           Runs(f) == f = [i \in 0..n |-> Stepped(f[i - 1], i)]
           at == CHOOSE f : Runs(f)
           h == [i \in 0..n |-> After(c, i)]
<1>1. fresh = After(c, 0) /\ \A i \in Nat : SchedulerStep(t, After(c, i)) = After(c, i + 1)
  <2>1. fresh = CreateLRScheduler(c)
    BY DEF CreateLRScheduler
  <2>2. CASE c.warmup = 0
    BY <2>1, <2>2, PlainSteps
  <2>3. CASE c.warmup # 0
    BY <2>1, <2>3, WarmedCreate, WarmedStep
  <2> QED BY <2>2, <2>3
<1>2. RatesWithResume(t, <<2, 1>>, c.lr, n, k) = [i \in 0..n |-> at[i].lr]
  BY Zenon DEF RatesWithResume
<1> HIDE DEF t, fresh
<1>3. ASSUME NEW i \in 0..n, NEW q, i # 0 => q = After(c, i - 1)
      PROVE  Stepped(q, i) = After(c, i)
  <2> DEFINE p == IF i = 0 THEN fresh ELSE SchedulerStep(t, q)
  <2>1. p = After(c, i)
    <3>1. CASE i = 0
      BY <1>1, <3>1
    <3>2. CASE i # 0
      <4>1. i - 1 \in Nat /\ i - 1 + 1 = i
        BY <3>2
      <4>2. SchedulerStep(t, After(c, i - 1)) = After(c, i - 1 + 1)
        BY <1>1, <4>1
      <4> QED BY <1>3, <3>2, <4>1, <4>2
    <3> QED BY <3>1, <3>2
  <2>2. Stepped(q, i) = IF i = k THEN LoadStateDict(fresh, StateDict(p)) ELSE p
    OBVIOUS
  <2> HIDE DEF p, Stepped
  <2>3. i \in Nat
    OBVIOUS
  <2>4. LoadStateDict(After(c, 0), StateDict(After(c, i))) = After(c, i)
    BY <2>3, LoadIs
  <2> QED BY <1>1, <2>1, <2>2, <2>4
<1> HIDE DEF Stepped
<1>4. Runs(h)
  <2>1. ASSUME NEW i \in 0..n PROVE h[i] = Stepped(h[i - 1], i)
    <3>1. i # 0 => h[i - 1] = After(c, i - 1)
      <4>1. i # 0 => i - 1 \in 0..n
        OBVIOUS
      <4> QED BY <4>1
    <3> HIDE DEF h
    <3>2. Stepped(h[i - 1], i) = After(c, i)
      BY <1>3, <3>1
    <3> QED BY <3>2 DEF h
  <2>2. h = [i \in 0..n |-> h[i]]
    OBVIOUS
  <2> HIDE DEF h
  <2> QED BY <2>1, <2>2
<1> HIDE DEF h
<1>5. Runs(at)
  <2> HIDE DEF Runs
  <2> QED BY <1>4
<1> HIDE DEF at
<1>6. \A i \in 0..n : at[i] = Stepped(at[i - 1], i)
  BY <1>5
<1>7. \A i \in 0..n : at[i] = After(c, i)
  <2> DEFINE S == {i \in 0..n : at[i] = After(c, i)}
  <2>1. 0 \in S
    <3>1. 0 \in 0..n
      OBVIOUS
    <3>2. at[0] = Stepped(at[0 - 1], 0)
      BY <1>6, <3>1
    <3>3. Stepped(at[0 - 1], 0) = After(c, 0)
      BY <1>3, <3>1
    <3> QED BY <3>1, <3>2, <3>3
  <2>2. ASSUME NEW i \in 0..n, i < n, i \in S PROVE i + 1 \in S
    <3>1. i + 1 \in 0..n /\ i + 1 - 1 = i
      BY <2>2
    <3>2. at[i + 1] = Stepped(at[i], i + 1)
      BY <1>6, <3>1
    <3>3. at[i] = After(c, i + 1 - 1)
      BY <2>2, <3>1
    <3>4. Stepped(at[i], i + 1) = After(c, i + 1)
      BY <1>3, <3>1, <3>3
    <3> QED BY <3>1, <3>2, <3>4
  <2> HIDE DEF S
  <2>3. \A i \in 0..n : i \in S
    BY <2>1, <2>2, Induction
  <2> QED BY <2>3 DEF S
<1>8. \A i \in 0..n : at[i].lr = TrainingRate(c, i)
  <2>1. \A i \in 0..n : After(c, i).lr = TrainingRate(c, i)
    BY DEF After
  <2> QED BY <1>7, <2>1
<1> QED BY <1>2, <1>8 DEF t

-----------------------------------------------------------------------------
(* What is computed is the result for the input.                           *)
LocallyComputed ==
    /\ input \in LocalInputs
    /\ \/ output = [about |-> "none"]
       \/ output = [about |-> input.about, result |-> LocalResult(input)]

LEMMA IsLocallyComputed == LocalSpec => []LocallyComputed
<1>1. LocalInit => LocallyComputed
  BY DEF LocalInit, LocallyComputed
<1>2. LocallyComputed /\ [ComputeLocally]_<<input, output>> => LocallyComputed'
  BY DEF LocallyComputed, ComputeLocally
<1> QED BY <1>1, <1>2, PTL DEF LocalSpec

(* A result tells what its input was.                                      *)
LEMMA InputOf ==
    ASSUME LocallyComputed, output.about # "none"
    PROVE  /\ output = [about |-> input.about, result |-> LocalResult(input)]
           /\ output.about # "chained"
           /\ output.about = "buckets"  => input \in BucketInputs
           /\ output.about = "layout"   => input \in LayoutInputs
           /\ output.about = "schedule" => input \in ScheduleInputs
           /\ output.about = "rates"    => input \in RateInputs
<1>1. \A in \in BucketInputs : in.about = "buckets"
  BY DEF BucketInputs, BucketInputsOf
<1>2. \A in \in LayoutInputs : in.about = "layout"
  BY DEF LayoutInputs
<1>3. \A in \in ScheduleInputs : in.about = "schedule"
  BY DEF ScheduleInputs
<1>4. \A in \in RateInputs : in.about = "rates"
  BY DEF RateInputs
<1>5. output = [about |-> input.about, result |-> LocalResult(input)] /\ output.about = input.about
  BY DEF LocallyComputed
<1>6. input \in BucketInputs \/ input \in LayoutInputs \/ input \in ScheduleInputs \/ input \in RateInputs
  BY DEF LocallyComputed, LocalInputs
<1> QED BY <1>1, <1>2, <1>3, <1>4, <1>5, <1>6

LEMMA LayoutComputed ==
    ASSUME LocallyComputed, output.about = "layout"
    PROVE  \E n \in Nat : /\ input.numels \in [1..n -> LayoutNumels] /\ input.world \in Worlds
                         /\ output.result = BuildBuckets(input.numels, input.world, input.size)
<1>1. output = [about |-> input.about, result |-> LocalResult(input)] /\ input.about = "layout"
  BY InputOf
<1>2. input \in LayoutInputs
  BY InputOf
<1>3. PICK n \in 0..MaxParams :
         input \in {[about |-> "layout", numels |-> z, world |-> w, size |-> b] :
                      z \in [1..n -> LayoutNumels], w \in Worlds, b \in BucketSizes}
  BY <1>2 DEF LayoutInputs
<1>4. n \in Nat /\ input.numels \in [1..n -> LayoutNumels] /\ input.world \in Worlds
  BY <1>3
<1>5. LocalResult(input) = BuildBuckets(input.numels, input.world, input.size)
  BY <1>1 DEF LocalResult
<1> QED BY <1>1, <1>4, <1>5

LEMMA BucketsComputed ==
    ASSUME LocallyComputed, output.about = "buckets"
    PROVE  \E n, m \in Nat :
              /\ input.key \in [1..n -> Keys] /\ input.bytes \in [1..n -> TensorSizes]
              /\ input.limits \in [1..2 -> BucketCaps]
              /\ input.order \in [1..m -> 1..n] /\ \A i, j \in 1..m : input.order[i] = input.order[j] => i = j
              /\ output.result = Assigned(input)
<1>1. output = [about |-> input.about, result |-> LocalResult(input)] /\ input.about = "buckets"
  BY InputOf
<1>2. input \in BucketInputs
  BY InputOf
<1>3. PICK n \in 1..MaxTensors : input \in BucketInputsOf(n)
  BY <1>2 DEF BucketInputs
<1>4. /\ input.key \in [1..n -> Keys] /\ input.bytes \in [1..n -> TensorSizes]
      /\ input.limits \in [1..2 -> BucketCaps] /\ input.order \in RecordedOrders(n)
  BY <1>3 DEF BucketInputsOf
<1>5. PICK m \in 1..n : /\ input.order \in [1..m -> 1..n]
                       /\ \A i, j \in 1..m : input.order[i] = input.order[j] => i = j
  BY <1>4 DEF RecordedOrders
<1>6. n \in Nat /\ m \in Nat
  OBVIOUS
<1>7. LocalResult(input) = Assigned(input)
  BY <1>1 DEF LocalResult
<1> QED BY <1>1, <1>4, <1>5, <1>6, <1>7

LEMMA ScheduleComputed ==
    ASSUME LocallyComputed, output.about = "schedule"
    PROVE  /\ input.n \in Nat \ {0} /\ input.stages \in Nat \ {0} /\ input.vpp \in Nat \ {0}
           /\ output.result = Scheduled(input)
<1>1. output = [about |-> input.about, result |-> LocalResult(input)] /\ input.about = "schedule"
  BY InputOf
<1>2. input \in ScheduleInputs
  BY InputOf
<1>3. input.n \in 1..MaxMicroBatches /\ input.stages \in 1..MaxStages /\ input.vpp \in 1..MaxVpp
  BY <1>2 DEF ScheduleInputs
<1>4. LocalResult(input) = Scheduled(input)
  BY <1>1 DEF LocalResult
<1> QED BY <1>1, <1>3, <1>4, DivisionAssumption

LEMMA RatesComputed ==
    ASSUME LocallyComputed, output.about = "rates"
    PROVE  IsRateConfig(input.config) /\ output.result = Rated(input)
<1>1. output = [about |-> input.about, result |-> LocalResult(input)] /\ input.about = "rates"
  BY InputOf
<1>2. input \in RateInputs
  BY InputOf
<1>3. input.config \in RateConfigs
  BY <1>2 DEF RateInputs
<1>4. LocalResult(input) = Rated(input)
  BY <1>1 DEF LocalResult
<1> QED BY <1>1, <1>3, <1>4, RatesAssumption

(* BucketsSound for every number and size of tensors, every assignment of  *)
(* keys, all caps and whatever the first round recorded.                   *)
THEOREM BucketsAreSound == LocalSpec => []BucketsSound
<1>1. ASSUME LocallyComputed PROVE BucketsSound
  <2> SUFFICES ASSUME output.about = "buckets"
               PROVE  /\ IsPartition(output.result.initial, Len(input.key))
                      /\ IsPartition(output.result.rebuilt, Len(input.key))
                      /\ AreCapped(output.result.initial, input.key, input.bytes, input.limits)
    BY DEF BucketsSound
  <2>1. PICK n \in Nat, m \in Nat :
              /\ input.key \in [1..n -> Keys] /\ input.bytes \in [1..n -> TensorSizes]
              /\ input.limits \in [1..2 -> BucketCaps]
              /\ input.order \in [1..m -> 1..n] /\ \A i, j \in 1..m : input.order[i] = input.order[j] => i = j
              /\ output.result = Assigned(input)
    BY <1>1, BucketsComputed
  <2>2. input.bytes \in [1..n -> Nat] /\ input.limits \in [1..2 -> Nat]
    BY <2>1, DivisionAssumption
  <2>3. Len(input.key) = n
    BY <2>1
  <2>4. input.order \in Seq(1..n) /\ Distinct(input.order)
    <3>1. input.order \in Seq(1..n)
      BY <2>1
    <3>2. DOMAIN input.order = 1..m
      BY <2>1
    <3> QED BY <2>1, <3>1, <3>2 DEF Distinct
  <2>5. /\ output.result.initial = InitialAssignment(input.key, input.bytes, input.limits)
        /\ output.result.rebuilt = RebuiltAssignment(input.key, input.bytes, input.limits, input.order)
    BY <2>1 DEF Assigned
  <2>6. /\ IsPartition(InitialAssignment(input.key, input.bytes, input.limits), n)
        /\ AreCapped(InitialAssignment(input.key, input.bytes, input.limits), input.key, input.bytes, input.limits)
    BY <2>1, <2>2, InitialIs
  <2>7. IsPartition(RebuiltAssignment(input.key, input.bytes, input.limits, input.order), n)
    BY <2>1, <2>2, <2>4, RebuiltIs
  <2> QED BY <2>3, <2>5, <2>6, <2>7
<1> QED BY <1>1, IsLocallyComputed, PTL

(* ElementsOwnedOnce for every number of parameters, of ranks and every    *)
(* bucket size, when each parameter fills whole alignments: then the       *)
(* aligned place of BuildBuckets is where ParamAndGradBucket expects the   *)
(* parameter, and each element of it is updated by exactly one rank.       *)
THEOREM EveryElementOwnedOnce ==
    ASSUME \A z \in LayoutNumels : z % ParamAlign = 0
    PROVE  LocalSpec => []ElementsOwnedOnce
<1>1. ASSUME LocallyComputed PROVE ElementsOwnedOnce
  <2> SUFFICES ASSUME output.about = "layout"
               PROVE  IsSharding(output.result, input.numels, input.world)
    BY DEF ElementsOwnedOnce
  <2>1. PICK n \in Nat : /\ input.numels \in [1..n -> LayoutNumels] /\ input.world \in Worlds
                         /\ output.result = BuildBuckets(input.numels, input.world, input.size)
    BY <1>1, LayoutComputed
  <2>2. input.numels \in [1..n -> Nat] /\ Len(input.numels) = n /\ input.world \in Nat \ {0}
    <3>1. input.numels \in [1..n -> Nat]
      BY <2>1, DivisionAssumption
    <3>2. Len(input.numels) = n
      BY <2>1
    <3>3. input.world \in Nat \ {0}
      BY <2>1, DivisionAssumption
    <3> QED BY <3>1, <3>2, <3>3
  <2>3. \A p \in 1..n : Multiple(input.numels[p], ParamAlign)
    BY <2>1, <2>2, AlignAssumption, MultipleIs
  <2>4. /\ LayoutInv(output.result, input.numels, input.world, 1..n)
        /\ output.result.open = <<>>
    BY <2>1, <2>2, <2>3, LayoutIs
  <2> QED BY <2>2, <2>4, ShardingIs
<1> QED BY <1>1, IsLocallyComputed, PTL

(* SchedulesSound for every number of micro-batches, of stages and of      *)
(* chunks per stage, GPipe and 1F1B: every chunk of every micro-batch runs *)
(* forward and backward exactly once, and no task is listed before the one *)
(* whose output it needs, although in 1F1B both may have the same step.    *)
THEOREM SchedulesAreSound == LocalSpec => []SchedulesSound
<1>1. ASSUME LocallyComputed PROVE SchedulesSound
  <2> SUFFICES ASSUME output.about = "schedule"
               PROVE  IsSchedule(output.result, input.n, input.stages * input.vpp)
    BY DEF SchedulesSound
  <2>1. /\ input.n \in Nat \ {0} /\ input.stages \in Nat \ {0} /\ input.vpp \in Nat \ {0}
        /\ output.result = Scheduled(input)
    BY <1>1, ScheduleComputed
  <2>2. /\ IsSchedule(GPipeSchedule(input.n, input.stages, input.vpp), input.n, input.stages * input.vpp)
        /\ IsSchedule(OneForwardOneBackwardSchedule(input.n, input.stages, input.vpp),
                      input.n, input.stages * input.vpp)
    BY <2>1, GPipeScheduleIs, OneForwardOneBackwardScheduleIs
  <2> QED BY <2>1, <2>2, Zenon DEF Scheduled
<1> QED BY <1>1, IsLocallyComputed, PTL


(* RatesResume for every style of decay, every warm-up, decay, rate and    *)
(* end that CreateLRScheduler accepts, every number of steps and every     *)
(* step after which the process is replaced: the scheduler that loads the  *)
(* saved state is where the old one was, and its rates go on.  The linear  *)
(* decay is to fall by a whole number, as rates are whole numbers here.    *)
THEOREM RatesAreExact == LocalSpec => []RatesResume
<1>1. ASSUME LocallyComputed PROVE RatesResume
  <2> SUFFICES ASSUME output.about = "rates", NEW i \in 0..RateSteps
               PROVE  output.result[i] = TrainingRate(input.config, i)
    <3>1. output.about \in {"rates", "chained"} => output.about = "rates" /\ input.about = "rates"
      BY <1>1, InputOf
    <3> QED BY <3>1 DEF RatesResume, PromisedRate
  <2>1. IsRateConfig(input.config) /\ output.result = Rated(input)
    BY <1>1, RatesComputed
  <2>2. Rated(input) = [j \in 0..RateSteps |-> TrainingRate(input.config, j)]
    BY <2>1, RatesAssumption, RatesAre DEF Rated
  <2> QED BY <2>1, <2>2
<1> QED BY <1>1, IsLocallyComputed, PTL
=============================================================================
