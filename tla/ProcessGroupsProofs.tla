------------------------ MODULE ProcessGroupsProofs ------------------------
(***************************************************************************)
(* Proofs about ProcessGroups, for every number of nodes, processes and    *)
(* threads, every layout that divides the world, any number of processes   *)
(* killed, and any files earlier runs left.                                *)
(*                                                                         *)
(* First those about RankLayout, for every size of the three axes: ranks   *)
(* and coordinates determine each other, and the groups along an axis      *)
(* partition the ranks.                                                    *)
(***************************************************************************)
EXTENDS ProcessGroups, TLAPS

Sizes == [Axes -> Nat \ {0}]
WorldSize(sizes) == sizes["TP"] * sizes["DP"] * sizes["PP"]
Coords(sizes) == {c \in [Axes -> Nat] : \A axis \in Axes : c[axis] < sizes[axis]}

-----------------------------------------------------------------------------
(* Division with remainder by n: there is one way to write a number.       *)
LEMMA Division ==
    ASSUME NEW n \in Nat \ {0}, NEW r \in Nat
    PROVE  r = (r \div n) * n + (r % n) /\ r % n \in 0..n-1 /\ r \div n \in Nat
OBVIOUS

LEMMA Digits ==
    ASSUME NEW n \in Nat \ {0}, NEW q \in Nat, NEW a \in 0..n-1
    PROVE  (q * n + a) \div n = q /\ (q * n + a) % n = a
OBVIOUS

TwoDigitsOf(n, q, a, v) == n \in Nat \ {0} /\ q \in Nat /\ a \in 0..n-1 /\ v = q * n + a

LEMMA Unique ==
    ASSUME NEW n, NEW q, NEW p, NEW a, NEW b, NEW v,
           TwoDigitsOf(n, q, a, v), TwoDigitsOf(n, p, b, v)
    PROVE  q = p /\ a = b
BY DEF TwoDigitsOf

(* The two digits d and t below p, together smaller than the product.      *)
LEMMA TwoDigits ==
    ASSUME NEW m \in Nat \ {0}, NEW n \in Nat \ {0}, NEW d \in 0..m-1, NEW t \in 0..n-1
    PROVE  d * n + t \in 0..n * m - 1
<1>1. m - 1 - d \in Nat /\ n * m = (m - 1 - d) * n + d * n + n
  OBVIOUS
<1>2. (m - 1 - d) * n \in Nat /\ d * n \in Nat
  BY <1>1
<1> QED BY <1>1, <1>2

(* A rank as its three digits, and back.                                   *)
Bases(T, D, P) == T \in Nat \ {0} /\ D \in Nat \ {0} /\ P \in Nat \ {0}
Written(T, D, P, t, d, p, r) ==
    t \in 0..T-1 /\ d \in 0..D-1 /\ p \in 0..P-1 /\ r = d * T + t + p * (T * D)

LEMMA ThreeDigits ==
    ASSUME NEW T, NEW D, NEW P, NEW t, NEW d, NEW p, NEW r,
           Bases(T, D, P), Written(T, D, P, t, d, p, r)
    PROVE  /\ r \in 0..T * D * P - 1
           /\ (r \div 1) % T = t
           /\ (r \div T) % D = d
           /\ (r \div (T * D)) % P = p
<1> USE DEF Bases, Written
<1>1. d * T + t \in 0..T * D - 1 /\ T * D \in Nat \ {0}
  BY TwoDigits
<1>2. p * (T * D) + (d * T + t) \in 0..(T * D) * P - 1
  BY <1>1, TwoDigits
<1>3. r = p * (T * D) + (d * T + t)
  BY <1>1
<1>4. r \div (T * D) = p
  BY <1>1, <1>3, Digits
<1>5. r = (p * D + d) * T + t /\ p * D + d \in Nat
  OBVIOUS
<1>6. r \div T = p * D + d /\ r % T = t
  BY <1>5, Digits
<1>7. (p * D + d) % D = d /\ p % P = p
  BY Digits
<1>8. r \div 1 = r
  BY <1>2, <1>3
<1>9. (T * D) * P = T * D * P
  OBVIOUS
<1>10. r \in 0..T * D * P - 1
  BY <1>2, <1>3, <1>9
<1> QED BY <1>4, <1>6, <1>7, <1>8, <1>10

LEMMA DigitsOfRank ==
    ASSUME NEW T, NEW D, NEW P, NEW r \in 0..T * D * P - 1, Bases(T, D, P)
    PROVE  Written(T, D, P, (r \div 1) % T, (r \div T) % D, (r \div (T * D)) % P, r)
<1> USE DEF Bases
<1>1. r \in Nat /\ r \div 1 = r /\ T * D \in Nat \ {0}
  OBVIOUS
<1>2. PICK q \in Nat, t \in 0..T-1 : r = q * T + t /\ q = r \div T /\ t = r % T
  BY <1>1, Division
<1>3. PICK p \in Nat, d \in 0..D-1 : q = p * D + d /\ d = q % D
  BY Division
<1>4. r = p * (T * D) + (d * T + t)
  <2>1. (p * D + d) * T = p * (T * D) + d * T
    OBVIOUS
  <2>2. p * (T * D) \in Nat /\ d * T \in Nat
    OBVIOUS
  <2>3. r = (p * D + d) * T + t
    BY <1>2, <1>3, Zenon
  <2> QED BY <2>1, <2>2, <2>3
<1>5. d * T + t \in 0..T * D - 1
  BY TwoDigits
<1>6. r \div (T * D) = p
  BY <1>1, <1>4, <1>5, Digits
<1>7. p < P
  <2>1. SUFFICES ASSUME p >= P PROVE FALSE
    OBVIOUS
  <2>2. p - P \in Nat /\ p * (T * D) = (p - P) * (T * D) + P * (T * D)
    BY <2>1, <1>1
  <2>3. (p - P) * (T * D) \in Nat /\ P * (T * D) = T * D * P
    BY <2>2, <1>1
  <2> QED BY <1>4, <1>5, <2>2, <2>3
<1>8. p % P = p
  BY <1>7
<1>9. r = d * T + t + p * (T * D)
  <2>1. p * (T * D) \in Nat /\ d * T \in Nat
    OBVIOUS
  <2> QED BY <1>4, <2>1
<1>10. (r \div 1) % T = t /\ (r \div T) % D = d /\ (r \div (T * D)) % P = p
  BY <1>1, <1>2, <1>3, <1>6, <1>8
<1>11. Written(T, D, P, t, d, p, r)
  BY <1>7, <1>9 DEF Written
<1> QED BY <1>10, <1>11, Zenon

-----------------------------------------------------------------------------
(* The stride of every axis and the digit it gives.                        *)
LEMMA LayoutValues ==
    ASSUME NEW sizes \in Sizes
    PROVE  /\ sizes["TP"] \in Nat \ {0} /\ sizes["DP"] \in Nat \ {0} /\ sizes["PP"] \in Nat \ {0}
           /\ \A c : RankOf(sizes, c) = c["DP"] * sizes["TP"] + c["TP"] * 1
                                          + c["PP"] * (sizes["TP"] * sizes["DP"])
           /\ \A r : CoordOf(sizes, r) =
                 [axis \in Axes |-> CASE axis = "TP" -> (r \div 1) % sizes["TP"]
                                      [] axis = "PP" -> (r \div (sizes["TP"] * sizes["DP"])) % sizes["PP"]
                                      [] axis = "DP" -> (r \div sizes["TP"]) % sizes["DP"]]
<1>1. /\ LayoutStrides(sizes)["TP"] = 1 /\ LayoutStrides(sizes)["DP"] = sizes["TP"]
      /\ LayoutStrides(sizes)["PP"] = sizes["TP"] * sizes["DP"]
  BY DEF LayoutStrides, Axes
<1>2. \A r : CoordOf(sizes, r) =
                 [axis \in Axes |-> CASE axis = "TP" -> (r \div 1) % sizes["TP"]
                                      [] axis = "PP" -> (r \div (sizes["TP"] * sizes["DP"])) % sizes["PP"]
                                      [] axis = "DP" -> (r \div sizes["TP"]) % sizes["DP"]]
  BY <1>1 DEF CoordOf, Axes
<1>3. sizes["TP"] \in Nat \ {0} /\ sizes["DP"] \in Nat \ {0} /\ sizes["PP"] \in Nat \ {0}
  BY DEF Sizes, Axes
<1> QED BY <1>1, <1>2, <1>3 DEF RankOf

(* Layout::RankOf and Layout::CoordOf are inverse to each other.           *)
THEOREM RanksAreCoords ==
    ASSUME NEW sizes \in Sizes
    PROVE  /\ \A c \in Coords(sizes) :
                 RankOf(sizes, c) \in 0..WorldSize(sizes)-1 /\ CoordOf(sizes, RankOf(sizes, c)) = c
           /\ \A r \in 0..WorldSize(sizes)-1 :
                 CoordOf(sizes, r) \in Coords(sizes) /\ RankOf(sizes, CoordOf(sizes, r)) = r
<1> DEFINE T == sizes["TP"]
           D == sizes["DP"]
           P == sizes["PP"]
<1>1. T \in Nat \ {0} /\ D \in Nat \ {0} /\ P \in Nat \ {0}
  BY LayoutValues
<1>2. ASSUME NEW c \in Coords(sizes)
      PROVE  RankOf(sizes, c) \in 0..WorldSize(sizes)-1 /\ CoordOf(sizes, RankOf(sizes, c)) = c
  <2>1. c["TP"] \in 0..T-1 /\ c["DP"] \in 0..D-1 /\ c["PP"] \in 0..P-1
    BY <1>1 DEF Coords, Axes
  <2>2. RankOf(sizes, c) = c["DP"] * T + c["TP"] + c["PP"] * (T * D)
    BY <1>1, <2>1, LayoutValues
  <2> DEFINE r == RankOf(sizes, c)
  <2> HIDE DEF T, D, P, r
  <2>3. /\ r \in 0..T * D * P - 1 /\ (r \div 1) % T = c["TP"]
        /\ (r \div T) % D = c["DP"] /\ (r \div (T * D)) % P = c["PP"]
    <3>1. Written(T, D, P, c["TP"], c["DP"], c["PP"], r)
      BY <2>1, <2>2 DEF r, Written
    <3>2. Bases(T, D, P)
      BY <1>1 DEF Bases
    <3> QED BY <3>1, <3>2, ThreeDigits
  <2>4. /\ CoordOf(sizes, r)["TP"] = c["TP"] /\ CoordOf(sizes, r)["DP"] = c["DP"]
        /\ CoordOf(sizes, r)["PP"] = c["PP"]
    BY <2>3, LayoutValues DEF T, D, P, Axes
  <2>5. CoordOf(sizes, r) = [axis \in Axes |-> c[axis]]
    BY <2>4, LayoutValues DEF Axes, CoordOf
  <2> QED BY <2>3, <2>5 DEF T, D, P, r, WorldSize, Coords
<1>3. ASSUME NEW r \in 0..WorldSize(sizes)-1
      PROVE  CoordOf(sizes, r) \in Coords(sizes) /\ RankOf(sizes, CoordOf(sizes, r)) = r
  <2>1. r \in 0..T * D * P - 1
    BY DEF WorldSize
  <2> DEFINE c == CoordOf(sizes, r)
  <2>2. /\ c["TP"] = (r \div 1) % T /\ c["DP"] = (r \div T) % D
        /\ c["PP"] = (r \div (T * D)) % P
    BY LayoutValues DEF Axes
  <2> HIDE DEF c, T, D, P
  <2>3. /\ c["TP"] \in 0..T-1 /\ c["DP"] \in 0..D-1 /\ c["PP"] \in 0..P-1
        /\ r = c["DP"] * T + c["TP"] + c["PP"] * (T * D)
    <3>1. Bases(T, D, P)
      BY <1>1 DEF Bases
    <3>2. Written(T, D, P, c["TP"], c["DP"], c["PP"], r)
      BY <2>1, <2>2, <3>1, DigitsOfRank, Zenon
    <3> QED BY <3>2 DEF Written
  <2>4. c \in Coords(sizes)
    <3>1. c \in [Axes -> Nat]
      BY <1>1, <2>3 DEF c, CoordOf, Axes
    <3> QED BY <1>1, <2>3, <3>1 DEF Coords, Axes, T, D, P
  <2>5. RankOf(sizes, c) = r
    BY <2>3, LayoutValues DEF T, D, P
  <2> QED BY <2>4, <2>5 DEF c
<1> QED BY <1>2, <1>3

-----------------------------------------------------------------------------
(* Coordinates that differ along the axis only give the same group, and    *)
(* the group's number determines the other coordinates.                    *)
LEMMA SameRanks ==
    ASSUME NEW sizes \in Sizes, NEW axis \in Axes, NEW c \in Coords(sizes), NEW e \in Coords(sizes),
           \A other \in Axes \ {axis} : c[other] = e[other]
    PROVE  /\ GroupId(sizes, axis, c) = GroupId(sizes, axis, e)
           /\ GroupRanks(sizes, axis, c) = GroupRanks(sizes, axis, e)
<1>1. \A n : [c EXCEPT ![axis] = n] = [e EXCEPT ![axis] = n]
  BY DEF Coords
<1>2. GroupRanks(sizes, axis, c) = GroupRanks(sizes, axis, e)
  BY <1>1, Zenon DEF GroupRanks
<1>3. GroupId(sizes, axis, c) = GroupId(sizes, axis, e)
  BY DEF GroupId, Axes
<1> QED BY <1>2, <1>3

LEMMA IdDetermines ==
    ASSUME NEW sizes \in Sizes, NEW axis \in Axes, NEW c \in Coords(sizes), NEW e \in Coords(sizes),
           GroupId(sizes, axis, c) = GroupId(sizes, axis, e)
    PROVE  \A other \in Axes \ {axis} : c[other] = e[other]
<1>1. \A a \in Axes : /\ sizes[a] \in Nat \ {0} /\ c[a] \in 0..sizes[a]-1 /\ e[a] \in 0..sizes[a]-1
                      /\ c[a] \in Nat /\ e[a] \in Nat
  BY DEF Coords, Sizes
<1>2. CASE axis = "TP"
  <2>1. /\ TwoDigitsOf(sizes["PP"], c["DP"], c["PP"], GroupId(sizes, axis, c))
        /\ TwoDigitsOf(sizes["PP"], e["DP"], e["PP"], GroupId(sizes, axis, c))
    BY <1>1, <1>2 DEF GroupId, TwoDigitsOf, Axes
  <2>2. c["DP"] = e["DP"] /\ c["PP"] = e["PP"]
    BY <2>1, Unique
  <2> QED BY <1>2, <2>2 DEF Axes
<1>3. CASE axis = "DP"
  <2>1. /\ TwoDigitsOf(sizes["PP"], c["TP"], c["PP"], GroupId(sizes, axis, c))
        /\ TwoDigitsOf(sizes["PP"], e["TP"], e["PP"], GroupId(sizes, axis, c))
    BY <1>1, <1>3 DEF GroupId, TwoDigitsOf, Axes
  <2>2. c["TP"] = e["TP"] /\ c["PP"] = e["PP"]
    BY <2>1, Unique
  <2> QED BY <1>3, <2>2 DEF Axes
<1>4. CASE axis = "PP"
  <2>1. /\ TwoDigitsOf(sizes["DP"], c["TP"], c["DP"], GroupId(sizes, axis, c))
        /\ TwoDigitsOf(sizes["DP"], e["TP"], e["DP"], GroupId(sizes, axis, c))
    BY <1>1, <1>4 DEF GroupId, TwoDigitsOf, Axes
  <2>2. c["TP"] = e["TP"] /\ c["DP"] = e["DP"]
    BY <2>1, Unique
  <2> QED BY <1>4, <2>2 DEF Axes
<1> QED BY <1>2, <1>3, <1>4 DEF Axes

(* Layout::GroupId and GroupRanks: a rank is in its group along the axis,  *)
(* every rank of that group finds the same group under the same number,    *)
(* and a group of the same number is the same group.                       *)
THEOREM GroupsPartition ==
    ASSUME NEW sizes \in Sizes, NEW axis \in Axes, NEW r \in 0..WorldSize(sizes)-1
    PROVE  LET Group(q) == GroupRanks(sizes, axis, CoordOf(sizes, q))
               Id(q)    == GroupId(sizes, axis, CoordOf(sizes, q))
           IN  /\ Group(r) \in Seq(0..WorldSize(sizes)-1) /\ Len(Group(r)) = sizes[axis]
               /\ r \in ToSet(Group(r))
               /\ \A q \in ToSet(Group(r)) : Id(q) = Id(r) /\ Group(q) = Group(r)
               /\ \A q \in 0..WorldSize(sizes)-1 : Id(q) = Id(r) => Group(q) = Group(r)
<1> DEFINE Group(q) == GroupRanks(sizes, axis, CoordOf(sizes, q))
           Id(q)    == GroupId(sizes, axis, CoordOf(sizes, q))
           World    == 0..WorldSize(sizes)-1
           Moved(q, n) == [CoordOf(sizes, q) EXCEPT ![axis] = n]
<1>1. \A q \in World : CoordOf(sizes, q) \in Coords(sizes) /\ RankOf(sizes, CoordOf(sizes, q)) = q
  BY RanksAreCoords
<1>2. sizes[axis] \in Nat \ {0}
  BY DEF Sizes
<1>3. ASSUME NEW i \in 1..sizes[axis]
      PROVE  /\ Moved(r, i - 1) \in Coords(sizes)
             /\ RankOf(sizes, Moved(r, i - 1)) \in World
             /\ CoordOf(sizes, RankOf(sizes, Moved(r, i - 1))) = Moved(r, i - 1)
  <2>1. i - 1 \in Nat /\ i - 1 < sizes[axis]
    BY <1>2
  <2>2. Moved(r, i - 1) \in Coords(sizes)
    BY <1>1, <2>1 DEF Coords
  <2> QED BY <2>2, RanksAreCoords
<1>4. Group(r) = [i \in 1..sizes[axis] |-> RankOf(sizes, Moved(r, i - 1))]
  BY DEF GroupRanks
<1>5. Group(r) \in Seq(World) /\ Len(Group(r)) = sizes[axis]
  <2> DEFINE n == sizes[axis]
             F(i) == RankOf(sizes, Moved(r, i - 1))
  <2>1. \A i \in 1..n : F(i) \in World
    BY <1>3
  <2>2. Group(r) = [i \in 1..n |-> F(i)] /\ n \in Nat
    BY <1>2, <1>4
  <2> HIDE DEF F, n, Group, World
  <2>3. [i \in 1..n |-> F(i)] \in Seq(World) /\ Len([i \in 1..n |-> F(i)]) = n
    BY <2>1, <2>2
  <2> QED BY <2>2, <2>3 DEF n
<1>6. r \in ToSet(Group(r))
  <2> DEFINE i == CoordOf(sizes, r)[axis] + 1
  <2>1. i \in 1..sizes[axis] /\ i - 1 = CoordOf(sizes, r)[axis]
    BY <1>1, <1>2 DEF Coords
  <2>2. Moved(r, i - 1) = CoordOf(sizes, r)
    BY <1>1, <2>1 DEF Coords
  <2>3. Group(r)[i] = r
    BY <1>1, <1>4, <2>1, <2>2
  <2>4. i \in DOMAIN Group(r)
    BY <1>4, <2>1
  <2> HIDE DEF i, Group
  <2> QED BY <2>3, <2>4 DEF ToSet
<1>7. ASSUME NEW q \in ToSet(Group(r)) PROVE Id(q) = Id(r) /\ Group(q) = Group(r)
  <2>1. PICK i \in 1..sizes[axis] : q = RankOf(sizes, Moved(r, i - 1))
    BY <1>4 DEF ToSet
  <2>2. CoordOf(sizes, q) = Moved(r, i - 1) /\ q \in World
    BY <1>3, <2>1
  <2>3. \A other \in Axes \ {axis} : CoordOf(sizes, q)[other] = CoordOf(sizes, r)[other]
    BY <1>1, <2>2 DEF Coords
  <2> QED BY <1>1, <2>2, <2>3, SameRanks
<1>8. ASSUME NEW q \in World, Id(q) = Id(r) PROVE Group(q) = Group(r)
  BY <1>1, <1>8, IdDetermines, SameRanks
<1> QED BY <1>5, <1>6, <1>7, <1>8

-----------------------------------------------------------------------------
(* The table of groups.                                                    *)
LEMMA JoinedSets ==
    ASSUME NEW X, NEW s \in Seq(X), NEW t \in Seq(X)
    PROVE  s \o t \in Seq(X) /\ ToSet(s \o t) = ToSet(s) \cup ToSet(t)
<1>1. /\ s \o t \in Seq(X) /\ Len(s) \in Nat /\ Len(t) \in Nat /\ Len(s \o t) = Len(s) + Len(t)
      /\ DOMAIN s = 1..Len(s) /\ DOMAIN t = 1..Len(t) /\ DOMAIN (s \o t) = 1..Len(s \o t)
      /\ \A i \in 1..Len(s) : (s \o t)[i] = s[i]
      /\ \A i \in 1..Len(t) : (s \o t)[Len(s) + i] = t[i]
  OBVIOUS
<1> DEFINE st == s \o t
<1> HIDE DEF st
<1>2. \A i \in DOMAIN st : st[i] \in ToSet(s) \cup ToSet(t)
  <2> SUFFICES ASSUME NEW i \in DOMAIN st PROVE st[i] \in ToSet(s) \cup ToSet(t)
    OBVIOUS
  <2>1. CASE i <= Len(s)
    BY <2>1, <1>1 DEF ToSet, st
  <2>2. CASE i > Len(s)
    <3>1. i - Len(s) \in 1..Len(t) /\ Len(s) + (i - Len(s)) = i
      BY <2>2, <1>1 DEF st
    <3>2. st[i] = t[i - Len(s)]
      BY <1>1, <3>1 DEF st
    <3> QED BY <1>1, <3>1, <3>2 DEF ToSet
  <2> QED BY <1>1, <2>1, <2>2 DEF st
<1>3. \A i \in DOMAIN s : s[i] \in ToSet(st)
  <2>1. \A i \in DOMAIN s : i \in DOMAIN st /\ st[i] = s[i]
    BY <1>1 DEF st
  <2> QED BY <2>1 DEF ToSet
<1>4. \A i \in DOMAIN t : t[i] \in ToSet(st)
  <2>1. \A i \in DOMAIN t : Len(s) + i \in DOMAIN st /\ st[Len(s) + i] = t[i]
    BY <1>1 DEF st
  <2> QED BY <2>1 DEF ToSet
<1>5. ToSet(st) = ToSet(s) \cup ToSet(t)
  BY <1>2, <1>3, <1>4 DEF ToSet
<1> QED BY <1>1, <1>5 DEF st

WorldOf(c) == c.nodes * c.procs * c.threads
SizesOf(c) == LayoutSizes(WorldOf(c), c.tp, c.pp)
Whole(c)   == [name |-> Default, ranks |-> [i \in 1..WorldOf(c) |-> i - 1]]
Along(c, r, axis) ==
    [name  |-> [axis |-> axis, id |-> GroupId(SizesOf(c), axis, CoordOf(SizesOf(c), r))],
     ranks |-> GroupRanks(SizesOf(c), axis, CoordOf(SizesOf(c), r))]
LongAxes(c) == {axis \in Axes : SizesOf(c)[axis] > 1}

(* GlobalEnv::Init: what tensor and pipeline parallelism leave is whole.   *)
LEMMA SizesFitWorld ==
    ASSUME NEW c \in Configs
    PROVE  /\ c.nodes \in Nat \ {0} /\ c.procs \in Nat \ {0} /\ c.threads \in Nat \ {0}
           /\ SizesOf(c) \in Sizes /\ WorldSize(SizesOf(c)) = WorldOf(c) /\ WorldOf(c) \in Nat \ {0}
<1> DEFINE w == WorldOf(c)
           tp == c.tp
           pp == c.pp
<1>1. /\ c.nodes \in Nat \ {0} /\ c.procs \in Nat \ {0} /\ c.threads \in Nat \ {0}
      /\ tp \in Nat \ {0} /\ pp \in Nat \ {0} /\ w % (tp * pp) = 0
  BY ProcessGroupsAssumption DEF WorldOf
<1>2. w \in Nat \ {0}
  BY <1>1 DEF WorldOf
<1> HIDE DEF w, tp, pp
<1>3. tp * pp \in Nat \ {0}
  BY <1>1
<1>4. PICK k \in Nat : w = k * (tp * pp)
  <2>1. w = (w \div (tp * pp)) * (tp * pp) + 0 /\ w \div (tp * pp) \in Nat
    BY <1>1, <1>2, <1>3, Division
  <2> QED BY <2>1, <1>3
<1>5. k * (tp * pp) = (k * pp) * tp /\ k * pp \in Nat
  BY <1>1
<1>6. w \div tp = k * pp
  <2>1. w = (k * pp) * tp + 0
    BY <1>1, <1>4, <1>5
  <2> HIDE DEF w
  <2> QED BY <1>1, <1>5, <2>1, Digits
<1>7. (k * pp) \div pp = k
  <2>1. k * pp = k * pp + 0
    BY <1>5
  <2> QED BY <1>1, <2>1, Digits
<1>8. k \in Nat \ {0}
  BY <1>1, <1>2, <1>3, <1>4
<1>9. SizesOf(c) = [axis \in Axes |-> CASE axis = "TP" -> tp [] axis = "PP" -> pp
                                        [] axis = "DP" -> k]
  <2>1. (w \div tp) \div pp = k
    BY <1>6, <1>7, Zenon
  <2>2. SizesOf(c) = [axis \in Axes |-> CASE axis = "TP" -> tp [] axis = "PP" -> pp
                                          [] axis = "DP" -> (w \div tp) \div pp]
    BY DEF SizesOf, LayoutSizes, w, tp, pp
  <2> QED BY <2>1, <2>2
<1>10. SizesOf(c) \in Sizes
  BY <1>1, <1>8, <1>9 DEF Sizes, Axes
<1>11. WorldSize(SizesOf(c)) = tp * k * pp
  BY <1>9 DEF WorldSize, Axes
<1>12. tp * k * pp = w
  BY <1>1, <1>4, <1>8
<1> QED BY <1>1, <1>2, <1>10, <1>11, <1>12 DEF w

(* What a rank asks the factory for: the group of all ranks, and the group *)
(* along every axis longer than one.                                       *)
LEMMA TableOf ==
    ASSUME NEW c \in Configs, NEW r \in 0..WorldOf(c)-1
    PROVE  /\ DOMAIN GroupTable[c][r] = 1..Len(GroupTable[c][r])
           /\ Len(GroupTable[c][r]) \in Nat \ {0}
           /\ ToSet(GroupTable[c][r]) = {Whole(c)} \cup {Along(c, r, axis) : axis \in LongAxes(c)}
<1> DEFINE sizes == SizesOf(c)
           asked(axis) == IF sizes[axis] > 1 THEN <<Along(c, r, axis)>> ELSE <<>>
           X == {Whole(c)} \cup {Along(c, r, axis) : axis \in Axes}
           s0 == <<Whole(c)>>
           s1 == s0 \o asked("DP")
           s2 == s1 \o asked("TP")
           s3 == s2 \o asked("PP")
<1>1. GroupTable[c][r] = s3
  BY DEF GroupTable, GroupsIn, WorldOf, SizesOf, Whole, Along
<1>2. s0 \in Seq(X) /\ ToSet(s0) = {Whole(c)}
  BY DEF ToSet
<1>3. ASSUME NEW axis \in Axes
      PROVE  /\ asked(axis) \in Seq(X)
             /\ ToSet(asked(axis)) = IF sizes[axis] > 1 THEN {Along(c, r, axis)} ELSE {}
  <2>1. CASE sizes[axis] > 1
    <3>1. asked(axis) = <<Along(c, r, axis)>>
      BY <2>1
    <3> HIDE DEF asked
    <3>2. Along(c, r, axis) \in X
      OBVIOUS
    <3> HIDE DEF X
    <3> QED BY <2>1, <3>1, <3>2 DEF ToSet
  <2>2. CASE ~(sizes[axis] > 1)
    <3>1. asked(axis) = <<>>
      BY <2>2
    <3> QED BY <2>2, <3>1 DEF ToSet
  <2> QED BY <2>1, <2>2
<1> HIDE DEF s0, asked, X
<1>4. s1 \in Seq(X) /\ ToSet(s1) = ToSet(s0) \cup ToSet(asked("DP"))
  BY <1>2, <1>3, JoinedSets DEF Axes
<1> HIDE DEF s1
<1>5. s2 \in Seq(X) /\ ToSet(s2) = ToSet(s1) \cup ToSet(asked("TP"))
  BY <1>4, <1>3, JoinedSets DEF Axes
<1> HIDE DEF s2
<1>6. s3 \in Seq(X) /\ ToSet(s3) = ToSet(s2) \cup ToSet(asked("PP"))
  BY <1>5, <1>3, JoinedSets DEF Axes
<1> HIDE DEF s3
<1>7. ToSet(s3) = {Whole(c)} \cup {Along(c, r, axis) : axis \in LongAxes(c)}
  BY <1>2, <1>3, <1>4, <1>5, <1>6 DEF Axes, LongAxes
<1>8. DOMAIN s3 = 1..Len(s3) /\ Len(s3) \in Nat
  BY <1>6
<1>9. Len(s3) # 0
  BY <1>7, <1>8 DEF ToSet
<1> QED BY <1>1, <1>7, <1>8, <1>9

LEMMA TableFacts ==
    ASSUME NEW c \in Configs, NEW r \in 0..WorldOf(c)-1, NEW own \in ToSet(GroupTable[c][r])
    PROVE  /\ r \in ToSet(own.ranks) /\ ToSet(own.ranks) \subseteq 0..WorldOf(c)-1
           /\ [ranks |-> own.ranks] # Pending
           /\ \A q \in ToSet(own.ranks) : own \in ToSet(GroupTable[c][q])
           /\ \A q \in 0..WorldOf(c)-1 : \A other \in ToSet(GroupTable[c][q]) :
                 other.name = own.name => other = own
<1> DEFINE World == 0..WorldOf(c)-1
<1>1. /\ WorldOf(c) \in Nat \ {0} /\ SizesOf(c) \in Sizes /\ WorldSize(SizesOf(c)) = WorldOf(c)
  BY SizesFitWorld
<1>2. \A q \in World :
         ToSet(GroupTable[c][q]) = {Whole(c)} \cup {Along(c, q, axis) : axis \in LongAxes(c)}
  BY TableOf
<1>3. ToSet(Whole(c).ranks) = World
  <2>1. Whole(c).ranks = [i \in 1..WorldOf(c) |-> i - 1]
    BY DEF Whole
  <2>2. \A i \in 1..WorldOf(c) : i - 1 \in World
    BY <1>1
  <2>3. \A q \in World : q + 1 \in 1..WorldOf(c) /\ (q + 1) - 1 = q
    BY <1>1
  <2> QED BY <2>1, <2>2, <2>3 DEF ToSet
<1>4. ASSUME NEW q \in World, NEW axis \in LongAxes(c)
      PROVE  /\ q \in ToSet(Along(c, q, axis).ranks)
             /\ ToSet(Along(c, q, axis).ranks) \subseteq World
             /\ \A p \in ToSet(Along(c, q, axis).ranks) : Along(c, p, axis) = Along(c, q, axis)
             /\ \A p \in World : Along(c, p, axis).name = Along(c, q, axis).name =>
                                     Along(c, p, axis) = Along(c, q, axis)
  <2> DEFINE Group(p) == GroupRanks(SizesOf(c), axis, CoordOf(SizesOf(c), p))
             Id(p)    == GroupId(SizesOf(c), axis, CoordOf(SizesOf(c), p))
  <2>1. /\ Group(q) \in Seq(World) /\ q \in ToSet(Group(q))
        /\ \A p \in ToSet(Group(q)) : Id(p) = Id(q) /\ Group(p) = Group(q)
        /\ \A p \in World : Id(p) = Id(q) => Group(p) = Group(q)
    BY <1>1, GroupsPartition DEF LongAxes
  <2>2. \A p : Along(c, p, axis) = [name |-> [axis |-> axis, id |-> Id(p)], ranks |-> Group(p)]
    BY DEF Along
  <2> HIDE DEF Group, Id
  <2>3. ToSet(Group(q)) \subseteq World
    <3> HIDE DEF World
    <3>1. \A s \in Seq(World) : \A i \in DOMAIN s : s[i] \in World
      OBVIOUS
    <3> QED BY <2>1, <3>1 DEF ToSet
  <2> QED BY <2>1, <2>2, <2>3
<1>5. \A q \in World, axis \in LongAxes(c) : Along(c, q, axis).name # Default
  BY DEF Along, Default, LongAxes, Axes
<1>6. \A p, q \in World, a, b \in LongAxes(c) :
         Along(c, p, a).name = Along(c, q, b).name => a = b
  BY DEF Along
<1>7. ASSUME NEW s, ToSet(s) # {} PROVE [ranks |-> s] # Pending
  BY <1>7 DEF Pending, ToSet
<1>8. CASE own = Whole(c)
  <2>1. \A q \in World : own \in ToSet(GroupTable[c][q])
    BY <1>2, <1>8
  <2>2. own.name = Default
    BY <1>8 DEF Whole
  <2>3. \A q \in World : \A other \in ToSet(GroupTable[c][q]) : other.name = own.name => other = own
    BY SMTT(30), <1>2, <1>5, <1>8, <2>2
  <2> QED BY <1>3, <1>7, <1>8, <2>1, <2>3
<1>9. ASSUME NEW axis \in LongAxes(c), own = Along(c, r, axis)
      PROVE  /\ r \in ToSet(own.ranks) /\ ToSet(own.ranks) \subseteq World
             /\ \A q \in ToSet(own.ranks) : own \in ToSet(GroupTable[c][q])
             /\ \A q \in World : \A other \in ToSet(GroupTable[c][q]) :
                   other.name = own.name => other = own
  <2>1. r \in ToSet(own.ranks) /\ ToSet(own.ranks) \subseteq World
    BY <1>4, <1>9
  <2>2. \A q \in ToSet(own.ranks) : own \in ToSet(GroupTable[c][q])
    BY <1>2, <1>4, <1>9, <2>1
  <2>3. ASSUME NEW q \in World, NEW other \in ToSet(GroupTable[c][q]), other.name = own.name
        PROVE  other = own
    <3>1. other # Whole(c)
      BY <1>5, <1>9, <2>3 DEF Whole
    <3>2. PICK b \in LongAxes(c) : other = Along(c, q, b)
      BY <1>2, <3>1
    <3>3. b = axis
      BY <1>6, <1>9, <2>3, <3>2
    <3> QED BY <1>4, <1>9, <2>3, <3>2, <3>3
  <2> QED BY <2>1, <2>2, <2>3
<1>10. own = Whole(c) \/ \E axis \in LongAxes(c) : own = Along(c, r, axis)
  BY <1>2
<1>11. /\ r \in ToSet(own.ranks) /\ ToSet(own.ranks) \subseteq World
       /\ \A q \in ToSet(own.ranks) : own \in ToSet(GroupTable[c][q])
       /\ \A q \in World : \A other \in ToSet(GroupTable[c][q]) :
             other.name = own.name => other = own
  BY <1>8, <1>9, <1>10
<1> QED BY <1>7, <1>11

-----------------------------------------------------------------------------
(* The inductive invariant.  A thread makes the group it has left the      *)
(* placeholder of; a thread that trains has got all its groups.            *)
Making  == {"write", "rename", "poll", "read", "init", "publish"}
Trains  == {"train", "collective", "done"}
Mine(r) == GroupsOf(r)[at[r]]
IdOf(own) == [run |-> "this", by |-> ProcessOf(Min(ToSet(own.ranks))), name |-> own.name]

(* The processes of the group's ranks have passed it to CommInitRank.      *)
AllCalled(own) ==
    own.name \in DOMAIN given /\ \A q \in ToSet(own.ranks) : ProcessOf(q) \in DOMAIN given[own.name]

Types ==
    /\ config \in Configs
    /\ pc \in [Ranks -> {"get"} \cup Making \cup Trains]
    /\ at \in [Ranks -> Nat]
    /\ \A r \in Ranks : at[r] \in 1..Len(GroupsOf(r))
    /\ DOMAIN groups = Processes
    /\ proc \in [Processes -> {"unborn", "running", "exited", "reaped"}]
    /\ launcher \in [Nodes -> {"fork", "wait", "exited"}]

(* A file of this run holds the id of the group's main process, and what   *)
(* was passed to CommInitRank is that id and the group's ranks.            *)
FilesInv ==
    \A r \in Ranks : \A own \in ToSet(GroupsOf(r)) :
        UniqueIdFileName("this", own.name) \in DOMAIN files =>
            files[UniqueIdFileName("this", own.name)] = IdOf(own)

GivenInv ==
    \A name \in DOMAIN given : \A p \in DOMAIN given[name] :
        /\ p \in Processes /\ name \in DOMAIN groups[p]
        /\ \E r \in Ranks : \E own \in ToSet(GroupsOf(r)) :
              own.name = name /\ given[name][p] = [uid |-> IdOf(own), ranks |-> own.ranks]

(* One thread makes a group, the placeholder is there as long as it does,  *)
(* and how far it has come.                                                *)
MakersInv ==
    /\ \A r \in Ranks : pc[r] \in Making =>
          /\ Mine(r).name \in DOMAIN groups[ProcessOf(r)]
          /\ groups[ProcessOf(r)][Mine(r).name] = Pending
    /\ \A q, r \in Ranks :
          /\ pc[q] \in Making /\ pc[r] \in Making
          /\ ProcessOf(q) = ProcessOf(r) /\ Mine(q).name = Mine(r).name
          => q = r
    /\ \A r \in Ranks : pc[r] \in {"write", "rename"} => IsMain(r)
    /\ \A r \in Ranks : pc[r] \in {"write", "rename", "poll", "read"} =>
          ~(Mine(r).name \in DOMAIN given /\ ProcessOf(r) \in DOMAIN given[Mine(r).name])
    /\ \A r \in Ranks : pc[r] = "init" =>
          Mine(r).name \in DOMAIN given /\ ProcessOf(r) \in DOMAIN given[Mine(r).name]
    /\ \A r \in Ranks : pc[r] = "publish" => SingleProcess \/ AllCalled(Mine(r))

(* The file a thread has polled for stays until it has been read, unless   *)
(* the launcher of the only node has ended; and then nobody is running.    *)
ReadsInv ==
    /\ \A r \in Ranks : pc[r] = "read" =>
          \/ UniqueIdFileName("this", Mine(r).name) \in DOMAIN files
          \/ config.nodes = 1 /\ launcher[0] = "exited"
    /\ config.nodes = 1 /\ launcher[0] = "exited" => \A p \in Processes : proc[p] # "running"

(* What is in the factory of a process: placeholders that a thread of it   *)
(* is replacing, and groups all of whose processes have met.               *)
FactoryInv ==
    /\ \A p \in Processes : \A name \in DOMAIN groups[p] :
          \/ \E r \in Ranks : ProcessOf(r) = p /\ pc[r] \in Making /\ Mine(r).name = name
          \/ \E r \in Ranks : \E own \in ToSet(GroupsOf(r)) :
                /\ own.name = name /\ groups[p][name] = [ranks |-> own.ranks]
                /\ SingleProcess \/ AllCalled(own)
    /\ \A r \in Ranks : \A i \in 1..Len(GroupsOf(r)) :
          i < at[r] \/ pc[r] \in Trains =>
              /\ GroupsOf(r)[i].name \in DOMAIN groups[ProcessOf(r)]
              /\ groups[ProcessOf(r)][GroupsOf(r)[i].name] # Pending

IInv == Types /\ FilesInv /\ GivenInv /\ MakersInv /\ ReadsInv /\ FactoryInv

-----------------------------------------------------------------------------
(* The table of groups in a state, and what no step changes.               *)
LEMMA GroupFacts ==
    ASSUME Types
    PROVE  /\ \A r \in Ranks : ProcessOf(r) \in Processes
           /\ \A r \in Ranks : Mine(r) \in ToSet(GroupsOf(r))
           /\ \A r \in Ranks : \A i \in 1..Len(GroupsOf(r)) : GroupsOf(r)[i] \in ToSet(GroupsOf(r))
           /\ \A r \in Ranks : \A own \in ToSet(GroupsOf(r)) :
                 /\ r \in ToSet(own.ranks) /\ ToSet(own.ranks) \subseteq Ranks
                 /\ [ranks |-> own.ranks] # Pending
                 /\ \A q \in ToSet(own.ranks) : own \in ToSet(GroupsOf(q))
                 /\ \A q \in Ranks : \A other \in ToSet(GroupsOf(q)) :
                       other.name = own.name => other = own
<1>1. config \in Configs /\ Ranks = 0..WorldOf(config)-1
  BY DEF Types, Ranks, WorldOf
<1>2. ASSUME NEW r \in Ranks PROVE ProcessOf(r) \in Processes
  <2> DEFINE np == config.nodes * config.procs
             n  == config.threads
  <2>1. np \in Nat /\ n \in Nat \ {0} /\ r \in 0..np * n - 1
    BY <1>1, SizesFitWorld DEF Ranks
  <2> HIDE DEF np, n
  <2>2. PICK q \in Nat, a \in 0..n-1 : r = q * n + a /\ r \div n = q
    <3>1. r \in Nat
      BY <2>1
    <3>2. r = (r \div n) * n + (r % n) /\ r % n \in 0..n-1 /\ r \div n \in Nat
      BY ONLY <2>1, <3>1, Division
    <3> QED BY <3>2
  <2>3. q < np
    <3>1. SUFFICES ASSUME q >= np PROVE FALSE
      BY <2>1
    <3>2. q - np \in Nat /\ q * n = (q - np) * n + np * n
      BY <2>1, <3>1
    <3>3. (q - np) * n \in Nat /\ np * n \in Nat
      BY <2>1, <3>2
    <3> QED BY <2>1, <2>2, <3>2, <3>3
  <2> QED BY <2>1, <2>2, <2>3 DEF ProcessOf, Processes, np, n
<1>3. ASSUME NEW r \in Ranks, NEW i \in 1..Len(GroupsOf(r))
      PROVE  GroupsOf(r)[i] \in ToSet(GroupsOf(r))
  BY <1>1, TableOf DEF GroupsOf, ToSet
<1>4. \A r \in Ranks : Mine(r) \in ToSet(GroupsOf(r))
  BY <1>3 DEF Types, Mine
<1>5. ASSUME NEW r \in Ranks, NEW own \in ToSet(GroupsOf(r))
      PROVE  /\ r \in ToSet(own.ranks) /\ ToSet(own.ranks) \subseteq Ranks
             /\ [ranks |-> own.ranks] # Pending
             /\ \A q \in ToSet(own.ranks) : own \in ToSet(GroupsOf(q))
             /\ \A q \in Ranks : \A other \in ToSet(GroupsOf(q)) :
                   other.name = own.name => other = own
  BY <1>1, TableFacts DEF GroupsOf
<1> QED BY <1>2, <1>3, <1>4, <1>5

LEMMA Fixed ==
    ASSUME config' = config
    PROVE  /\ Ranks' = Ranks /\ Processes' = Processes /\ Nodes' = Nodes
           /\ SingleProcess' = SingleProcess
           /\ \A r : ProcessOf(r)' = ProcessOf(r) /\ GroupsOf(r)' = GroupsOf(r)
           /\ \A own : IdOf(own)' = IdOf(own)
BY DEF Ranks, Processes, Nodes, SingleProcess, ProcessOf, GroupsOf, IdOf

(* Steps that leave the threads alone, and may remove files.               *)
ThreadsRest == UNCHANGED <<config, pc, at, groups, given>>
FilesRest   == \A f \in DOMAIN files' : f \in DOMAIN files /\ files'[f] = files[f]
ReadsRest   ==
    \A q \in Ranks :
        pc[q] = "read" /\ UniqueIdFileName("this", Mine(q).name) \in DOMAIN files =>
            \/ UniqueIdFileName("this", Mine(q).name) \in DOMAIN files'
            \/ config.nodes = 1 /\ launcher'[0] = "exited"
LaunchRest  ==
    /\ proc' \in [Processes -> {"unborn", "running", "exited", "reaped"}]
    /\ launcher' \in [Nodes -> {"fork", "wait", "exited"}]
    /\ config.nodes = 1 /\ launcher[0] = "exited" => launcher'[0] = "exited"
    /\ config.nodes = 1 /\ launcher'[0] = "exited" => \A p \in Processes : proc'[p] # "running"

LEMMA OthersKeep ==
    ASSUME IInv, ThreadsRest, FilesRest, ReadsRest, LaunchRest
    PROVE  IInv'
<1> USE Fixed DEF ThreadsRest, FilesRest, ReadsRest, LaunchRest
<1>1. Types'
  BY DEF IInv, Types
<1>2. FilesInv' /\ GivenInv'
  BY DEF IInv, FilesInv, GivenInv
<1>3. MakersInv' 
  BY DEF IInv, MakersInv, Mine, AllCalled, IsMain, Members
<1>4. ReadsInv'
  BY DEF IInv, ReadsInv, Mine, UniqueIdFileName
<1>5. FactoryInv'
  BY DEF IInv, FactoryInv, Mine, AllCalled
<1> QED BY <1>1, <1>2, <1>3, <1>4, <1>5 DEF IInv

(* Steps in which thread r only moves on.                                  *)
LEMMA MovesKeep ==
    ASSUME IInv, NEW r \in Ranks, NEW x \in {"read", "publish"} \cup Trains,
           pc' = [pc EXCEPT ![r] = x],
           x = "read" => pc[r] = "poll" /\ UniqueIdFileName("this", Mine(r).name) \in DOMAIN files,
           x = "publish" => pc[r] = "init" /\ AllCalled(Mine(r)),
           x \in Trains => pc[r] \in Trains,
           UNCHANGED <<config, launcher, proc, at, groups, files, given>>
    PROVE  IInv'
<1> USE Fixed
<1>1. /\ Types /\ pc' \in [Ranks -> {"get"} \cup Making \cup Trains]
      /\ \A q \in Ranks : pc'[q] = IF q = r THEN x ELSE pc[q]
  BY DEF IInv, Types, Making, Trains
<1>2. \A q \in Ranks : pc'[q] \in Making <=> pc[q] \in Making
  BY <1>1 DEF Making, Trains
<1>3. \A q \in Ranks : pc'[q] \in Trains <=> pc[q] \in Trains
  BY <1>1 DEF Making, Trains
<1>4. Types'
  BY <1>1 DEF Types
<1>5. FilesInv' /\ GivenInv'
  BY DEF IInv, FilesInv, GivenInv
<1>6. MakersInv'
  <2>1. \A q \in Ranks : Mine(q)' = Mine(q) /\ IsMain(q)' = IsMain(q) /\ AllCalled(Mine(q))' = AllCalled(Mine(q))
    BY DEF Mine, IsMain, Members, AllCalled
  <2>2. \A q \in Ranks : /\ pc'[q] \in {"write", "rename"} => pc[q] \in {"write", "rename"}
                         /\ pc'[q] \in {"write", "rename", "poll", "read"} =>
                                pc[q] \in {"write", "rename", "poll", "read"}
                         /\ pc'[q] = "init" => pc[q] = "init"
                         /\ pc'[q] = "publish" => pc[q] = "publish" \/ AllCalled(Mine(q))
    BY <1>1 DEF Trains
  <2> QED BY <1>2, <2>1, <2>2 DEF IInv, MakersInv
<1>7. ReadsInv'
  BY <1>1 DEF IInv, ReadsInv, Mine, UniqueIdFileName, Trains
<1>8. FactoryInv'
  <2>1. \A q : Mine(q)' = Mine(q) /\ AllCalled(q)' = AllCalled(q)
    BY DEF Mine, AllCalled
  <2> QED BY <1>2, <1>3, <2>1 DEF IInv, FactoryInv
<1> QED BY <1>4, <1>5, <1>6, <1>7, <1>8 DEF IInv

(* Exit: the main process of a group removes its files when all processes  *)
(* of the group have read them.                                            *)
LEMMA ExitKeeps == ASSUME IInv, NEW p \in Processes, Exit(p) PROVE IInv'
<1>1. /\ Types /\ MakersInv /\ ReadsInv /\ FactoryInv
  BY DEF IInv
<1>2. UNCHANGED <<config, launcher, pc, at, groups, given>>
  BY DEF Exit, launchVars
<1>3. proc' \in [Processes -> {"unborn", "running", "exited", "reaped"}]
  BY <1>1 DEF Types, Exit
<1>4. \A q \in Processes : proc'[q] = "running" => proc[q] = "running"
  BY <1>1 DEF Types, Exit
<1>5. \A f \in DOMAIN files' : f \in DOMAIN files /\ files'[f] = files[f]
  BY DEF Exit, Without
<1>6. ASSUME NEW q \in Ranks, pc[q] = "read",
             UniqueIdFileName("this", Mine(q).name) \in DOMAIN files
      PROVE  UniqueIdFileName("this", Mine(q).name) \in DOMAIN files'
  <2> DEFINE f == UniqueIdFileName("this", Mine(q).name)
  <2>1. f.name = Mine(q).name
    BY DEF UniqueIdFileName
  <2>2. SUFFICES ASSUME ~SingleProcess, f \in OwnFiles(p) PROVE FALSE
    BY <1>6 DEF Exit, Without
  <2>3. Mine(q).name \in DOMAIN groups[p]
    BY <2>1, <2>2 DEF OwnFiles
  <2>4. \A r \in Ranks : ProcessOf(r) = p => pc[r] \notin Making
    BY DEF Exit, ThreadsOf, Making
  <2>5. PICK r \in Ranks : \E own \in ToSet(GroupsOf(r)) : own.name = Mine(q).name /\ AllCalled(own)
    BY <1>1, <2>2, <2>3, <2>4 DEF FactoryInv
  <2>6. PICK own \in ToSet(GroupsOf(r)) : own.name = Mine(q).name /\ AllCalled(own)
    BY <2>5
  <2>7. own = Mine(q) /\ q \in ToSet(own.ranks)
    BY <1>1, <2>6, GroupFacts
  <2>8. Mine(q).name \in DOMAIN given /\ ProcessOf(q) \in DOMAIN given[Mine(q).name]
    BY <2>6, <2>7 DEF AllCalled
  <2> QED BY <1>1, <1>6, <2>8 DEF MakersInv
<1>7. launcher' \in [Nodes -> {"fork", "wait", "exited"}]
  BY <1>1, <1>2 DEF Types
<1>8. config.nodes = 1 /\ launcher'[0] = "exited" =>
          launcher[0] = "exited" /\ \A q \in Processes : proc'[q] # "running"
  BY <1>1, <1>2, <1>4 DEF ReadsInv
<1>9. ThreadsRest /\ FilesRest /\ ReadsRest
  BY <1>2, <1>5, <1>6 DEF ThreadsRest, FilesRest, ReadsRest
<1>10. LaunchRest
  BY <1>2, <1>3, <1>7, <1>8 DEF LaunchRest
<1> QED BY <1>9, <1>10, OthersKeep

(* LauncherExits: nobody is left to read a file.                           *)
LEMMA LauncherExitsKeeps == ASSUME IInv, NEW n \in Nodes, LauncherExits(n) PROVE IInv'
<1>1. Types /\ ReadsInv
  BY DEF IInv
<1>2. UNCHANGED <<config, proc, pc, at, groups, given>>
  BY DEF LauncherExits, procVars
<1>3. launcher' \in [Nodes -> {"fork", "wait", "exited"}] /\ launcher'[n] = "exited"
  BY <1>1 DEF Types, LauncherExits
<1>4. \A f \in DOMAIN files' : f \in DOMAIN files /\ files'[f] = files[f]
  BY DEF LauncherExits, Without
<1>5. config.nodes # 1 => files' = files
  BY DEF LauncherExits
<1>6. ASSUME config.nodes = 1 PROVE n = 0 /\ \A p \in Processes : proc[p] # "running"
  <2>1. n = 0
    BY <1>6 DEF Nodes
  <2>2. ASSUME NEW p \in Processes PROVE NodeOf(p) = 0
    <3>1. config.procs \in Nat \ {0}
      BY <1>1, SizesFitWorld DEF Types
    <3>2. p \in 0..config.procs-1
      BY <1>6, <3>1 DEF Processes
    <3> QED BY <3>1, <3>2 DEF NodeOf
  <2> QED BY <2>1, <2>2 DEF LauncherExits, Children
<1>7. proc' \in [Processes -> {"unborn", "running", "exited", "reaped"}]
  BY <1>1, <1>2 DEF Types
<1>8. config.nodes = 1 => launcher'[0] = "exited" /\ \A p \in Processes : proc'[p] # "running"
  BY <1>2, <1>3, <1>6
<1>9. ThreadsRest /\ FilesRest /\ ReadsRest
  BY <1>2, <1>4, <1>5, <1>8 DEF ThreadsRest, FilesRest, ReadsRest
<1>10. LaunchRest
  BY <1>2, <1>3, <1>7, <1>8 DEF LaunchRest
<1> QED BY <1>9, <1>10, OthersKeep

(* WriteUniqueIdFile, under the temporary name.                            *)
LEMMA WriteTmpFileKeeps == ASSUME IInv, NEW r \in Ranks, WriteTmpFile(r) PROVE IInv'
<1> USE Fixed
<1>1. /\ UNCHANGED <<config, launcher, proc, at, groups, given>>
      /\ pc[r] = "write" /\ pc' = [pc EXCEPT ![r] = "rename"]
  BY DEF WriteTmpFile, launchVars, procVars
<1>2. /\ Types /\ pc' \in [Ranks -> {"get"} \cup Making \cup Trains]
      /\ \A q \in Ranks : pc'[q] = IF q = r THEN "rename" ELSE pc[q]
  BY <1>1 DEF IInv, Types, Making
<1>3. \A name : LET f == UniqueIdFileName("this", name) IN
          /\ f \in DOMAIN files' <=> f \in DOMAIN files
          /\ f \in DOMAIN files => files'[f] = files[f]
  BY DEF WriteTmpFile, Put, UniqueIdFileName, UniqueIdTmpFileName
<1>4. \A q : Mine(q)' = Mine(q) /\ IsMain(q)' = IsMain(q) /\ AllCalled(q)' = AllCalled(q)
  BY <1>1 DEF Mine, IsMain, Members, AllCalled
<1>5. \A q \in Ranks : /\ pc'[q] \in Making <=> pc[q] \in Making
                       /\ pc'[q] \in Trains <=> pc[q] \in Trains
  BY <1>1, <1>2 DEF Making, Trains
<1>6. Types'
  BY <1>1, <1>2 DEF Types
<1>7. FilesInv' /\ GivenInv'
  BY <1>1, <1>3 DEF IInv, FilesInv, GivenInv, UniqueIdFileName
<1>8. MakersInv'
  BY <1>1, <1>2, <1>4, <1>5 DEF IInv, MakersInv, AllCalled, Mine
<1>9. ReadsInv'
  BY <1>1, <1>2, <1>3, <1>4 DEF IInv, ReadsInv, UniqueIdFileName
<1>10. FactoryInv'
  BY <1>1, <1>4, <1>5 DEF IInv, FactoryInv
<1> QED BY <1>6, <1>7, <1>8, <1>9, <1>10 DEF IInv

(* CommInitRank by thread r with the id of its group.                      *)
LEMMA CallsKeep ==
    ASSUME IInv, NEW r \in Ranks, pc[r] \in {"rename", "read"},
           pc' = [pc EXCEPT ![r] = "init"], CommInitRank(r, IdOf(Mine(r))),
           UNCHANGED <<config, launcher, proc, at, groups>>,
           \A name : LET f == UniqueIdFileName("this", name) IN
               /\ f \in DOMAIN files' <=> f \in DOMAIN files \/ f = UniqueIdFileName("this", Mine(r).name)
               /\ f \in DOMAIN files' => files'[f] = IF f = UniqueIdFileName("this", Mine(r).name)
                                                     THEN IdOf(Mine(r)) ELSE files[f]
    PROVE  IInv'
<1> USE Fixed
<1> DEFINE name == Mine(r).name
           p    == ProcessOf(r)
           call == [uid |-> IdOf(Mine(r)), ranks |-> Mine(r).ranks]
<1>1. /\ Types /\ pc' \in [Ranks -> {"get"} \cup Making \cup Trains]
      /\ \A q \in Ranks : pc'[q] = IF q = r THEN "init" ELSE pc[q]
  BY DEF IInv, Types, Making
<1>2. \A q : Mine(q)' = Mine(q) /\ IsMain(q)' = IsMain(q)
  BY DEF Mine, IsMain, Members
<1>3. \A q \in Ranks : /\ pc'[q] \in Making <=> pc[q] \in Making
                       /\ pc'[q] \in Trains <=> pc[q] \in Trains
  BY <1>1 DEF Making, Trains
<1>4. given' = Put(given, name, Put(IF name \in DOMAIN given THEN given[name] ELSE <<>>, p, call))
  BY DEF CommInitRank, Mine, Name, Members
<1>5. /\ DOMAIN given' = DOMAIN given \cup {name}
      /\ \A m \in DOMAIN given : m # name => given'[m] = given[m]
      /\ name \in DOMAIN given => /\ DOMAIN given'[name] = DOMAIN given[name] \cup {p}
                                  /\ \A q \in DOMAIN given[name] : q # p => given'[name][q] = given[name][q]
      /\ name \notin DOMAIN given => DOMAIN given'[name] = {p}
      /\ given'[name][p] = call
  <2> HIDE DEF name, p, call
  <2> DEFINE old == IF name \in DOMAIN given THEN given[name] ELSE <<>>
             new == Put(old, p, call)
  <2>1. /\ name \in DOMAIN given => old = given[name]
        /\ name \notin DOMAIN given => DOMAIN old = {}
    OBVIOUS
  <2> HIDE DEF old
  <2>2. /\ DOMAIN new = DOMAIN old \cup {p} /\ new[p] = call
        /\ \A q \in DOMAIN old : q # p => new[q] = old[q]
    BY DEF Put
  <2>3. given' = Put(given, name, new)
    BY <1>4 DEF old
  <2> HIDE DEF new
  <2>4. /\ DOMAIN given' = DOMAIN given \cup {name} /\ given'[name] = new
        /\ \A m \in DOMAIN given : m # name => given'[m] = given[m]
    BY <2>3 DEF Put
  <2> QED BY <2>1, <2>2, <2>4
<1>6. /\ \A m \in DOMAIN given : m \in DOMAIN given' /\ DOMAIN given[m] \subseteq DOMAIN given'[m]
      /\ name \in DOMAIN given' /\ p \in DOMAIN given'[name]
      /\ \A m \in DOMAIN given' : \A q \in DOMAIN given'[m] :
            \/ m = name /\ q = p
            \/ m \in DOMAIN given /\ q \in DOMAIN given[m] /\ given'[m][q] = given[m][q]
  <2> HIDE DEF name, p, call
  <2> QED BY <1>5
<1>7. \A own : AllCalled(own) => AllCalled(own)'
  BY <1>6 DEF AllCalled
<1>8. Types'
  BY <1>1 DEF Types
<1>9. FilesInv'
  <2>1. \A q \in Ranks : \A own \in ToSet(GroupsOf(q)) : own.name = name => own = Mine(r)
    BY <1>1, GroupFacts
  <2>2. \A m : UniqueIdFileName("this", m) = UniqueIdFileName("this", name) => m = name
    BY DEF UniqueIdFileName
  <2>3. FilesInv
    BY DEF IInv
  <2> HIDE DEF name
  <2> QED BY <2>1, <2>2, <2>3 DEF FilesInv, UniqueIdFileName, name
<1>10. GivenInv'
  <2>1. Mine(r) \in ToSet(GroupsOf(r))
    BY <1>1, GroupFacts
  <2>2. \E q \in Ranks : \E own \in ToSet(GroupsOf(q)) :
            own.name = name /\ given'[name][p] = [uid |-> IdOf(own), ranks |-> own.ranks]
    BY <1>5, <2>1
  <2>3. p \in Processes /\ name \in DOMAIN groups[p]
    BY <1>1, GroupFacts DEF IInv, MakersInv, Making
  <2>4. GivenInv
    BY DEF IInv
  <2> HIDE DEF name, p, call
  <2> QED BY <1>6, <2>2, <2>3, <2>4 DEF GivenInv
<1>11. MakersInv'
  <2>1. /\ MakersInv
        /\ \A q \in Ranks : ProcessOf(q) = p /\ Mine(q).name = name /\ pc[q] \in Making => q = r
    BY <1>3 DEF IInv, MakersInv, Making
  <2>2. \A q \in Ranks : q # r /\ pc[q] \in Making =>
            (Mine(q).name \in DOMAIN given' /\ ProcessOf(q) \in DOMAIN given'[Mine(q).name] <=>
             Mine(q).name \in DOMAIN given /\ ProcessOf(q) \in DOMAIN given[Mine(q).name])
    <3> HIDE DEF name, p, call
    <3> QED BY <1>6, <2>1
  <2>3. \A q \in Ranks : AllCalled(Mine(q)) => AllCalled(Mine(q))'
    BY <1>2, <1>7
  <2> QED BY <1>1, <1>2, <1>3, <1>6, <2>1, <2>2, <2>3 DEF MakersInv, Making
<1>12. ReadsInv'
  BY <1>1, <1>2 DEF IInv, ReadsInv, UniqueIdFileName
<1>13. FactoryInv'
  BY <1>2, <1>3, <1>7 DEF IInv, FactoryInv
<1> QED BY <1>8, <1>9, <1>10, <1>11, <1>12, <1>13 DEF IInv

(* WriteUniqueIdFile's rename, by the main process of the group.           *)
LEMMA RenameTmpFileKeeps == ASSUME IInv, NEW r \in Ranks, RenameTmpFile(r) PROVE IInv'
<1>1. pc[r] = "rename" /\ pc' = [pc EXCEPT ![r] = "init"]
  BY DEF RenameTmpFile
<1>2. UNCHANGED <<config, launcher, proc, at, groups>>
  BY DEF RenameTmpFile, launchVars, procVars
<1>3. UniqueId(r) = IdOf(Mine(r))
  <2>1. ProcessOf(Min(ToSet(Mine(r).ranks))) = ProcessOf(r)
    BY <1>1 DEF IInv, MakersInv, IsMain, Members, Mine
  <2> QED BY <2>1 DEF UniqueId, IdOf, Mine, Name
<1>4. CommInitRank(r, IdOf(Mine(r)))
  BY <1>3 DEF RenameTmpFile
<1>5. \A name : LET f == UniqueIdFileName("this", name) IN
          /\ f \in DOMAIN files' <=> f \in DOMAIN files \/ f = UniqueIdFileName("this", Mine(r).name)
          /\ f \in DOMAIN files' => files'[f] = IF f = UniqueIdFileName("this", Mine(r).name)
                                                THEN IdOf(Mine(r)) ELSE files[f]
  <2>1. files' = Put(Without(files, {UniqueIdTmpFileName("this", Mine(r).name)}),
                     UniqueIdFileName("this", Mine(r).name), IdOf(Mine(r)))
    BY <1>3 DEF RenameTmpFile, Mine, Name
  <2>2. \A m, n : UniqueIdFileName("this", m) # UniqueIdTmpFileName("this", n)
    BY DEF UniqueIdFileName, UniqueIdTmpFileName
  <2> QED BY <2>1, <2>2 DEF Put, Without
<1> QED BY <1>1, <1>2, <1>4, <1>5, CallsKeep

(* ReadUniqueIdFile: the file is there, and holds the group's id.          *)
LEMMA ReadFileKeeps == ASSUME IInv, NEW r \in Ranks, ReadFile(r) PROVE IInv'
<1> DEFINE path == UniqueIdFileName("this", Mine(r).name)
<1>1. Types /\ FilesInv /\ ReadsInv
  BY DEF IInv
<1>2. Live(r) /\ pc[r] = "read" /\ UNCHANGED <<config, launcher, at, groups, files>>
  BY DEF ReadFile, launchVars
<1>3. path \in DOMAIN files
  BY <1>1, <1>2, GroupFacts DEF ReadsInv, Live
<1>4. files[path] = IdOf(Mine(r))
  BY <1>1, <1>3, GroupFacts DEF FilesInv
<1>5. Readable(path)
  <2>1. IdOf(Mine(r)).run = "this" /\ Truncated.run = "none"
    BY DEF IdOf, Truncated
  <2> QED BY <1>3, <1>4, <2>1 DEF Readable
<1>6. CommInitRank(r, IdOf(Mine(r))) /\ pc' = [pc EXCEPT ![r] = "init"] /\ UNCHANGED proc
  BY <1>4, <1>5 DEF ReadFile, Mine, Name
<1>7. \A name : LET f == UniqueIdFileName("this", name) IN
          /\ f \in DOMAIN files' <=> f \in DOMAIN files \/ f = path
          /\ f \in DOMAIN files' => files'[f] = IF f = path THEN IdOf(Mine(r)) ELSE files[f]
  BY <1>2, <1>3, <1>4
<1>8. UNCHANGED <<config, launcher, proc, at, groups>>
  BY <1>2, <1>6
<1> QED BY <1>2, <1>6, <1>7, <1>8, CallsKeep

(* A thread that has its group goes on to the next one, or to training.    *)
LEMMA NextGroupMeans ==
    ASSUME Types, NEW r \in Ranks, NextGroup(r), config' = config
    PROVE  /\ pc' \in [Ranks -> {"get"} \cup Making \cup Trains] /\ at' \in [Ranks -> Nat]
           /\ \A q \in Ranks : q # r => pc'[q] = pc[q] /\ at'[q] = at[q]
           /\ pc'[r] \in {"get", "train"} /\ at'[r] \in 1..Len(GroupsOf(r))
           /\ \A i \in 1..Len(GroupsOf(r)) : i < at'[r] \/ pc'[r] \in Trains => i <= at[r]
<1>1. /\ pc \in [Ranks -> {"get"} \cup Making \cup Trains] /\ at \in [Ranks -> Nat]
      /\ at[r] \in 1..Len(GroupsOf(r)) /\ Len(GroupsOf(r)) \in Nat
  <2>1. config \in Configs /\ r \in 0..WorldOf(config)-1
    BY DEF Types, Ranks, WorldOf
  <2> QED BY <2>1, TableOf DEF Types, GroupsOf
<1>2. CASE at[r] < Len(GroupsOf(r))
  <2>1. pc' = [pc EXCEPT ![r] = "get"] /\ at' = [at EXCEPT ![r] = @ + 1]
    BY <1>2 DEF NextGroup
  <2> QED BY <1>1, <1>2, <2>1 DEF Trains
<1>3. CASE ~(at[r] < Len(GroupsOf(r)))
  <2>1. pc' = [pc EXCEPT ![r] = "train"] /\ at' = at
    BY <1>3 DEF NextGroup
  <2> QED BY <1>1, <1>3, <2>1 DEF Trains
<1> QED BY <1>2, <1>3

(* GetOrCreate finds the group.                                            *)
LEMMA GetsGroupKeeps == ASSUME IInv, NEW r \in Ranks, GetsGroup(r) PROVE IInv'
<1> USE Fixed
<1>1. /\ UNCHANGED <<config, launcher, proc, groups, files, given>>
      /\ pc[r] = "get" /\ NextGroup(r)
      /\ Mine(r).name \in DOMAIN groups[ProcessOf(r)]
      /\ groups[ProcessOf(r)][Mine(r).name] # Pending
  BY DEF GetsGroup, launchVars, procVars, Found, Name, Mine
<1>2. /\ Types /\ FilesInv /\ GivenInv /\ MakersInv /\ ReadsInv /\ FactoryInv
  BY DEF IInv
<1>3. /\ pc' \in [Ranks -> {"get"} \cup Making \cup Trains] /\ at' \in [Ranks -> Nat]
      /\ \A q \in Ranks : q # r => pc'[q] = pc[q] /\ at'[q] = at[q]
      /\ pc'[r] \in {"get", "train"} /\ at'[r] \in 1..Len(GroupsOf(r))
      /\ \A i \in 1..Len(GroupsOf(r)) : i < at'[r] \/ pc'[r] \in Trains => i <= at[r]
  BY <1>1, <1>2, NextGroupMeans
<1>4. /\ \A q \in Ranks : pc'[q] \in Making => q # r /\ pc[q] \in Making
      /\ \A q \in Ranks : pc[q] \in Making => q # r /\ pc'[q] \in Making
  BY <1>1, <1>3 DEF Making
<1>5. \A q \in Ranks : q # r => Mine(q)' = Mine(q) /\ IsMain(q)' = IsMain(q)
  BY <1>1, <1>3 DEF Mine, IsMain, Members
<1>6. \A own : AllCalled(own)' = AllCalled(own)
  BY <1>1 DEF AllCalled
<1>7. Types'
  BY <1>1, <1>2, <1>3 DEF Types
<1>8. FilesInv' /\ GivenInv'
  BY <1>1, <1>2 DEF FilesInv, GivenInv
<1>9. MakersInv'
  BY <1>1, <1>2, <1>3, <1>4, <1>5, <1>6 DEF MakersInv, Making
<1>10. ReadsInv'
  BY <1>1, <1>2, <1>3, <1>5 DEF ReadsInv, UniqueIdFileName
<1>11. FactoryInv'
  <2>1. \A i \in 1..Len(GroupsOf(r)) : i = at[r] => GroupsOf(r)[i] = Mine(r)
    BY DEF Mine
  <2>2. \A i \in 1..Len(GroupsOf(r)) : i <= at[r] => i < at[r] \/ i = at[r]
    BY <1>2 DEF Types
  <2>3. \A q \in Ranks : q # r => (pc'[q] \in Trains <=> pc[q] \in Trains) /\ at'[q] = at[q]
    BY <1>3
  <2>4. \A i \in 1..Len(GroupsOf(r)) : i < at'[r] \/ pc'[r] \in Trains =>
            /\ GroupsOf(r)[i].name \in DOMAIN groups[ProcessOf(r)]
            /\ groups[ProcessOf(r)][GroupsOf(r)[i].name] # Pending
    BY <1>1, <1>2, <1>3, <2>1, <2>2 DEF FactoryInv
  <2>5. \A q \in Ranks : \A i \in 1..Len(GroupsOf(q)) : i < at'[q] \/ pc'[q] \in Trains =>
            /\ GroupsOf(q)[i].name \in DOMAIN groups[ProcessOf(q)]
            /\ groups[ProcessOf(q)][GroupsOf(q)[i].name] # Pending
    BY <1>2, <2>3, <2>4 DEF FactoryInv
  <2>6. \A p \in Processes : \A name \in DOMAIN groups[p] :
          \/ \E q \in Ranks : ProcessOf(q) = p /\ pc'[q] \in Making /\ Mine(q)'.name = name
          \/ \E q \in Ranks : \E own \in ToSet(GroupsOf(q)) :
                /\ own.name = name /\ groups[p][name] = [ranks |-> own.ranks]
                /\ SingleProcess \/ AllCalled(own)
    BY <1>2, <1>4, <1>5 DEF FactoryInv
  <2> QED BY <1>1, <1>6, <2>5, <2>6 DEF FactoryInv
<1> QED BY <1>7, <1>8, <1>9, <1>10, <1>11 DEF IInv

(* GetOrCreate leaves the placeholder.                                     *)
LEMMA CreatesGroupKeeps == ASSUME IInv, NEW r \in Ranks, CreatesGroup(r) PROVE IInv'
<1> USE Fixed
<1> DEFINE name == Mine(r).name
           p    == ProcessOf(r)
           x    == IF SingleProcess THEN "publish" ELSE IF IsMain(r) THEN "write" ELSE "poll"
<1>1. /\ UNCHANGED <<config, launcher, proc, at, files, given>>
      /\ pc[r] = "get" /\ name \notin DOMAIN groups[p]
      /\ pc' = [pc EXCEPT ![r] = x]
      /\ groups' = [groups EXCEPT ![p] = Put(@, name, Pending)]
  BY DEF CreatesGroup, launchVars, procVars, Found, Name, Mine
<1>2. /\ Types /\ FilesInv /\ GivenInv /\ MakersInv /\ ReadsInv /\ FactoryInv
  BY DEF IInv
<1>3. /\ pc' \in [Ranks -> {"get"} \cup Making \cup Trains] /\ x \in {"publish", "write", "poll"}
      /\ \A q \in Ranks : pc'[q] = IF q = r THEN x ELSE pc[q]
  BY <1>1, <1>2 DEF Types, Making
<1>4. /\ DOMAIN groups' = Processes /\ p \in Processes
      /\ \A q \in Processes : q # p => groups'[q] = groups[q]
      /\ DOMAIN groups'[p] = DOMAIN groups[p] \cup {name}
      /\ groups'[p][name] = Pending
      /\ \A m \in DOMAIN groups[p] : m # name /\ groups'[p][m] = groups[p][m]
  <2>1. p \in Processes /\ DOMAIN groups = Processes
    BY <1>2, GroupFacts DEF Types
  <2> HIDE DEF name, p, x
  <2> QED BY <1>1, <2>1 DEF Put
<1>5. \A q : Mine(q)' = Mine(q) /\ IsMain(q)' = IsMain(q) /\ AllCalled(q)' = AllCalled(q)
  BY <1>1 DEF Mine, IsMain, Members, AllCalled
<1>6. \A q \in Ranks : /\ pc'[q] \in Making <=> q = r \/ pc[q] \in Making
                       /\ pc'[q] \in Trains <=> pc[q] \in Trains
  BY <1>1, <1>3 DEF Making, Trains
<1>7. \A q \in Ranks : ProcessOf(q) = p /\ Mine(q).name = name => pc[q] \notin Making
  BY <1>1, <1>2 DEF MakersInv
<1>8. Types'
  BY <1>1, <1>2, <1>3, <1>4 DEF Types
<1>9. FilesInv'
  BY <1>1, <1>2 DEF FilesInv
<1>10. GivenInv'
  BY <1>1, <1>2, <1>4 DEF GivenInv
<1>11. ~(name \in DOMAIN given /\ p \in DOMAIN given[name])
  BY <1>1, <1>2 DEF GivenInv
<1>12. MakersInv'
  <2>1. \A q \in Ranks : pc'[q] \in Making =>
            Mine(q).name \in DOMAIN groups'[ProcessOf(q)] /\ groups'[ProcessOf(q)][Mine(q).name] = Pending
    BY <1>2, <1>4, <1>6, GroupFacts DEF MakersInv
  <2>2. \A q, s \in Ranks :
            /\ pc'[q] \in Making /\ pc'[s] \in Making
            /\ ProcessOf(q) = ProcessOf(s) /\ Mine(q).name = Mine(s).name
            => q = s
    BY <1>2, <1>6, <1>7 DEF MakersInv
  <2>3. \A q \in Ranks : pc'[q] \in {"write", "rename"} => IsMain(q)
    BY <1>2, <1>3 DEF MakersInv
  <2>4. \A q \in Ranks : pc'[q] \in {"write", "rename", "poll", "read"} =>
            ~(Mine(q).name \in DOMAIN given /\ ProcessOf(q) \in DOMAIN given[Mine(q).name])
    BY <1>2, <1>3, <1>11 DEF MakersInv
  <2>5. \A q \in Ranks : /\ pc'[q] = "init" => pc[q] = "init"
                         /\ pc'[q] = "publish" => pc[q] = "publish" \/ SingleProcess
    BY <1>3
  <2> QED BY <1>1, <1>2, <1>5, <2>1, <2>2, <2>3, <2>4, <2>5 DEF MakersInv
<1>13. ReadsInv'
  BY <1>1, <1>2, <1>3, <1>5 DEF ReadsInv, UniqueIdFileName
<1>14. FactoryInv'
  <2>1. ASSUME NEW q \in Processes, NEW m \in DOMAIN groups'[q]
        PROVE  \/ \E s \in Ranks : ProcessOf(s) = q /\ pc'[s] \in Making /\ Mine(s).name = m
               \/ \E s \in Ranks : \E own \in ToSet(GroupsOf(s)) :
                     /\ own.name = m /\ groups'[q][m] = [ranks |-> own.ranks]
                     /\ SingleProcess \/ AllCalled(own)
    <3>1. CASE q = p /\ m = name
      BY <1>6, <3>1
    <3>2. CASE ~(q = p /\ m = name)
      <4>1. m \in DOMAIN groups[q] /\ groups'[q][m] = groups[q][m]
        BY <1>4, <2>1, <3>2
      <4> HIDE DEF name, p, x
      <4> QED BY <1>2, <1>6, <4>1 DEF FactoryInv
    <3> QED BY <3>1, <3>2
  <2>2. ASSUME NEW q \in Ranks, NEW i \in 1..Len(GroupsOf(q)), i < at[q] \/ pc'[q] \in Trains
        PROVE  /\ GroupsOf(q)[i].name \in DOMAIN groups'[ProcessOf(q)]
               /\ groups'[ProcessOf(q)][GroupsOf(q)[i].name] # Pending
    <3>1. /\ GroupsOf(q)[i].name \in DOMAIN groups[ProcessOf(q)]
          /\ groups[ProcessOf(q)][GroupsOf(q)[i].name] # Pending
      BY <1>2, <1>6, <2>2 DEF FactoryInv
    <3>2. ProcessOf(q) \in Processes
      BY <1>2, GroupFacts
    <3> HIDE DEF name, p, x
    <3> QED BY <1>4, <3>1, <3>2
  <2> QED BY <1>1, <1>5, <2>1, <2>2 DEF FactoryInv
<1> QED BY <1>8, <1>9, <1>10, <1>12, <1>13, <1>14 DEF IInv

(* The end of GetOrCreate, in the thread that made the group.              *)
LEMMA PublishGroupKeeps == ASSUME IInv, NEW r \in Ranks, PublishGroup(r) PROVE IInv'
<1> USE Fixed
<1> DEFINE name == Mine(r).name
           p    == ProcessOf(r)
           made == [ranks |-> Mine(r).ranks]
<1>1. /\ UNCHANGED <<config, launcher, proc, files, given>>
      /\ pc[r] = "publish" /\ NextGroup(r)
      /\ groups' = [groups EXCEPT ![p] = [@ EXCEPT ![name] = made]]
  BY DEF PublishGroup, launchVars, procVars, Name, Members, Mine
<1>2. /\ Types /\ FilesInv /\ GivenInv /\ MakersInv /\ ReadsInv /\ FactoryInv
  BY DEF IInv
<1>3. /\ pc' \in [Ranks -> {"get"} \cup Making \cup Trains] /\ at' \in [Ranks -> Nat]
      /\ \A q \in Ranks : q # r => pc'[q] = pc[q] /\ at'[q] = at[q]
      /\ pc'[r] \in {"get", "train"} /\ at'[r] \in 1..Len(GroupsOf(r))
      /\ \A i \in 1..Len(GroupsOf(r)) : i < at'[r] \/ pc'[r] \in Trains => i <= at[r]
  BY <1>1, <1>2, NextGroupMeans
<1>4. /\ Mine(r) \in ToSet(GroupsOf(r)) /\ p \in Processes /\ DOMAIN groups = Processes
      /\ name \in DOMAIN groups[p] /\ made # Pending
  BY <1>1, <1>2, GroupFacts DEF Types, MakersInv, Making
<1>5. /\ DOMAIN groups' = Processes
      /\ \A q \in Processes : DOMAIN groups'[q] = DOMAIN groups[q]
      /\ \A q \in Processes : \A m \in DOMAIN groups[q] :
            groups'[q][m] = IF q = p /\ m = name THEN made ELSE groups[q][m]
  <2> HIDE DEF name, p, made
  <2> QED BY <1>1, <1>4
<1>6. \A q \in Ranks : pc'[q] \in Making <=> q # r /\ pc[q] \in Making
  BY <1>1, <1>3 DEF Making
<1>7. \A q \in Ranks : q # r => Mine(q)' = Mine(q) /\ IsMain(q)' = IsMain(q)
  BY <1>1, <1>3 DEF Mine, IsMain, Members
<1>8. \A own : AllCalled(own)' = AllCalled(own)
  BY <1>1 DEF AllCalled
<1>9. \A q \in Ranks : q # r /\ pc[q] \in Making => ~(ProcessOf(q) = p /\ Mine(q).name = name)
  BY <1>1, <1>2 DEF MakersInv, Making
<1>10. Types'
  BY <1>1, <1>2, <1>3, <1>5 DEF Types
<1>11. FilesInv' /\ GivenInv'
  BY <1>1, <1>2, <1>5 DEF FilesInv, GivenInv
<1>12. MakersInv'
  <2>1. \A q \in Ranks : pc'[q] \in Making =>
            Mine(q).name \in DOMAIN groups'[ProcessOf(q)] /\ groups'[ProcessOf(q)][Mine(q).name] = Pending
    <3> HIDE DEF name, p, made
    <3> QED BY <1>2, <1>5, <1>6, <1>9, GroupFacts DEF MakersInv
  <2> QED BY SMTT(30), <1>1, <1>2, <1>3, <1>6, <1>7, <1>8, <2>1 DEF MakersInv, Making
<1>13. ReadsInv'
  BY <1>1, <1>2, <1>3, <1>7 DEF ReadsInv, UniqueIdFileName
<1>14. FactoryInv'
  <2>1. ASSUME NEW q \in Processes, NEW m \in DOMAIN groups[q]
        PROVE  \/ \E s \in Ranks : ProcessOf(s) = q /\ pc'[s] \in Making /\ Mine(s)'.name = m
               \/ \E s \in Ranks : \E own \in ToSet(GroupsOf(s)) :
                     /\ own.name = m /\ groups'[q][m] = [ranks |-> own.ranks]
                     /\ SingleProcess \/ AllCalled(own)
    <3>1. CASE q = p /\ m = name
      <4>1. SingleProcess \/ AllCalled(Mine(r))
        BY <1>1, <1>2 DEF MakersInv
      <4> QED BY <1>4, <1>5, <3>1, <4>1
    <3>2. CASE ~(q = p /\ m = name)
      <4>1. groups'[q][m] = groups[q][m]
        BY <1>5, <2>1, <3>2
      <4>2. CASE \E s \in Ranks : ProcessOf(s) = q /\ pc[s] \in Making /\ Mine(s).name = m
        BY <1>6, <1>7, <3>2, <4>2
      <4>3. CASE \E s \in Ranks : \E own \in ToSet(GroupsOf(s)) :
                     /\ own.name = m /\ groups[q][m] = [ranks |-> own.ranks]
                     /\ SingleProcess \/ AllCalled(own)
        BY <4>1, <4>3
      <4> QED BY <1>2, <2>1, <4>2, <4>3 DEF FactoryInv
    <3> QED BY <3>1, <3>2
  <2>2. ASSUME NEW q \in Ranks, NEW i \in 1..Len(GroupsOf(q)), i < at'[q] \/ pc'[q] \in Trains
        PROVE  /\ GroupsOf(q)[i].name \in DOMAIN groups'[ProcessOf(q)]
               /\ groups'[ProcessOf(q)][GroupsOf(q)[i].name] # Pending
    <3>1. ProcessOf(q) \in Processes
      BY <1>2, GroupFacts
    <3>2. CASE q = r /\ i = at[r]
      <4>1. GroupsOf(q)[i] = Mine(r)
        BY <3>2 DEF Mine
      <4> QED BY <1>4, <1>5, <3>2, <4>1
    <3>3. CASE ~(q = r /\ i = at[r])
      <4>1. i < at[q] \/ pc[q] \in Trains
        BY <1>2, <1>3, <2>2, <3>3 DEF Types
      <4>2. /\ GroupsOf(q)[i].name \in DOMAIN groups[ProcessOf(q)]
            /\ groups[ProcessOf(q)][GroupsOf(q)[i].name] # Pending
        BY <1>2, <4>1 DEF FactoryInv
      <4> HIDE DEF name, p, made
      <4> QED BY <1>4, <1>5, <3>1, <4>2
    <3> QED BY <3>2, <3>3
  <2> QED BY SMTT(30), <1>1, <1>5, <1>8, <2>1, <2>2 DEF FactoryInv
<1> QED BY <1>10, <1>11, <1>12, <1>13, <1>14 DEF IInv

(* The launcher, and processes that die.                                   *)
LEMMA LaunchKeeps ==
    ASSUME IInv,
           \/ \E n \in Nodes : Fork(n) \/ AllForked(n) \/ ForkFails(n) \/ \E p \in Processes : Reap(n, p)
           \/ \E p \in Processes : Die(p) \/ Kill(p)
    PROVE  IInv'
<1>1. Types /\ ReadsInv
  BY DEF IInv
<1>2. ThreadsRest /\ files' = files
  BY DEF Fork, AllForked, ForkFails, Reap, Die, Kill, ThreadsRest
<1>3. FilesRest /\ ReadsRest
  BY <1>2 DEF FilesRest, ReadsRest
<1>4. LaunchRest
  <2>1. config.nodes = 1 => Nodes = {0}
    BY DEF Nodes
  <2>2. CASE \E n \in Nodes : Fork(n)
    <3>1. PICK n \in Nodes : Fork(n)
      BY <2>2
    <3>2. /\ launcher' = launcher /\ launcher[n] = "fork"
          /\ proc' = [proc EXCEPT ![n * config.procs + forked[n]] = "running"]
      BY <3>1 DEF Fork
    <3>3. proc' \in [Processes -> {"unborn", "running", "exited", "reaped"}]
      BY <1>1, <3>2 DEF Types
    <3>4. config.nodes # 1 \/ launcher[0] # "exited"
      BY <2>1, <3>2
    <3> QED BY <1>1, <3>2, <3>3, <3>4 DEF LaunchRest, Types
  <2>3. CASE \E n \in Nodes : AllForked(n)
    BY <1>1, <2>3 DEF AllForked, procVars, LaunchRest, Types, ReadsInv
  <2>4. CASE \E n \in Nodes : ForkFails(n)
    BY <1>1, <2>4 DEF ForkFails, LaunchRest, Types, ReadsInv
  <2>5. CASE \E n \in Nodes : \E p \in Processes : Reap(n, p)
    BY <1>1, <2>5 DEF Reap, LaunchRest, Types, ReadsInv
  <2>6. CASE \E p \in Processes : Die(p)
    BY <1>1, <2>6 DEF Die, launchVars, LaunchRest, Types, ReadsInv
  <2>7. CASE \E p \in Processes : Kill(p)
    BY <1>1, <2>7 DEF Kill, launchVars, LaunchRest, Types, ReadsInv
  <2> QED BY <2>2, <2>3, <2>4, <2>5, <2>6, <2>7
<1> QED BY <1>2, <1>3, <1>4, OthersKeep

LEMMA Starts == ASSUME Init PROVE IInv
<1>1. config \in Configs /\ Ranks = 0..WorldOf(config)-1
  BY DEF Init, Ranks, WorldOf
<1>2. \A r \in Ranks : Len(GroupsOf(r)) \in Nat \ {0}
  BY <1>1, TableOf DEF GroupsOf
<1>3. Types
  BY <1>1, <1>2 DEF Init, Types
<1>4. \A name : UniqueIdFileName("this", name) \notin DOMAIN files
  BY ProcessGroupsAssumption DEF Init, UniqueIdFileName
<1>5. FilesInv /\ GivenInv
  BY <1>4 DEF Init, FilesInv, GivenInv
<1>6. MakersInv
  BY DEF Init, MakersInv, Making
<1>7. ReadsInv
  <2>1. config.nodes = 1 => 0 \in Nodes
    BY DEF Nodes
  <2> QED BY <2>1 DEF Init, ReadsInv
<1>8. FactoryInv
  <2>1. \A r \in Ranks : pc[r] \notin Trains /\ \A i \in 1..Len(GroupsOf(r)) : ~(i < at[r])
    BY <1>2 DEF Init, Trains
  <2>2. \A p \in Processes : DOMAIN groups[p] = {}
    BY DEF Init
  <2> QED BY <2>1, <2>2 DEF FactoryInv
<1> QED BY <1>3, <1>5, <1>6, <1>7, <1>8 DEF IInv

LEMMA Steps == ASSUME IInv, [Next]_vars PROVE IInv'
<1>1. ASSUME NEW r \in Ranks, ThreadStep(r) PROVE IInv'
  <2>1. CASE GetsGroup(r)
    BY <2>1, GetsGroupKeeps
  <2>2. CASE CreatesGroup(r)
    BY <2>2, CreatesGroupKeeps
  <2>3. CASE WriteTmpFile(r)
    BY <2>3, WriteTmpFileKeeps
  <2>4. CASE RenameTmpFile(r)
    BY <2>4, RenameTmpFileKeeps
  <2>5. CASE PollFile(r)
    BY <2>5, MovesKeep DEF PollFile, launchVars, procVars, Name, Mine, Trains
  <2>6. CASE ReadFile(r)
    BY <2>6, ReadFileKeeps
  <2>7. CASE CommunicatorReady(r)
    <3>1. pc[r] = "init" /\ Initialised(Mine(r).name, ProcessOf(r))
      BY <2>7 DEF CommunicatorReady, Name, Mine
    <3>2. /\ Mine(r).name \in DOMAIN given /\ ProcessOf(r) \in DOMAIN given[Mine(r).name]
          /\ Mine(r) \in ToSet(GroupsOf(r))
      BY <3>1, GroupFacts DEF IInv, MakersInv
    <3>3. given[Mine(r).name][ProcessOf(r)].ranks = Mine(r).ranks
      BY <3>2, GroupFacts DEF IInv, GivenInv
    <3>4. AllCalled(Mine(r))
      BY <3>1, <3>2, <3>3 DEF AllCalled, Initialised
    <3>5. /\ pc' = [pc EXCEPT ![r] = "publish"]
          /\ UNCHANGED <<config, launcher, proc, at, groups, files, given>>
      BY <2>7 DEF CommunicatorReady, launchVars, procVars
    <3> QED BY <3>1, <3>4, <3>5, MovesKeep DEF Trains
  <2>8. CASE PublishGroup(r)
    BY <2>8, PublishGroupKeeps
  <2>9. CASE Train(r)
    BY <2>9, MovesKeep DEF Train, launchVars, procVars, Trains
  <2>10. CASE Trained(r)
    BY <2>10, MovesKeep DEF Trained, launchVars, procVars, Trains
  <2> QED BY <1>1, <2>1, <2>2, <2>3, <2>4, <2>5, <2>6, <2>7, <2>8, <2>9, <2>10 DEF ThreadStep
<1>2. ASSUME NEW p \in Processes, Exit(p) \/ Die(p) \/ Kill(p) PROVE IInv'
  BY <1>2, ExitKeeps, LaunchKeeps
<1>3. ASSUME NEW n \in Nodes, LauncherStep(n) \/ ForkFails(n) PROVE IInv'
  BY <1>3, LauncherExitsKeeps, LaunchKeeps DEF LauncherStep
<1>4. CASE UNCHANGED vars
  <2>1. ThreadsRest /\ UNCHANGED <<files, proc, launcher>>
    BY <1>4 DEF vars, ThreadsRest
  <2>2. FilesRest /\ ReadsRest /\ LaunchRest
    BY <2>1 DEF FilesRest, ReadsRest, LaunchRest, IInv, Types, ReadsInv
  <2> QED BY <2>1, <2>2, OthersKeep
<1> QED BY <1>1, <1>2, <1>3, <1>4 DEF Next

(* ProcessGroup's constructor and the factory, for every configuration:    *)
(* whoever is killed and whatever earlier runs left, the processes of a    *)
(* group give CommInitRank the same ranks and the same id of this run, no  *)
(* read of the id file fails, and every rank trains in groups it belongs   *)
(* to, in which all their ranks are in one group of that name.             *)
THEOREM Agreement == Spec => []GroupsAgree
<1>1. Init => IInv
  BY Starts
<1>2. IInv /\ [Next]_vars => IInv'
  BY Steps
<1>3. IInv => GroupsAgree
  <2> SUFFICES ASSUME IInv PROVE GroupsAgree
    OBVIOUS
  <2>1. Types /\ GivenInv /\ FactoryInv /\ MakersInv
    BY DEF IInv
  <2>2. \A r \in Ranks : pc[r] # "aborted"
    BY <2>1 DEF Types, Making, Trains
  <2>3. ASSUME NEW name \in DOMAIN given, NEW p \in DOMAIN given[name], NEW q \in DOMAIN given[name]
        PROVE  given[name][p] = given[name][q] /\ given[name][p].uid.run = "this"
    <3>1. PICK r \in Ranks : \E own \in ToSet(GroupsOf(r)) :
              own.name = name /\ given[name][p] = [uid |-> IdOf(own), ranks |-> own.ranks]
      BY <2>1 DEF GivenInv
    <3>2. PICK own \in ToSet(GroupsOf(r)) :
              own.name = name /\ given[name][p] = [uid |-> IdOf(own), ranks |-> own.ranks]
      BY <3>1
    <3>3. PICK s \in Ranks : \E other \in ToSet(GroupsOf(s)) :
              other.name = name /\ given[name][q] = [uid |-> IdOf(other), ranks |-> other.ranks]
      BY <2>1 DEF GivenInv
    <3>4. given[name][p] = given[name][q]
      BY <2>1, <3>2, <3>3, GroupFacts
    <3> QED BY <3>2, <3>4 DEF IdOf
  <2>4. ASSUME NEW r \in Ranks, pc[r] \in Trains, NEW i \in DOMAIN GroupsOf(r)
        PROVE  LET own == GroupsOf(r)[i] IN
               /\ groups[ProcessOf(r)][own.name].ranks = own.ranks
               /\ r \in ToSet(own.ranks)
               /\ \A q \in ToSet(own.ranks) : own \in ToSet(GroupsOf(q))
    <3> DEFINE own == GroupsOf(r)[i]
    <3>1. i \in 1..Len(GroupsOf(r))
      <4>1. config \in Configs /\ r \in 0..WorldOf(config)-1
        BY <2>1 DEF Types, Ranks, WorldOf
      <4> QED BY <2>4, <4>1, TableOf DEF GroupsOf
    <3>2. own \in ToSet(GroupsOf(r)) /\ ProcessOf(r) \in Processes
      BY <2>1, <3>1, GroupFacts
    <3>3. own.name \in DOMAIN groups[ProcessOf(r)] /\ groups[ProcessOf(r)][own.name] # Pending
      BY <2>1, <2>4, <3>1 DEF FactoryInv
    <3> HIDE DEF own
    <3>4. \E s \in Ranks : \E other \in ToSet(GroupsOf(s)) :
              other.name = own.name /\ groups[ProcessOf(r)][own.name] = [ranks |-> other.ranks]
      BY <2>1, <3>2, <3>3 DEF FactoryInv, MakersInv
    <3>5. groups[ProcessOf(r)][own.name].ranks = own.ranks
      BY <2>1, <3>2, <3>4, GroupFacts
    <3> QED BY <2>1, <3>2, <3>5, GroupFacts DEF own
  <2> QED BY <2>2, <2>3, <2>4 DEF GroupsAgree, Trains
<1> QED BY <1>1, <1>2, <1>3, PTL DEF Spec
=============================================================================
