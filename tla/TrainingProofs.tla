--------------------------- MODULE TrainingProofs ---------------------------
(***************************************************************************)
(* Proofs about Training, for every number of ranks, steps and launches,   *)
(* every interval and every number of checkpoints kept but one: a          *)
(* checkpoint survives, and a job that is killed and resumed trains as one *)
(* that never was.                                                         *)
(***************************************************************************)
EXTENDS Training, TLAPS, FiniteSetTheorems

Phases == {"resume", "train", "reduce", "save", "prune", "done", "down", "failed"}
Directories == [root : Nat, step : Nat]

(* The ranks that are training: neither resuming nor ended.                *)
Active == {r \in Ranks : pc[r] \notin {"resume", "failed", "down"}}
Down == \E r \in Ranks : pc[r] = "down"

(* The directories of this launch, and the one of rank r's step.           *)
Own(k) == k[1].root = launch
Current(r) == <<[root |-> launch, step |-> step[r]], r>>

(* The files of k that Save writes are complete up to the n-th, and the    *)
(* others are not there.                                                   *)
WrittenUpTo(k, n) ==
    \A i \in DOMAIN SaveOrder :
        disk[k][SaveOrder[i]].status = IF i <= n THEN "complete" ELSE "absent"

Types ==
    /\ launch \in Nat
    /\ load.step \in Nat
    /\ pc \in [Ranks -> Phases]
    /\ step \in [Ranks -> Nat]
    /\ saved \in [Ranks -> Nat]
    /\ DOMAIN disk \subseteq Directories \X Ranks
    /\ \A k \in DOMAIN disk : DOMAIN disk[k] = FileNames

(* A launch saves under a directory of its own, and what a complete        *)
(* trainer_state.json says is the step of its directory.                   *)
DiskInv ==
    \A k \in DOMAIN disk :
        /\ k[1].root <= launch
        /\ disk[k]["trainer_state"].status = "complete" =>
               disk[k]["trainer_state"].content.step = k[1].step

(* Ranks are killed together, and those that train are at one step.        *)
StepsInv ==
    /\ \A q, r \in Ranks : pc[q] = "down" => pc[r] = "down"
    /\ \A q, r \in Active : step[q] = step[r]
    /\ \A r \in Active : step[r] >= load.step
    /\ \A r \in Active, q \in Ranks \ Active : step[r] = load.step
    /\ \A r \in Ranks : pc[r] = "resume" => step[r] = 0
    /\ \A r \in Ranks : saved[r] < Len(SaveOrder)
    /\ \A r \in Ranks : pc[r] \notin {"save", "down"} => saved[r] = 0
    /\ \A r \in Ranks : pc[r] \in {"save", "prune"} =>
           SavesNow(step[r]) /\ step[r] > load.step

(* What this launch has saved, until it is killed: directories of earlier  *)
(* steps are whole, that of the current step is whole for the ranks that   *)
(* have left SaveCheckpoint.                                               *)
SavesInv ==
    ~Down =>
        /\ \A k \in DOMAIN disk : Own(k) =>
              /\ Active = Ranks
              /\ load.step < k[1].step /\ k[1].step <= step[k[2]]
              /\ SavesNow(k[1].step)
              /\ k[1].step < step[k[2]] => \A r \in Ranks : <<k[1], r>> \in DOMAIN disk
              /\ WrittenUpTo(k, IF k[1].step = step[k[2]] /\ pc[k[2]] = "save"
                                THEN saved[k[2]] ELSE Len(SaveOrder))
        /\ \A r \in Active :
              /\ step[r] > load.step /\ SavesNow(step[r])
              /\ pc[r] = "save" => saved[r] > 0
              => Current(r) \in DOMAIN disk

IInv == Types /\ DiskInv /\ StepsInv /\ SavesInv

LEMMA Concatenation ==
    ASSUME NEW S, NEW s \in Seq(S), NEW t \in Seq(S)
    PROVE  /\ s \o t \in Seq(S)
           /\ Len(s \o t) = Len(s) + Len(t)
           /\ \A i \in 1..Len(s) : (s \o t)[i] = s[i]
           /\ \A i \in 1..Len(t) : (s \o t)[Len(s) + i] = t[i]
OBVIOUS

(* SaveOrder names files, each once, trainer_state.json last.              *)
LEMMA SaveOrderFacts ==
    /\ Len(SaveOrder) \in Nat \ {0}
    /\ DOMAIN SaveOrder = 1..Len(SaveOrder)
    /\ \A i \in DOMAIN SaveOrder : SaveOrder[i] \in FileNames
    /\ SaveOrder[Len(SaveOrder)] = "trainer_state"
    /\ \A i, j \in DOMAIN SaveOrder : SaveOrder[i] = SaveOrder[j] => i = j
<1> DEFINE a == <<"model">>
           b == IF HasState THEN <<"optimizer">> ELSE <<>>
           c == IF options.scheduler THEN <<"lr_scheduler">> ELSE <<>>
           d == <<"trainer_state">>
           ab == a \o b
           abc == ab \o c
<1>1. /\ {a, b, c, d} \subseteq Seq(FileNames)
      /\ Len(a) = 1 /\ a[1] = "model"
      /\ Len(b) \in {0, 1} /\ (Len(b) = 1 => b[1] = "optimizer")
      /\ Len(c) \in {0, 1} /\ (Len(c) = 1 => c[1] = "lr_scheduler")
      /\ Len(d) = 1 /\ d[1] = "trainer_state"
  <2>1. ASSUME NEW x \in FileNames
        PROVE  <<x>> \in Seq(FileNames) /\ Len(<<x>>) = 1 /\ <<x>>[1] = x
    OBVIOUS
  <2>2. <<>> \in Seq(FileNames) /\ Len(<<>>) = 0
    OBVIOUS
  <2>3. {"model", "optimizer", "lr_scheduler", "trainer_state"} \subseteq FileNames
    BY DEF FileNames
  <2>4. a \in Seq(FileNames) /\ Len(a) = 1 /\ a[1] = "model"
    BY <2>1, <2>3
  <2>5. b \in Seq(FileNames) /\ Len(b) \in {0, 1} /\ (Len(b) = 1 => b[1] = "optimizer")
    BY <2>1, <2>2, <2>3
  <2>6. c \in Seq(FileNames) /\ Len(c) \in {0, 1} /\ (Len(c) = 1 => c[1] = "lr_scheduler")
    BY <2>1, <2>2, <2>3
  <2>7. d \in Seq(FileNames) /\ Len(d) = 1 /\ d[1] = "trainer_state"
    BY <2>1, <2>3
  <2> QED BY <2>4, <2>5, <2>6, <2>7
<1>2. SaveOrder = abc \o d
  BY DEF SaveOrder
<1> HIDE DEF a, b, c, d
<1>3. \A s, t \in Seq(FileNames) :
          /\ s \o t \in Seq(FileNames)
          /\ Len(s) \in Nat /\ Len(t) \in Nat /\ Len(s \o t) = Len(s) + Len(t)
          /\ \A i \in 1..Len(s) : (s \o t)[i] = s[i]
          /\ \A i \in 1..Len(t) : (s \o t)[Len(s) + i] = t[i]
  BY Concatenation
<1> DEFINE Joins(s, t, st) ==
              /\ st \in Seq(FileNames) /\ Len(st) = Len(s) + Len(t)
              /\ \A i \in 1..Len(s) : st[i] = s[i]
              /\ \A i \in 1..Len(t) : st[Len(s) + i] = t[i]
<1>4. Joins(a, b, ab)
  BY <1>1, <1>3
<1>5. Joins(ab, c, abc)
  <2> HIDE DEF ab
  <2> QED BY <1>1, <1>3, <1>4
<1>6. Joins(abc, d, SaveOrder)
  <2> HIDE DEF abc
  <2> QED BY <1>1, <1>2, <1>3, <1>5
<1> HIDE DEF ab, abc
<1>7. DOMAIN SaveOrder = 1..Len(SaveOrder) /\ Len(SaveOrder) \in 2..4
  <2>1. Len(SaveOrder) = ((1 + Len(b)) + Len(c)) + 1
    BY <1>1, <1>4, <1>5, <1>6
  <2>2. Len(SaveOrder) \in 2..4
    <3>1. \A m, n \in {0, 1} : ((1 + m) + n) + 1 \in 2..4
      OBVIOUS
    <3> QED BY <2>1, <1>1, <3>1
  <2>3. SaveOrder \in Seq(FileNames)
    BY <1>6
  <2>4. DOMAIN SaveOrder = 1..Len(SaveOrder)
    BY ONLY <2>3
  <2> QED BY <2>2, <2>4
<1>8. \A i, j \in DOMAIN SaveOrder : SaveOrder[i] = SaveOrder[j] => i = j
  <2>1. CASE Len(b) = 0 /\ Len(c) = 0
    BY <2>1, <1>1, <1>4, <1>5, <1>6, <1>7
  <2>2. CASE Len(b) = 1 /\ Len(c) = 0
    BY <2>2, <1>1, <1>4, <1>5, <1>6, <1>7
  <2>3. CASE Len(b) = 0 /\ Len(c) = 1
    BY <2>3, <1>1, <1>4, <1>5, <1>6, <1>7
  <2>4. CASE Len(b) = 1 /\ Len(c) = 1
    BY <2>4, <1>1, <1>4, <1>5, <1>6, <1>7
  <2> QED BY <1>1, <2>1, <2>2, <2>3, <2>4
<1>9. SaveOrder[Len(SaveOrder)] = "trainer_state"
  BY <1>1, <1>4, <1>5, <1>6
<1> QED BY <1>6, <1>7, <1>8, <1>9

(* A non-empty set of naturals has a least element.                        *)
LEMMA LeastNat ==
    ASSUME NEW T \in SUBSET Nat, T # {}
    PROVE  \E x \in T : \A y \in T : x <= y
<1> DEFINE I == {0..x : x \in T}
           R == StrictSubsetOrdering(Nat)
           F == FiniteSubsetsOf(Nat)
<1>1. I \subseteq F
  <2>1. ASSUME NEW x \in T PROVE 0..x \in F
    <3>1. x \in Int /\ 0 \in Int
      OBVIOUS
    <3>2. IsFiniteSet(0..x)
      BY <3>1, FS_Interval
    <3>3. 0..x \in SUBSET Nat
      OBVIOUS
    <3> QED BY <3>2, <3>3 DEF FiniteSubsetsOf
  <2> HIDE DEF F
  <2> QED BY <2>1
<1>2. I # {}
  OBVIOUS
<1>3. IsWellFoundedOn(R, F)
  BY FS_StrictSubsetOrderingWellFounded
<1> HIDE DEF F
<1>4. PICK s \in I : \A u \in I : <<u, s>> \notin R
  <2> HIDE DEF I, R
  <2> QED BY <1>1, <1>2, <1>3, WFMin
<1>5. PICK x \in T : s = 0..x
  OBVIOUS
<1>6. ASSUME NEW y \in T PROVE x <= y
  <2>1. SUFFICES ASSUME y < x PROVE FALSE
    OBVIOUS
  <2>2. <<0..y, 0..x>> \in R
    <3>1. 0..y \subseteq 0..x
      BY <2>1
    <3>2. x \in 0..x /\ x \notin 0..y
      BY <2>1
    <3> QED BY <3>1, <3>2 DEF StrictSubsetOrdering
  <2> QED BY <2>2, <1>4, <1>5
<1> QED BY <1>6

LEMMA MainRank == 0 \in Ranks /\ Ranks \subseteq Nat
BY TrainingAssumption DEF Ranks

(* A directory can be restored from if every file of every rank is there.  *)
LEMMA RestorableMeans ==
    ASSUME NEW dk, NEW d
    PROVE  d \in Restorable(dk) <=>
              \A r \in Ranks : /\ <<d, r>> \in DOMAIN dk
                              /\ \A i \in DOMAIN SaveOrder :
                                    dk[<<d, r>>][SaveOrder[i]].status = "complete"
<1>1. d \in Restorable(dk) <=>
         /\ d \in {k[1] : k \in DOMAIN dk}
         /\ \A r \in Ranks : <<d, r>> \in DOMAIN dk
                            /\ dk[<<d, r>>]["trainer_state"].status = "complete"
         /\ \A r \in Ranks, i \in DOMAIN SaveOrder :
                dk[<<d, r>>][SaveOrder[i]].status = "complete"
  BY DEF Restorable, WholeDirs
<1>2. (\A r \in Ranks : <<d, r>> \in DOMAIN dk) => d \in {k[1] : k \in DOMAIN dk}
  <2>1. SUFFICES ASSUME \A r \in Ranks : <<d, r>> \in DOMAIN dk
                 PROVE  \E k \in DOMAIN dk : d = k[1]
    OBVIOUS
  <2>2. <<d, 0>> \in DOMAIN dk
    BY <2>1, MainRank
  <2> QED BY <2>2
<1> QED BY <1>1, <1>2, SaveOrderFacts

(* What the theorem needs of the settings: launches save under directories *)
(* of their own, and pruning keeps at least two or everything.             *)
Settings == FreshRoots /\ MaxKeep # 1

LEMMA InitInv == Init => IInv
<1> SUFFICES ASSUME Init PROVE IInv
  OBVIOUS
<1>1. Types
  BY TrainingAssumption DEF Init, Types, NoDir, Phases
<1>2. DiskInv
  BY DEF Init, DiskInv
<1>3. StepsInv
  BY SaveOrderFacts DEF Init, StepsInv, Active
<1>4. SavesInv
  BY DEF Init, SavesInv, Active
<1> QED BY <1>1, <1>2, <1>3, <1>4 DEF IInv

(* Steps that write no file and leave every rank where it was, as far as   *)
(* checkpoints are concerned.                                              *)
LEMMA QuietInv ==
    ASSUME IInv, NEW r \in Ranks, NEW to \in {"reduce", "done"},
           pc[r] = "train", pc' = [pc EXCEPT ![r] = to],
           UNCHANGED <<options, launch, load, disk, step, saved>>
    PROVE  IInv'
<1>1. SaveOrder' = SaveOrder
  BY DEF SaveOrder, HasState
<1>2. Active' = Active /\ Down' = Down
  BY DEF Active, Down, IInv, Types, Phases
<1>3. Types'
  BY DEF Types, IInv, Phases
<1>4. DiskInv'
  BY DEF DiskInv, IInv
<1>5. StepsInv'
  BY <1>1, <1>2 DEF StepsInv, IInv, Types, SavesNow, LastStep
<1>6. SavesInv'
  BY <1>1, <1>2 DEF SavesInv, IInv, Types, SavesNow, LastStep, Own, Current, WrittenUpTo, Active
<1> QED BY <1>3, <1>4, <1>5, <1>6 DEF IInv

LEMMA ResumeInv ==
    ASSUME IInv, NEW r \in Ranks, ResumeFromCheckpoint(r)
    PROVE  IInv'
<1>1. SaveOrder' = SaveOrder
  BY DEF SaveOrder, HasState, ResumeFromCheckpoint
<1>2. /\ pc[r] = "resume"
      /\ UNCHANGED <<options, launch, load, disk, saved>>
  BY DEF ResumeFromCheckpoint
<1>3. ~Down /\ r \notin Active /\ r \in Ranks
  BY <1>2 DEF Down, Active, IInv, StepsInv
<1>4. \/ pc' = [pc EXCEPT ![r] = "failed"] /\ step' = step
      \/ pc' = [pc EXCEPT ![r] = "train"] /\ step' = [step EXCEPT ![r] = load.step]
  <2>1. CASE load = NoDir /\ pc' = [pc EXCEPT ![r] = "train"] /\ step' = step
    <3>1. step[r] = 0 /\ load.step = 0 /\ step \in [Ranks -> Nat]
      BY <1>2, <2>1 DEF IInv, Types, StepsInv, NoDir
    <3> QED BY <2>1, <3>1
  <2>2. CASE /\ Files(load, r)["trainer_state"].status = "complete"
             /\ pc' = [pc EXCEPT ![r] = "train"]
             /\ step' = [step EXCEPT ![r] =
                            Files(load, r)["trainer_state"].content.step]
    <3>1. NoFiles["trainer_state"].status = "absent"
      BY DEF NoFiles, Absent, FileNames
    <3>2. <<load, r>> \in DOMAIN disk /\ Files(load, r) = disk[<<load, r>>]
      BY <2>2, <3>1 DEF Files
    <3>3. Files(load, r)["trainer_state"].content.step = load.step
      BY <2>2, <3>2 DEF IInv, DiskInv
    <3> QED BY <2>2, <3>3
  <2>3. CASE Abort(r)
    BY <2>3 DEF Abort
  <2> QED BY <2>1, <2>2, <2>3 DEF ResumeFromCheckpoint
<1>5. Types'
  BY <1>2, <1>4 DEF Types, IInv, Phases
<1>6. DiskInv'
  BY <1>2 DEF DiskInv, IInv
<1>7. ~Down' /\ Active' \subseteq Active \cup {r}
  BY <1>3, <1>4 DEF Active, Down, IInv, Types
<1>8. \A q \in Active' : step'[q] = load.step
  BY <1>2, <1>3, <1>4, <1>7 DEF Active, IInv, StepsInv, Types
<1>9. StepsInv'
  BY <1>1, <1>2, <1>3, <1>4, <1>5, <1>7, <1>8 DEF StepsInv, IInv, Types, Active
<1>10. \A k \in DOMAIN disk : ~Own(k)
  BY <1>3 DEF SavesInv, IInv, Active
<1>11. SavesInv'
  BY <1>2, <1>5, <1>7, <1>8, <1>10 DEF SavesInv, Own, Types
<1> QED BY <1>5, <1>6, <1>9, <1>11 DEF IInv

LEMMA OptimizerStepInv ==
    ASSUME IInv, OptimizerStep
    PROVE  IInv'
<1>1. SaveOrder' = SaveOrder
  BY DEF SaveOrder, HasState, OptimizerStep
<1>2. /\ \A r \in Ranks : pc[r] = "reduce" /\ step[r] \in Nat
      /\ step' = [r \in Ranks |-> step[r] + 1]
      /\ pc' = [r \in Ranks |-> IF SavesNow(step[r] + 1) THEN "save" ELSE "train"]
      /\ UNCHANGED <<options, launch, load, disk, saved>>
  BY DEF OptimizerStep, IInv, Types
<1>3. Active = Ranks /\ Active' = Ranks /\ ~Down /\ ~Down'
  BY <1>2 DEF Active, Down
<1>4. Types'
  BY <1>2 DEF Types, IInv, Phases
<1>5. DiskInv'
  BY <1>2 DEF DiskInv, IInv
<1>6. StepsInv'
  BY <1>1, <1>2, <1>3, <1>4, SMTT(20) DEF StepsInv, IInv, Types
<1>7. SavesInv'
  <2>1. ASSUME NEW k \in DOMAIN disk, Own(k)
        PROVE  /\ load.step < k[1].step /\ k[1].step < step'[k[2]]
               /\ SavesNow(k[1].step)
               /\ \A r \in Ranks : <<k[1], r>> \in DOMAIN disk
               /\ WrittenUpTo(k, Len(SaveOrder))
    <3>1. k = <<k[1], k[2]>> /\ k[1] \in Directories /\ k[2] \in Ranks
      BY DEF IInv, Types
    <3>2. load.step < k[1].step /\ k[1].step <= step[k[2]] /\ SavesNow(k[1].step)
          /\ WrittenUpTo(k, Len(SaveOrder))
      BY <1>2, <1>3, <2>1, <3>1 DEF IInv, SavesInv
    <3>3. CASE k[1].step < step[k[2]]
      BY <1>2, <1>3, <2>1, <3>1, <3>2, <3>3 DEF IInv, SavesInv, Directories
    <3>4. CASE k[1].step = step[k[2]]
      <4>1. ASSUME NEW r \in Ranks PROVE <<k[1], r>> \in DOMAIN disk
        <5>1. step[r] = k[1].step
          BY <1>3, <3>1, <3>4 DEF IInv, StepsInv
        <5>2. k[1] = [root |-> launch, step |-> step[r]]
          BY <2>1, <3>1, <5>1 DEF Own, Directories
        <5>3. step[r] > load.step /\ SavesNow(step[r]) /\ pc[r] # "save"
          BY <1>2, <3>1, <3>2, <5>1 DEF Directories, IInv, Types
        <5>4. Current(r) \in DOMAIN disk
          BY <1>3, <5>3 DEF IInv, SavesInv
        <5> QED BY <5>2, <5>4 DEF Current
      <4> QED BY <1>2, <3>1, <3>2, <3>4, <4>1 DEF Directories
    <3> QED BY <1>2, <3>1, <3>2, <3>3, <3>4 DEF Directories
  <2>2. ASSUME NEW k \in DOMAIN disk', Own(k)'
        PROVE  /\ Active' = Ranks
               /\ load.step' < k[1].step /\ k[1].step <= step'[k[2]]
               /\ SavesNow(k[1].step)
               /\ k[1].step < step'[k[2]] => \A r \in Ranks : <<k[1], r>> \in DOMAIN disk'
               /\ WrittenUpTo(k, IF k[1].step = step[k[2]] /\ pc[k[2]] = "save"
                                 THEN saved[k[2]] ELSE Len(SaveOrder))'
    <3>1. k \in DOMAIN disk /\ Own(k) /\ k[1].step \in Nat /\ step'[k[2]] \in Nat
      BY <1>2, <2>2 DEF Own, IInv, Types, Directories
    <3>2. WrittenUpTo(k, Len(SaveOrder))'
      BY <1>1, <1>2, <2>1, <3>1 DEF WrittenUpTo
    <3> QED BY <1>1, <1>2, <1>3, <2>1, <3>1, <3>2
  <2>3. ASSUME NEW r \in Active'
        PROVE  ~(/\ step'[r] > load.step' /\ SavesNow(step'[r])
                 /\ pc'[r] = "save" => saved'[r] > 0)
    BY <1>2, <1>3 DEF IInv, StepsInv
  <2> QED BY <2>2, <2>3 DEF SavesInv
<1> QED BY <1>4, <1>5, <1>6, <1>7 DEF IInv

LEMMA WriteFacts ==
    ASSUME IInv, Settings, NEW r \in Ranks, WriteFile(r)
    PROVE  LET n == saved[r] + 1
               last == n = Len(SaveOrder)
               k0 == Current(r)
           IN
           /\ pc[r] = "save" /\ ~Down /\ Active = Ranks
           /\ n \in DOMAIN SaveOrder
           /\ k0 \in Directories \X Ranks /\ Own(k0)
           /\ k0 \in DOMAIN disk => WrittenUpTo(k0, saved[r])
           /\ DOMAIN disk' = DOMAIN disk \cup {k0}
           /\ \A k \in DOMAIN disk : k # k0 => disk'[k] = disk[k]
           /\ DOMAIN disk'[k0] = FileNames
           /\ \A i \in DOMAIN SaveOrder :
                 disk'[k0][SaveOrder[i]].status = IF i <= n THEN "complete" ELSE "absent"
           /\ disk'[k0]["trainer_state"].status = "complete" =>
                 disk'[k0]["trainer_state"].content.step = step[r]
           /\ saved' = [saved EXCEPT ![r] = IF last THEN 0 ELSE n]
           /\ pc' = [pc EXCEPT ![r] = IF last THEN AfterSave(r) ELSE "save"]
           /\ UNCHANGED <<options, launch, load, step>>
<1> DEFINE n == saved[r] + 1
           last == n = Len(SaveOrder)
           k0 == Current(r)
           f == NextFile(r)
           file == Complete(Content(f, r))
           old == IF k0 \in DOMAIN disk THEN disk[k0] ELSE NoFiles
<1>1. /\ pc[r] = "save" /\ step[r] \in Nat /\ saved[r] \in Nat /\ launch \in Nat
      /\ pc \in [Ranks -> Phases]
  BY DEF WriteFile, IInv, Types
<1>2. ~Down /\ step[r] > load.step
  BY <1>1 DEF Down, IInv, StepsInv
<1>3. Active = Ranks
  <2>1. r \in Active
    BY <1>1 DEF Active
  <2>2. load.step \in Nat /\ \A q \in Ranks \ Active : step[r] = load.step
    BY <2>1 DEF IInv, StepsInv, Types
  <2> QED BY <1>1, <1>2, <2>2 DEF Active
<1>4. n \in DOMAIN SaveOrder
  BY <1>1, SaveOrderFacts DEF IInv, StepsInv
<1>5. k0 \in Directories \X Ranks /\ Own(k0) /\ k0 = <<StepDir(r), r>>
  BY <1>1 DEF Current, Own, Directories, StepDir, Root, Settings
<1>6. k0 \in DOMAIN disk => WrittenUpTo(k0, saved[r])
  BY <1>1, <1>2, <1>5 DEF IInv, SavesInv, Current
<1>7. k0 \notin DOMAIN disk => saved[r] = 0
  BY <1>1, <1>2, <1>3 DEF IInv, SavesInv, StepsInv
<1>8. f = SaveOrder[n] /\ f \in FileNames
  BY <1>4, SaveOrderFacts DEF NextFile
<1>9. DOMAIN old = FileNames
      /\ \A i \in DOMAIN SaveOrder :
            old[SaveOrder[i]].status = IF i <= saved[r] THEN "complete" ELSE "absent"
  <2>1. CASE k0 \in DOMAIN disk
    BY <2>1, <1>6 DEF WrittenUpTo, IInv, Types
  <2>2. CASE k0 \notin DOMAIN disk
    BY <2>2, <1>7, SaveOrderFacts DEF NoFiles, Absent
  <2> QED BY <2>1, <2>2
<1>10. disk' = [k \in DOMAIN disk \cup {k0} |->
                  IF k = k0 THEN [old EXCEPT ![f] = file] ELSE disk[k]]
  BY <1>5 DEF WriteFile, Written
<1>11. /\ DOMAIN disk' = DOMAIN disk \cup {k0}
       /\ \A k \in DOMAIN disk : k # k0 => disk'[k] = disk[k]
       /\ disk'[k0] = [old EXCEPT ![f] = file]
  <2> HIDE DEF k0, old, f, file
  <2> QED BY <1>10
<1>12. file.status = "complete" /\ (f = "trainer_state" => file.content.step = step[r])
  BY DEF Complete, Content
<1>13. \A i \in DOMAIN SaveOrder :
          disk'[k0][SaveOrder[i]].status = IF i <= n THEN "complete" ELSE "absent"
  <2>1. ASSUME NEW i \in DOMAIN SaveOrder
        PROVE  disk'[k0][SaveOrder[i]].status = IF i <= n THEN "complete" ELSE "absent"
    <3> HIDE DEF k0, old, f, file
    <3>1. i \in Nat /\ n \in Nat /\ SaveOrder[i] \in FileNames
      BY <1>1, SaveOrderFacts
    <3>2. CASE i = n
      BY <3>1, <3>2, <1>8, <1>9, <1>11, <1>12
    <3>3. CASE i # n
      <4>1. SaveOrder[i] # f
        BY <3>3, <1>4, <1>8, SaveOrderFacts
      <4>2. disk'[k0][SaveOrder[i]] = old[SaveOrder[i]]
        BY <3>1, <4>1, <1>9, <1>11
      <4>3. i <= saved[r] <=> i <= n
        BY <1>1, <3>1, <3>3
      <4> QED BY <4>2, <4>3, <1>9
    <3> QED BY <3>2, <3>3
  <2> QED BY <2>1
<1>14. disk'[k0]["trainer_state"].status = "complete" =>
          disk'[k0]["trainer_state"].content.step = step[r]
  <2>1. CASE f = "trainer_state"
    <3> HIDE DEF k0, old, f, file
    <3> QED BY <2>1, <1>8, <1>9, <1>11, <1>12
  <2>2. CASE f # "trainer_state"
    <3>1. n # Len(SaveOrder)
      BY <2>2, <1>8, SaveOrderFacts
    <3>2. Len(SaveOrder) \in DOMAIN SaveOrder /\ ~(Len(SaveOrder) <= n)
      BY <1>4, <3>1, SaveOrderFacts
    <3> HIDE DEF k0, old, f, file
    <3>3. disk'[k0]["trainer_state"].status = "absent"
      BY <3>2, <1>13, SaveOrderFacts
    <3> QED BY <3>3
  <2> QED BY <2>1, <2>2
<1>15. /\ saved' = [saved EXCEPT ![r] = IF last THEN 0 ELSE n]
       /\ pc' = [pc EXCEPT ![r] = IF last THEN AfterSave(r) ELSE "save"]
       /\ UNCHANGED <<options, launch, load, step>>
  BY <1>1 DEF WriteFile
<1>16. DOMAIN disk'[k0] = FileNames
  <2> HIDE DEF k0, old, f, file
  <2> QED BY <1>9, <1>11
<1> QED BY <1>1, <1>2, <1>3, <1>4, <1>5, <1>6, <1>11, <1>13, <1>14, <1>15, <1>16

LEMMA WriteFileInv ==
    ASSUME IInv, Settings, NEW r \in Ranks, WriteFile(r)
    PROVE  IInv'
<1> DEFINE n == saved[r] + 1
           last == n = Len(SaveOrder)
           k0 == Current(r)
<1>1. SaveOrder' = SaveOrder
  BY DEF SaveOrder, HasState, WriteFile
<1>2. /\ pc[r] = "save" /\ ~Down /\ Active = Ranks
      /\ n \in DOMAIN SaveOrder
      /\ k0 \in Directories \X Ranks /\ Own(k0)
      /\ k0 \in DOMAIN disk => WrittenUpTo(k0, saved[r])
      /\ DOMAIN disk' = DOMAIN disk \cup {k0}
      /\ \A k \in DOMAIN disk : k # k0 => disk'[k] = disk[k]
      /\ DOMAIN disk'[k0] = FileNames
      /\ \A i \in DOMAIN SaveOrder :
            disk'[k0][SaveOrder[i]].status = IF i <= n THEN "complete" ELSE "absent"
      /\ disk'[k0]["trainer_state"].status = "complete" =>
            disk'[k0]["trainer_state"].content.step = step[r]
      /\ saved' = [saved EXCEPT ![r] = IF last THEN 0 ELSE n]
      /\ pc' = [pc EXCEPT ![r] = IF last THEN AfterSave(r) ELSE "save"]
      /\ UNCHANGED <<options, launch, load, step>>
  BY WriteFacts
<1>3. k0[1].step = step[r] /\ k0[2] = r /\ k0[1].root = launch
  BY DEF Current
<1>4. /\ pc \in [Ranks -> Phases] /\ step \in [Ranks -> Nat] /\ saved \in [Ranks -> Nat]
      /\ launch \in Nat /\ load.step \in Nat
      /\ DOMAIN disk \subseteq Directories \X Ranks
      /\ step[r] > load.step /\ SavesNow(step[r])
  BY <1>2 DEF IInv, Types, StepsInv
<1>5. AfterSave(r) \in {"prune", "train"}
  BY DEF AfterSave
<1>6. Active' = Ranks /\ ~Down'
  BY <1>2, <1>4, <1>5 DEF Active, Down
<1> HIDE DEF k0
<1>7. Types'
  <2>1. pc' \in [Ranks -> Phases]
    BY <1>2, <1>4, <1>5 DEF Phases
  <2>2. \A k \in DOMAIN disk' : DOMAIN disk'[k] = FileNames
    BY <1>2 DEF IInv, Types
  <2> QED BY <1>2, <1>4, <2>1, <2>2 DEF Types
<1>8. DiskInv'
  BY <1>2, <1>3, <1>4 DEF DiskInv, IInv
<1>9. StepsInv'
  <2>1. \A q \in Ranks : saved'[q] < Len(SaveOrder)
    <3>1. Len(SaveOrder) \in Nat \ {0} /\ n <= Len(SaveOrder)
      BY <1>2, SaveOrderFacts
    <3> QED BY <1>2, <1>4, <3>1 DEF IInv, StepsInv
  <2>2. \A q \in Ranks : pc'[q] \notin {"save", "down"} => saved'[q] = 0
    BY <1>2, <1>4, <1>5 DEF IInv, StepsInv
  <2>3. \A q \in Ranks : pc'[q] \in {"save", "prune"} =>
            SavesNow(step'[q]) /\ step'[q] > load'.step
    BY <1>2, <1>4, <1>5 DEF IInv, StepsInv
  <2> QED BY <1>1, <1>2, <1>4, <1>5, <1>6, <2>1, <2>2, <2>3 DEF IInv, StepsInv, Down
<1>10. SavesInv'
  <2>1. ASSUME NEW k \in DOMAIN disk', Own(k)'
        PROVE  /\ load'.step < k[1].step /\ k[1].step <= step'[k[2]]
               /\ SavesNow(k[1].step)
               /\ k[1].step < step'[k[2]] => \A q \in Ranks : <<k[1], q>> \in DOMAIN disk'
               /\ WrittenUpTo(k, IF k[1].step = step[k[2]] /\ pc[k[2]] = "save"
                                 THEN saved[k[2]] ELSE Len(SaveOrder))'
    <3>1. CASE k = k0
      <4>1. (IF k[1].step = step'[k[2]] /\ pc'[k[2]] = "save"
             THEN saved'[k[2]] ELSE Len(SaveOrder)) = n
        BY <3>1, <1>2, <1>3, <1>4, <1>5
      <4>2. WrittenUpTo(k, IF k[1].step = step[k[2]] /\ pc[k[2]] = "save"
                           THEN saved[k[2]] ELSE Len(SaveOrder))'
        BY <3>1, <4>1, <1>1, <1>2 DEF WrittenUpTo
      <4> QED BY <3>1, <4>2, <1>2, <1>3, <1>4
    <3>2. CASE k # k0
      <4>1. k \in DOMAIN disk /\ Own(k) /\ disk'[k] = disk[k]
        BY <2>1, <3>2, <1>2 DEF Own
      <4>2. /\ load.step < k[1].step /\ k[1].step <= step[k[2]]
            /\ SavesNow(k[1].step)
            /\ k[1].step < step[k[2]] => \A q \in Ranks : <<k[1], q>> \in DOMAIN disk
            /\ WrittenUpTo(k, IF k[1].step = step[k[2]] /\ pc[k[2]] = "save"
                              THEN saved[k[2]] ELSE Len(SaveOrder))
        BY <4>1, <1>2 DEF IInv, SavesInv
      <4>3. k[1] \in Directories /\ k[2] \in Ranks /\ k = <<k[1], k[2]>>
        BY <4>1, <1>4
      <4>4. k[2] = r => k[1].step # step[r]
        <5>1. k[2] = r /\ k[1].step = step[r] => k = k0
          BY <4>1, <4>3 DEF Own, Current, Directories, k0
        <5> QED BY <5>1, <3>2
      <4>5. (IF k[1].step = step'[k[2]] /\ pc'[k[2]] = "save"
             THEN saved'[k[2]] ELSE Len(SaveOrder))
            = (IF k[1].step = step[k[2]] /\ pc[k[2]] = "save"
               THEN saved[k[2]] ELSE Len(SaveOrder))
        BY <4>3, <4>4, <1>2, <1>4
      <4>6. WrittenUpTo(k, IF k[1].step = step[k[2]] /\ pc[k[2]] = "save"
                           THEN saved[k[2]] ELSE Len(SaveOrder))'
        BY <4>1, <4>2, <4>5, <1>1 DEF WrittenUpTo
      <4> QED BY <4>2, <4>6, <1>2
    <3> QED BY <3>1, <3>2
  <2>2. ASSUME NEW q \in Active',
               step'[q] > load'.step, SavesNow(step'[q]),
               pc'[q] = "save" => saved'[q] > 0
        PROVE  Current(q)' \in DOMAIN disk'
    <3>1. Current(q)' = Current(q) /\ q \in Ranks
      BY <1>2, <1>6, <2>2 DEF Current
    <3>2. CASE q = r
      BY <3>1, <3>2, <1>2 DEF k0
    <3>3. CASE q # r
      <4>1. Current(q) \in DOMAIN disk
        BY <2>2, <3>1, <3>3, <1>2, <1>4 DEF IInv, SavesInv
      <4> QED BY <3>1, <4>1, <1>2
    <3> QED BY <3>2, <3>3
  <2> QED BY <1>6, <2>1, <2>2 DEF SavesInv
<1> QED BY <1>7, <1>8, <1>9, <1>10 DEF IInv

Dirs == {d \in {k[1] : k \in DOMAIN disk} : d.root = launch}
Newer(d) == {e \in Dirs : e.step > d.step}

(* What pruning may remove has at least two newer directories.             *)
LEMMA PrunedMeans ==
    ASSUME IInv, Settings, NEW d
    PROVE  /\ d \in Pruned => d \in Dirs /\ Newer(d) # {}
                              /\ ~\E x : Newer(d) = {x}
           /\ Pruned \subseteq Dirs
           /\ Dirs \subseteq Directories
<1>1. Pruned = IF MaxKeep = 0 THEN {}
               ELSE {x \in Dirs : Cardinality(Newer(x)) >= MaxKeep}
  BY DEF Pruned, Dirs, Newer, Root, Settings
<1>2. Dirs \subseteq Directories
  BY DEF Dirs, IInv, Types
<1>3. Newer(d) = {} => Cardinality(Newer(d)) = 0
  BY FS_EmptySet
<1>4. \A x : Newer(d) = {x} => Cardinality(Newer(d)) = 1
  BY FS_Singleton
<1>5. d \in Pruned => MaxKeep \in Nat /\ MaxKeep >= 2 /\ d \in Dirs
                     /\ Cardinality(Newer(d)) >= MaxKeep
  BY <1>1, TrainingAssumption DEF Settings
<1> QED BY <1>1, <1>2, <1>3, <1>4, <1>5

(* While rank 0 prunes, the directory of its step is there, and the newest.*)
LEMMA CurrentIsNewest ==
    ASSUME IInv, Settings, pc[0] = "prune"
    PROVE  LET top == [root |-> launch, step |-> step[0]] IN
           /\ ~Down /\ Active = Ranks
           /\ top \in Dirs
           /\ \A d \in Dirs : d.step <= step[0]
           /\ \A d \in Dirs : d.step = step[0] => d = top
<1> DEFINE top == [root |-> launch, step |-> step[0]]
<1>1. 0 \in Ranks /\ 0 \in Active /\ ~Down
  BY MainRank DEF Active, Down, IInv, StepsInv
<1>2. step[0] > load.step /\ SavesNow(step[0]) /\ load.step \in Nat /\ step[0] \in Nat
  BY <1>1 DEF IInv, StepsInv, Types
<1>3. Current(0) \in DOMAIN disk
  BY <1>1, <1>2 DEF IInv, SavesInv
<1>4. top \in Dirs
  <2>1. Current(0)[1] = top /\ top.root = launch
    BY DEF Current
  <2> QED BY <1>3, <2>1 DEF Dirs
<1>5. Active = Ranks
  <2>1. \A q \in Ranks \ Active : step[0] = load.step
    BY <1>1 DEF IInv, StepsInv
  <2> QED BY <1>2, <2>1 DEF Active
<1>6. ASSUME NEW d \in Dirs PROVE d.step <= step[0] /\ (d.step = step[0] => d = top)
  <2>1. PICK k \in DOMAIN disk : d = k[1] /\ Own(k)
    BY DEF Dirs, Own
  <2>2. k[1] \in Directories /\ k[2] \in Ranks
    BY DEF IInv, Types
  <2>3. k[1].step <= step[k[2]]
    BY <1>1, <2>1 DEF IInv, SavesInv
  <2>4. step[k[2]] = step[0]
    BY <1>1, <1>5, <2>2 DEF IInv, StepsInv
  <2> QED BY <2>1, <2>2, <2>3, <2>4 DEF Directories, Own
<1> QED BY <1>1, <1>4, <1>5, <1>6

(* Of the directories that pruning leaves, one is whole and newer than the *)
(* pruned ones: the newest but one, for all ranks have come past its step. *)
LEMMA PruneKeeps ==
    ASSUME IInv, Settings, pc[0] = "prune", NEW d \in Pruned
    PROVE  \E e \in Restorable(disk) :
              e \notin Pruned /\ e.root = d.root /\ e.step > d.step
<1> DEFINE top == [root |-> launch, step |-> step[0]]
           Older == {e \in Dirs : e.step < step[0]}
           T == {step[0] - e.step : e \in Older}
<1>1. /\ ~Down /\ Active = Ranks /\ top \in Dirs
      /\ \A e \in Dirs : e.step <= step[0]
      /\ \A e \in Dirs : e.step = step[0] => e = top
  BY CurrentIsNewest
<1>2. step[0] \in Nat /\ Dirs \subseteq Directories
  BY MainRank, PrunedMeans DEF IInv, Types
<1>3. d \in Dirs /\ Newer(d) # {}
  BY PrunedMeans
<1>4. d \in Older
  <2>1. PICK e \in Dirs : e.step > d.step
    BY <1>3 DEF Newer
  <2>2. d.step \in Nat /\ e.step \in Nat /\ e.step <= step[0]
    BY <1>1, <1>2, <1>3 DEF Directories
  <2> QED BY <1>2, <1>3, <2>1, <2>2
<1>5. T \in SUBSET Nat /\ T # {}
  BY <1>2, <1>4 DEF Directories
<1>6. PICK e \in Older : \A x \in Older : step[0] - e.step <= step[0] - x.step
  <2>1. PICK m \in T : \A y \in T : m <= y
    BY <1>5, LeastNat
  <2> QED BY <2>1
<1>7. e \in Dirs /\ e.step \in Nat /\ e.step < step[0]
  BY <1>2, <1>6 DEF Directories
<1>8. Newer(e) = {top}
  <2>1. ASSUME NEW x \in Newer(e) PROVE x = top
    <3>1. x \in Dirs /\ x.step \in Nat /\ x.step > e.step /\ x.step <= step[0]
      BY <1>1, <1>2 DEF Newer, Directories
    <3>2. x \notin Older
      BY <1>2, <1>6, <1>7, <3>1
    <3> QED BY <1>1, <1>2, <3>1, <3>2
  <2>2. top \in Newer(e)
    BY <1>1, <1>7 DEF Newer
  <2> QED BY <2>1, <2>2
<1>9. e \notin Pruned
  BY <1>8, PrunedMeans
<1>10. e \in Restorable(disk)
  <2>1. PICK k \in DOMAIN disk : e = k[1] /\ Own(k)
    BY <1>7 DEF Dirs, Own
  <2>2. k[2] \in Ranks /\ step[k[2]] = step[0]
    BY <1>1, MainRank DEF IInv, Types, StepsInv
  <2>3. ASSUME NEW r \in Ranks
        PROVE  /\ <<e, r>> \in DOMAIN disk
               /\ \A i \in DOMAIN SaveOrder : disk[<<e, r>>][SaveOrder[i]].status = "complete"
    <3>1. <<e, r>> \in DOMAIN disk /\ Own(<<e, r>>)
      BY <1>1, <1>7, <2>1, <2>2 DEF IInv, SavesInv, Own
    <3>2. step[r] = step[0]
      BY <1>1, MainRank DEF IInv, StepsInv
    <3>3. WrittenUpTo(<<e, r>>, Len(SaveOrder))
      BY <1>1, <1>7, <3>1, <3>2 DEF IInv, SavesInv
    <3> QED BY <3>1, <3>3, SaveOrderFacts DEF WrittenUpTo
  <2> QED BY <2>3, RestorableMeans
<1>11. e.root = d.root /\ e.step > d.step
  <2>1. e.root = launch /\ d.root = launch /\ d.step \in Nat /\ d.step <= e.step
    BY <1>2, <1>3, <1>4, <1>6, <1>7 DEF Dirs, Directories
  <2>2. d # e
    BY <1>8, PrunedMeans
  <2>3. d.step # e.step
    <3>1. d \in Directories /\ e \in Directories
      BY <1>2, <1>3, <1>7
    <3> QED BY <2>1, <2>2, <3>1 DEF Directories
  <2> QED BY <1>7, <2>1, <2>3
<1> QED BY <1>9, <1>10, <1>11

(* If there is a checkpoint to restore from, pruning leaves one.           *)
LEMMA PruneLeaves ==
    ASSUME IInv, Settings, pc[0] = "prune", NEW d \in Restorable(disk)
    PROVE  \E e \in Restorable(disk) : e \notin Pruned
BY PruneKeeps

LEMMA PruneInv ==
    ASSUME IInv, Settings, Prune
    PROVE  IInv'
<1> DEFINE top == [root |-> launch, step |-> step[0]]
<1>1. SaveOrder' = SaveOrder
  BY DEF SaveOrder, HasState, Prune
<1>2. /\ pc[0] = "prune" /\ pc' = [pc EXCEPT ![0] = "train"]
      /\ disk' = [k \in {j \in DOMAIN disk : j[1] \notin Pruned} |-> disk[k]]
      /\ UNCHANGED <<options, launch, load, step, saved>>
  BY DEF Prune
<1>3. /\ ~Down /\ Active = Ranks /\ top \in Dirs
      /\ \A d \in Dirs : d.step <= step[0]
  BY <1>2, CurrentIsNewest
<1>4. /\ DOMAIN disk' = {k \in DOMAIN disk : k[1] \notin Pruned}
      /\ \A k \in DOMAIN disk' : disk'[k] = disk[k]
  <2> HIDE DEF Pruned
  <2> QED BY <1>2
<1>5. /\ pc \in [Ranks -> Phases] /\ step \in [Ranks -> Nat] /\ 0 \in Ranks
      /\ \A r \in Ranks : step[r] = step[0]
  BY <1>3, MainRank DEF IInv, Types, StepsInv
<1>6. Active' = Ranks /\ ~Down'
  BY <1>2, <1>3, <1>5 DEF Active, Down
<1>7. Types'
  BY <1>2, <1>4, <1>5 DEF Types, IInv, Phases
<1>8. DiskInv'
  BY <1>2, <1>4 DEF DiskInv, IInv
<1>9. StepsInv'
  BY <1>1, <1>2, <1>3, <1>5, <1>6 DEF StepsInv, IInv, Down
<1>10. SavesInv'
  <2>1. ASSUME NEW k \in DOMAIN disk', Own(k)'
        PROVE  /\ load'.step < k[1].step /\ k[1].step <= step'[k[2]]
               /\ SavesNow(k[1].step)
               /\ k[1].step < step'[k[2]] => \A q \in Ranks : <<k[1], q>> \in DOMAIN disk'
               /\ WrittenUpTo(k, IF k[1].step = step[k[2]] /\ pc[k[2]] = "save"
                                 THEN saved[k[2]] ELSE Len(SaveOrder))'
    <3>1. k \in DOMAIN disk /\ Own(k) /\ disk'[k] = disk[k] /\ k[1] \notin Pruned
      BY <2>1, <1>2, <1>4 DEF Own
    <3>2. /\ load.step < k[1].step /\ k[1].step <= step[k[2]]
          /\ SavesNow(k[1].step)
          /\ k[1].step < step[k[2]] => \A q \in Ranks : <<k[1], q>> \in DOMAIN disk
          /\ WrittenUpTo(k, IF k[1].step = step[k[2]] /\ pc[k[2]] = "save"
                            THEN saved[k[2]] ELSE Len(SaveOrder))
      BY <3>1, <1>3 DEF IInv, SavesInv
    <3>3. \A q \in Ranks : <<k[1], q>> \in DOMAIN disk => <<k[1], q>> \in DOMAIN disk'
      BY <3>1, <1>4
    <3>4. pc'[k[2]] = "save" <=> pc[k[2]] = "save"
      BY <1>2, <1>5, <3>1 DEF IInv, Types
    <3>5. WrittenUpTo(k, IF k[1].step = step[k[2]] /\ pc[k[2]] = "save"
                         THEN saved[k[2]] ELSE Len(SaveOrder))'
      BY <3>1, <3>2, <3>4, <1>1, <1>2 DEF WrittenUpTo
    <3> QED BY <3>2, <3>3, <3>5, <1>2
  <2>2. ASSUME NEW q \in Active',
               step'[q] > load'.step, SavesNow(step'[q]),
               pc'[q] = "save" => saved'[q] > 0
        PROVE  Current(q)' \in DOMAIN disk'
    <3>1. Current(q)' = Current(q) /\ q \in Ranks
      BY <1>2, <1>6, <2>2 DEF Current
    <3>2. Current(q) \in DOMAIN disk
      BY <2>2, <3>1, <1>2, <1>3, <1>5 DEF IInv, SavesInv
    <3>3. Current(q)[1] \notin Pruned
      <4>1. Current(q)[1] = top
        BY <1>5, <3>1 DEF Current
      <4>2. Newer(top) = {}
        <5>1. \A d \in Dirs : d.step \in Nat
          BY PrunedMeans DEF Directories
        <5> QED BY <1>3, <1>5, <5>1 DEF Newer
      <4> QED BY <4>1, <4>2, PrunedMeans
    <3> QED BY <3>1, <3>2, <3>3, <1>4
  <2> QED BY <1>6, <2>1, <2>2 DEF SavesInv
<1> QED BY <1>7, <1>8, <1>9, <1>10 DEF IInv

(* What a crash does to the files: nothing to a file that is complete,     *)
(* unless it is in a directory being removed.                              *)
LEMMA CrashFacts ==
    ASSUME IInv, Settings, Crash
    PROVE  /\ pc' = [r \in Ranks |-> "down"]
           /\ UNCHANGED <<options, launch, load, step, saved>>
           /\ DOMAIN disk \subseteq DOMAIN disk'
           /\ DOMAIN disk' \subseteq DOMAIN disk \cup {Current(r) : r \in Ranks}
           /\ \A k \in DOMAIN disk' : DOMAIN disk'[k] = FileNames
           /\ \A k \in DOMAIN disk', f \in FileNames :
                 disk'[k][f].status = "complete" =>
                     k \in DOMAIN disk /\ disk'[k][f] = disk[k][f]
           /\ \A k \in DOMAIN disk, i \in DOMAIN SaveOrder :
                 /\ disk[k][SaveOrder[i]].status = "complete"
                 /\ ~(pc[0] = "prune" /\ k[1] \in Pruned)
                 => disk'[k][SaveOrder[i]] = disk[k][SaveOrder[i]]
<1>1. /\ pc' = [r \in Ranks |-> "down"]
      /\ UNCHANGED <<options, launch, load, step, saved>>
  BY DEF Crash
<1> DEFINE saving   == {r \in Ranks : pc[r] = "save"}
           removing == IF pc[0] = "prune" THEN {k \in DOMAIN disk : k[1] \in Pruned} ELSE {}
           Lost(cut, k, f) == \E r \in cut : k = <<StepDir(r), r>> /\ f = NextFile(r)
<1>2. PICK cut \in SUBSET saving, gone \in SUBSET (removing \X FileNames) :
          disk' = [k \in DOMAIN disk \cup {<<StepDir(r), r>> : r \in cut} |->
                        [f \in FileNames |->
                            IF Lost(cut, k, f) THEN Partial
                            ELSE IF <<k, f>> \in gone \/ k \notin DOMAIN disk THEN Absent
                            ELSE disk[k][f]]]
  BY DEF Crash
<1>3. \A r \in Ranks : <<StepDir(r), r>> = Current(r)
  BY DEF StepDir, Root, Current, Settings
<1>4. /\ DOMAIN disk' = DOMAIN disk \cup {<<StepDir(r), r>> : r \in cut}
      /\ \A k \in DOMAIN disk' : DOMAIN disk'[k] = FileNames
      /\ \A k \in DOMAIN disk', f \in FileNames :
            disk'[k][f] = IF Lost(cut, k, f) THEN Partial
                          ELSE IF <<k, f>> \in gone \/ k \notin DOMAIN disk THEN Absent
                          ELSE disk[k][f]
  <2> HIDE DEF saving, removing, Lost
  <2> QED BY <1>2
<1>5. Partial.status = "partial" /\ Absent.status = "absent"
  BY DEF Partial, Absent
<1>6. DOMAIN disk' \subseteq DOMAIN disk \cup {Current(r) : r \in Ranks}
  BY <1>3, <1>4
<1>7. ASSUME NEW k \in DOMAIN disk', NEW f \in FileNames, disk'[k][f].status = "complete"
      PROVE  k \in DOMAIN disk /\ disk'[k][f] = disk[k][f]
  <2> HIDE DEF Lost
  <2> QED BY <1>4, <1>5, <1>7
<1>8. ASSUME NEW k \in DOMAIN disk, NEW i \in DOMAIN SaveOrder,
             disk[k][SaveOrder[i]].status = "complete",
             ~(pc[0] = "prune" /\ k[1] \in Pruned)
      PROVE  disk'[k][SaveOrder[i]] = disk[k][SaveOrder[i]]
  <2>1. ~Lost(cut, k, SaveOrder[i])
    <3>1. SUFFICES ASSUME NEW r \in cut, k = <<StepDir(r), r>>, SaveOrder[i] = NextFile(r)
                   PROVE  FALSE
      OBVIOUS
    <3>2. r \in Ranks /\ pc[r] = "save" /\ k = Current(r) /\ saved[r] \in Nat
      BY <1>3, <3>1 DEF IInv, Types
    <3>3. saved[r] + 1 \in DOMAIN SaveOrder
      BY <3>2, SaveOrderFacts DEF IInv, StepsInv
    <3>4. i = saved[r] + 1
      BY <3>1, <3>3, SaveOrderFacts DEF NextFile
    <3>5. ~Down
      BY <3>2 DEF Down, IInv, StepsInv
    <3>6. WrittenUpTo(k, saved[r])
      BY <3>2, <3>5 DEF IInv, SavesInv, Current, Own
    <3>7. ~(i <= saved[r])
      BY <3>2, <3>4
    <3> QED BY <1>8, <3>6, <3>7 DEF WrittenUpTo
  <2>2. <<k, SaveOrder[i]>> \notin gone
    BY <1>8
  <2>3. SaveOrder[i] \in FileNames
    BY SaveOrderFacts
  <2> HIDE DEF Lost
  <2> QED BY <1>4, <2>1, <2>2, <2>3
<1> QED BY <1>1, <1>4, <1>6, <1>7, <1>8

LEMMA CrashInv ==
    ASSUME IInv, Settings, Crash
    PROVE  IInv'
<1>1. SaveOrder' = SaveOrder
  BY CrashFacts DEF SaveOrder, HasState
<1>2. /\ pc' = [r \in Ranks |-> "down"]
      /\ UNCHANGED <<launch, load, step, saved>>
      /\ DOMAIN disk' \subseteq DOMAIN disk \cup {Current(r) : r \in Ranks}
      /\ \A k \in DOMAIN disk' : DOMAIN disk'[k] = FileNames
      /\ \A k \in DOMAIN disk', f \in FileNames :
            disk'[k][f].status = "complete" =>
                k \in DOMAIN disk /\ disk'[k][f] = disk[k][f]
  BY CrashFacts
<1>3. \A r \in Ranks : Current(r) \in Directories \X Ranks /\ Current(r)[1].root = launch
  BY DEF Current, Directories, IInv, Types
<1>4. Down' /\ Active' = {}
  BY <1>2, MainRank DEF Down, Active
<1>5. Types'
  BY <1>2, <1>3 DEF Types, IInv, Phases
<1>6. DiskInv'
  <2>1. \A k \in DOMAIN disk' : k[1].root <= launch
    BY <1>2, <1>3 DEF DiskInv, IInv, Types
  <2>2. "trainer_state" \in FileNames
    BY DEF FileNames
  <2> QED BY <1>2, <2>1, <2>2 DEF DiskInv, IInv
<1>7. StepsInv'
  BY <1>1, <1>2, <1>4 DEF StepsInv, IInv
<1>8. SavesInv'
  BY <1>4 DEF SavesInv
<1> QED BY <1>5, <1>6, <1>7, <1>8 DEF IInv

LEMMA RelaunchInv ==
    ASSUME IInv, Relaunch
    PROVE  IInv'
<1>1. SaveOrder' = SaveOrder
  BY DEF SaveOrder, HasState, Relaunch
<1>2. /\ launch' = launch + 1 /\ disk' = disk
      /\ load' = NoDir \/ load' \in WholeDirs(disk)
      /\ pc' = [r \in Ranks |-> "resume"]
      /\ step' = [r \in Ranks |-> 0] /\ saved' = [r \in Ranks |-> 0]
  BY DEF Relaunch, Started
<1>3. load'.step \in Nat
  <2>1. WholeDirs(disk) \subseteq Directories
    BY DEF WholeDirs, IInv, Types
  <2> QED BY <1>2, <2>1 DEF NoDir, Directories
<1>4. Types'
  BY <1>2, <1>3 DEF Types, IInv, Phases
<1>5. DiskInv' /\ \A k \in DOMAIN disk' : ~Own(k)'
  BY <1>2 DEF DiskInv, IInv, Types, Directories, Own
<1>6. Active' = {} /\ ~Down'
  BY <1>2 DEF Active, Down
<1>7. StepsInv'
  BY <1>1, <1>2, <1>6, SaveOrderFacts DEF StepsInv
<1>8. SavesInv'
  BY <1>5, <1>6 DEF SavesInv
<1> QED BY <1>4, <1>5, <1>7, <1>8 DEF IInv

LEMMA StutterInv == ASSUME IInv, UNCHANGED vars PROVE IInv'
BY DEF vars, IInv, Types, DiskInv, StepsInv, SavesInv, Active, Down, Own, Current,
       WrittenUpTo, SaveOrder, HasState

LEMMA NextInv == IInv /\ Settings /\ [Next]_vars => IInv'
<1> SUFFICES ASSUME IInv, Settings, [Next]_vars PROVE IInv'
  OBVIOUS
<1>1. ASSUME NEW r \in Ranks, ResumeFromCheckpoint(r) PROVE IInv'
  BY <1>1, ResumeInv
<1>2. ASSUME NEW r \in Ranks, ForwardBackward(r) PROVE IInv'
  BY <1>2, QuietInv DEF ForwardBackward
<1>3. ASSUME NEW r \in Ranks, WriteFile(r) PROVE IInv'
  BY <1>3, WriteFileInv
<1>4. ASSUME NEW r \in Ranks, Finish(r) PROVE IInv'
  BY <1>4, QuietInv DEF Finish
<1>5. CASE OptimizerStep
  BY <1>5, OptimizerStepInv
<1>6. CASE Prune
  BY <1>6, PruneInv
<1>7. CASE Relaunch
  BY <1>7, RelaunchInv
<1>8. CASE Crash
  BY <1>8, CrashInv
<1>9. CASE Terminated \/ UNCHANGED vars
  BY <1>9, StutterInv DEF Terminated
<1> QED BY <1>1, <1>2, <1>3, <1>4, <1>5, <1>6, <1>7, <1>8, <1>9 DEF Next, Progress, RankStep

-----------------------------------------------------------------------------
(* A step that leaves the files alone.                                     *)
LEMMA SurvivesUntouched ==
    ASSUME UNCHANGED disk
    PROVE  Restorable(disk) # {} => Restorable(disk') # {}
OBVIOUS

LEMMA SurvivesWrite ==
    ASSUME IInv, Settings, NEW r \in Ranks, WriteFile(r), NEW d \in Restorable(disk)
    PROVE  d \in Restorable(disk')
<1> DEFINE k0 == Current(r)
<1>1. /\ saved[r] + 1 \in DOMAIN SaveOrder
      /\ k0 \in DOMAIN disk => WrittenUpTo(k0, saved[r])
      /\ DOMAIN disk' = DOMAIN disk \cup {k0}
      /\ \A k \in DOMAIN disk : k # k0 => disk'[k] = disk[k]
      /\ saved[r] \in Nat
  BY WriteFacts DEF IInv, Types
<1>2. ASSUME NEW q \in Ranks
      PROVE  /\ <<d, q>> \in DOMAIN disk'
             /\ \A i \in DOMAIN SaveOrder : disk'[<<d, q>>][SaveOrder[i]].status = "complete"
  <2> HIDE DEF k0
  <2>1. /\ <<d, q>> \in DOMAIN disk
        /\ \A i \in DOMAIN SaveOrder : disk[<<d, q>>][SaveOrder[i]].status = "complete"
    BY RestorableMeans
  <2>2. <<d, q>> # k0
    <3>1. SUFFICES ASSUME <<d, q>> = k0 PROVE FALSE
      OBVIOUS
    <3>2. disk[k0][SaveOrder[saved[r] + 1]].status = "complete"
      BY <1>1, <2>1, <3>1
    <3>3. disk[k0][SaveOrder[saved[r] + 1]].status = "absent"
      <4>1. ~(saved[r] + 1 <= saved[r])
        BY <1>1
      <4> QED BY <1>1, <2>1, <3>1, <4>1 DEF WrittenUpTo
    <3> QED BY <3>2, <3>3
  <2> QED BY <1>1, <2>1, <2>2
<1> QED BY <1>2, RestorableMeans

LEMMA SurvivesPrune ==
    ASSUME IInv, Settings, Prune, NEW d \in Restorable(disk)
    PROVE  Restorable(disk') # {}
<1>1. PICK e \in Restorable(disk) : e \notin Pruned
  BY PruneLeaves DEF Prune
<1>2. /\ \A k \in DOMAIN disk : k[1] \notin Pruned => k \in DOMAIN disk'
      /\ \A k \in DOMAIN disk' : disk'[k] = disk[k]
  BY DEF Prune
<1>3. e \in Restorable(disk')
  BY <1>1, <1>2, RestorableMeans
<1> QED BY <1>3

LEMMA SurvivesCrash ==
    ASSUME IInv, Settings, Crash, NEW d \in Restorable(disk)
    PROVE  Restorable(disk') # {}
<1>1. PICK e \in Restorable(disk) : ~(pc[0] = "prune" /\ e \in Pruned)
  BY PruneLeaves
<1>2. ASSUME NEW q \in Ranks
      PROVE  /\ <<e, q>> \in DOMAIN disk'
             /\ \A i \in DOMAIN SaveOrder : disk'[<<e, q>>][SaveOrder[i]].status = "complete"
  <2>1. /\ <<e, q>> \in DOMAIN disk
        /\ \A i \in DOMAIN SaveOrder : disk[<<e, q>>][SaveOrder[i]].status = "complete"
    BY RestorableMeans
  <2>2. <<e, q>>[1] = e
    OBVIOUS
  <2> QED BY <1>1, <2>1, <2>2, CrashFacts
<1>3. e \in Restorable(disk')
  BY <1>2, RestorableMeans
<1> QED BY <1>3

(* Every step of a job that is killed at any moment keeps a checkpoint to  *)
(* restore from, once there is one: SaveCheckpoint writes only where this  *)
(* launch has not saved yet, and PruneCheckpoints leaves the newest whole  *)
(* directory, whichever ranks are still writing the one after it.          *)
THEOREM Survival ==
    ASSUME Settings
    PROVE  Spec => CheckpointSurvives
<1>1. ASSUME IInv, [Next]_vars
      PROVE  [Restorable(disk) # {} => Restorable(disk') # {}]_vars
  <2>1. ASSUME NEW r \in Ranks, WriteFile(r)
        PROVE  Restorable(disk) # {} => Restorable(disk') # {}
    BY <1>1, <2>1, SurvivesWrite
  <2>2. CASE Prune
    BY <1>1, <2>2, SurvivesPrune
  <2>3. CASE Crash
    BY <1>1, <2>3, SurvivesCrash
  <2>4. CASE UNCHANGED disk
    BY <2>4, SurvivesUntouched
  <2>5. ASSUME NEW r \in Ranks,
               ResumeFromCheckpoint(r) \/ ForwardBackward(r) \/ Finish(r)
        PROVE  UNCHANGED disk
    BY <2>5 DEF ResumeFromCheckpoint, ForwardBackward, Finish
  <2>6. CASE OptimizerStep \/ Relaunch \/ Terminated
    BY <2>4, <2>6 DEF OptimizerStep, Relaunch, Terminated, vars
  <2> QED BY <1>1, <2>1, <2>2, <2>3, <2>4, <2>5, <2>6 DEF Next, Progress, RankStep
<1>2. IInv /\ [Next]_vars => IInv'
  BY NextInv
<1> QED BY <1>1, <1>2, InitInv, PTL DEF Spec, CheckpointSurvives

-----------------------------------------------------------------------------
(* No step is taken beyond the last one, no launch beyond MaxLaunches.     *)
TypeInv ==
    /\ TypeOK
    /\ \A r \in Ranks : pc[r] = "reduce" => step[r] < NumIteration
    /\ \A r \in Ranks : pc[r] = "down" => launch < MaxLaunches

LEMMA InitTypes == Init => TypeInv
<1> SUFFICES ASSUME Init PROVE TypeInv
  OBVIOUS
<1>1. Len(SaveOrder) \in Nat \ {0}
  BY SaveOrderFacts
<1> QED BY <1>1, TrainingAssumption DEF Init, TypeInv, TypeOK, NoDir

LEMMA NextTypes ==
    ASSUME IInv, IInv', TypeInv, Settings, [Next]_vars
    PROVE  TypeInv'
<1>1. /\ NumIteration \in Nat /\ pc \in [Ranks -> Phases] /\ step \in [Ranks -> Nat]
      /\ \A r \in Ranks : saved'[r] < Len(SaveOrder')
  BY TrainingAssumption DEF IInv, Types, StepsInv
<1>2. ASSUME NEW r \in Ranks, ResumeFromCheckpoint(r) PROVE TypeInv'
  <2>1. /\ UNCHANGED <<options, launch, batch, load, disk, saved>>
        /\ \/ pc' = [pc EXCEPT ![r] = "failed"]
           \/ pc' = [pc EXCEPT ![r] = "train"]
    BY <1>2 DEF ResumeFromCheckpoint, Abort
  <2>2. \A q \in Ranks : step'[q] # step[q] => pc'[q] \notin {"reduce"} /\ step'[q] = load.step
    <3>1. CASE step' = step
      BY <3>1
    <3>2. CASE step' # step
      <4>1. /\ step' = [step EXCEPT ![r] = Files(load, r)["trainer_state"].content.step]
            /\ Files(load, r)["trainer_state"].status = "complete"
            /\ pc' = [pc EXCEPT ![r] = "train"]
        BY <1>2, <3>2 DEF ResumeFromCheckpoint, Abort
      <4>2. <<load, r>> \in DOMAIN disk /\ Files(load, r) = disk[<<load, r>>]
        BY <4>1 DEF Files, NoFiles, Absent, FileNames
      <4>3. step'[r] = load.step
        BY <1>1, <4>1, <4>2 DEF IInv, DiskInv
      <4> QED BY <1>1, <4>1, <4>3
    <3> QED BY <3>1, <3>2
  <2>3. step' \in [Ranks -> Nat]
    BY DEF IInv, Types
  <2>4. load.step \in 0..NumIteration
    BY <1>1 DEF TypeInv, TypeOK, NoDir
  <2>5. step' \in [Ranks -> 0..NumIteration]
    BY <1>1, <2>2, <2>3, <2>4 DEF TypeInv, TypeOK
  <2> QED BY <1>1, <2>1, <2>2, <2>5 DEF TypeInv, TypeOK
<1>3. ASSUME NEW r \in Ranks, ForwardBackward(r) \/ Finish(r) PROVE TypeInv'
  <2>1. /\ UNCHANGED <<options, launch, batch, load, disk, step, saved>>
        /\ \/ pc' = [pc EXCEPT ![r] = "reduce"] /\ step[r] # NumIteration
           \/ pc' = [pc EXCEPT ![r] = "done"]
    BY <1>3 DEF ForwardBackward, Finish, LastStep
  <2>2. step[r] \in 0..NumIteration
    BY DEF TypeInv, TypeOK
  <2> QED BY <1>1, <2>1, <2>2 DEF TypeInv, TypeOK
<1>4. ASSUME NEW r \in Ranks, WriteFile(r) PROVE TypeInv'
  <2>1. /\ UNCHANGED <<options, launch, batch, load, step>>
        /\ pc' = [pc EXCEPT ![r] = "save"] \/ pc' = [pc EXCEPT ![r] = AfterSave(r)]
        /\ DOMAIN disk' = DOMAIN disk \cup {Current(r)}
    <3>1. pc' = [pc EXCEPT ![r] = "save"] \/ pc' = [pc EXCEPT ![r] = AfterSave(r)]
      BY <1>4, WriteFacts
    <3>2. DOMAIN disk' = DOMAIN disk \cup {Current(r)}
      BY <1>4, WriteFacts
    <3> QED BY <1>4, <3>1, <3>2 DEF WriteFile
  <2>2. step[r] > load.step /\ load.step \in Nat /\ step[r] \in 0..NumIteration
    <3>1. pc[r] = "save"
      BY <1>4 DEF WriteFile
    <3>2. step[r] > load.step
      BY <3>1 DEF IInv, StepsInv
    <3>3. load.step \in Nat
      BY DEF IInv, Types
    <3>4. step[r] \in 0..NumIteration
      BY DEF TypeInv, TypeOK
    <3> QED BY <3>2, <3>3, <3>4
  <2>3. Current(r)[1].step \in 1..NumIteration /\ Current(r)[2] = r
    BY <2>2 DEF Current
  <2>4. AfterSave(r) \in {"prune", "train"}
    BY DEF AfterSave
  <2>5. \A k \in DOMAIN disk' : k[1].step \in 1..NumIteration /\ k[2] \in Ranks
    BY <2>1, <2>3 DEF TypeInv, TypeOK
  <2> QED BY <1>1, <2>1, <2>4, <2>5 DEF TypeInv, TypeOK
<1>5. CASE OptimizerStep
  <2>1. /\ \A r \in Ranks : pc[r] = "reduce" /\ step[r] \in 0..NumIteration
        /\ step' = [r \in Ranks |-> step[r] + 1]
        /\ pc' = [r \in Ranks |-> IF SavesNow(step[r] + 1) THEN "save" ELSE "train"]
        /\ UNCHANGED <<options, launch, load, batch, disk, saved>>
    BY <1>5 DEF OptimizerStep, TypeInv, TypeOK
  <2>2. step' \in [Ranks -> 0..NumIteration]
    BY <1>1, <2>1 DEF TypeInv
  <2> QED BY <1>1, <2>1, <2>2 DEF TypeInv, TypeOK
<1>6. CASE Prune
  <2>1. /\ UNCHANGED <<options, launch, batch, load, step, saved>>
        /\ pc' = [pc EXCEPT ![0] = "train"]
        /\ DOMAIN disk' \subseteq DOMAIN disk
    BY <1>6 DEF Prune
  <2> QED BY <1>1, <2>1 DEF TypeInv, TypeOK
<1>7. CASE Crash
  <2>1. /\ pc' = [r \in Ranks |-> "down"]
        /\ UNCHANGED <<options, launch, load, step, saved>>
        /\ DOMAIN disk' \subseteq DOMAIN disk \cup {Current(r) : r \in {q \in Ranks : pc[q] = "save"}}
        /\ UNCHANGED batch /\ launch < MaxLaunches
    BY <1>7 DEF Crash, StepDir, Root, Current, Settings
  <2>2. \A r \in Ranks : pc[r] = "save" => Current(r)[1].step \in 1..NumIteration /\ Current(r)[2] = r
    BY <1>1 DEF Current, IInv, Types, StepsInv, TypeInv, TypeOK
  <2>3. \A k \in DOMAIN disk' : k[1].step \in 1..NumIteration /\ k[2] \in Ranks
    BY <2>1, <2>2 DEF TypeInv, TypeOK
  <2> QED BY <1>1, <2>1, <2>3 DEF TypeInv, TypeOK
<1>8. CASE Relaunch
  <2>1. /\ launch' = launch + 1 /\ UNCHANGED <<options, disk>> /\ batch' \in LoaderBatches
        /\ load' = NoDir \/ load' \in WholeDirs(disk)
        /\ pc' = [r \in Ranks |-> "resume"]
        /\ step' = [r \in Ranks |-> 0]
    BY <1>8 DEF Relaunch, Started
  <2>2. launch < MaxLaunches
    BY <1>8, MainRank DEF Relaunch, TypeInv
  <2>3. load' \in WholeDirs(disk) => load'.step \in 1..NumIteration
    BY DEF WholeDirs, TypeInv, TypeOK
  <2> QED BY <1>1, <2>1, <2>2, <2>3, TrainingAssumption DEF TypeInv, TypeOK
<1>9. CASE Terminated \/ UNCHANGED vars
  BY <1>9 DEF Terminated, vars, TypeInv, TypeOK, SaveOrder, HasState
<1> QED BY <1>2, <1>3, <1>4, <1>5, <1>6, <1>7, <1>8, <1>9 DEF Next, Progress, RankStep

(* Type correctness: in particular a checkpoint's directory is named for a *)
(* step of the run, and no rank writes more files than Save has.           *)
THEOREM TypeCorrect ==
    ASSUME Settings
    PROVE  Spec => []TypeOK
<1>1. IInv /\ [Next]_vars => IInv'
  BY NextInv
<1>2. IInv /\ IInv' /\ TypeInv /\ [Next]_vars => TypeInv'
  BY NextTypes
<1>3. TypeInv => TypeOK
  BY DEF TypeInv
<1> QED BY <1>1, <1>2, <1>3, InitInv, InitTypes, PTL DEF Spec

-----------------------------------------------------------------------------
(* Exact resumption, for every batch size a launch may choose.             *)

(* The state of a rank as a function of how many steps it has taken.       *)
History(s)  == [k \in 1..s |-> ExpectedUpdate(k)]
Moments(s)  == IF HasState THEN s ELSE 0
Schedule(s) == IF options.scheduler THEN s ELSE 0

(* The iterator after n batches, and the batches of step s.                *)
MaxIdx == MaxBatchIdx(DatasetSize, batch)
Position(r, n) ==
    IF n = 0 THEN r ELSE IF r + n * World < MaxIdx THEN r + n * World ELSE MaxIdx

BatchAt(r, n) == (r + n * World) * batch .. (r + n * World + 1) * batch - 1
RankSamples(r, s) == UNION {BatchAt(r, s * MicroSteps + n) : n \in 0..MicroSteps - 1}

Fresh(r) ==
    /\ step[r] = 0 /\ consumed[r] = 0 /\ iter[r] = r
    /\ params[r] = <<>> /\ optStep[r] = 0 /\ sched[r] = 0

Training == {"train", "reduce", "save", "prune", "done"}

(* Steps whose samples the rank has read.                                  *)
StepsRead(r) == IF pc[r] = "reduce" THEN step[r] + 1 ELSE step[r]

(* A rank that trains is where an uninterrupted one would be at its step,  *)
(* and resuming never fails.                                               *)
RankInv(r) ==
    /\ pc[r] # "failed"
    /\ pc[r] = "resume" => Fresh(r)
    /\ pc[r] \in Training =>
         /\ params[r] = History(step[r])
         /\ optStep[r] = Moments(step[r]) /\ sched[r] = Schedule(step[r])
         /\ consumed[r] = StepsRead(r) * TotalBatch
         /\ iter[r] = Position(r, StepsRead(r) * MicroSteps)
    /\ pc[r] = "reduce" =>
         grads[r] = [samples |-> RankSamples(r, step[r]), reads |-> MicroSteps * batch]

Ranked == \A r \in Ranks : RankInv(r)

Vectors ==
    /\ DOMAIN consumed = Ranks /\ DOMAIN iter = Ranks /\ DOMAIN params = Ranks
    /\ DOMAIN optStep = Ranks /\ DOMAIN sched = Ranks /\ DOMAIN grads = Ranks

(* A directory's complete files hold the state at its step; files that     *)
(* Save does not write are not there.                                      *)
SavedFiles == {SaveOrder[i] : i \in DOMAIN SaveOrder}

Kept(f, s) ==
    CASE f = "model"         -> History(s)
      [] f = "optimizer"     -> Moments(s)
      [] f = "lr_scheduler"  -> Schedule(s)
      [] f = "trainer_state" -> [step |-> s, consumed |-> s * TotalBatch, ddp |-> World]

FilesInv ==
    \A k \in DOMAIN disk, f \in FileNames :
        /\ disk[k][f].status = "complete" => disk[k][f].content = Kept(f, k[1].step)
        /\ f \notin SavedFiles => disk[k][f].status = "absent"

(* A directory that looks whole is, or a crash interrupted its removal and *)
(* its launch left a later one that is.                                    *)
WholeInv ==
    \A d \in WholeDirs(disk) \ Restorable(disk) :
        /\ Down \/ d.root < launch
        /\ \E e \in Restorable(disk) : e.root = d.root /\ e.step > d.step

(* The checkpoint resumed from can be restored and is not written to.      *)
LoadInv == load = NoDir \/ (load \in Restorable(disk) /\ load.root < launch)

ExactInv == Vectors /\ FilesInv /\ WholeInv /\ LoadInv /\ Ranked

-----------------------------------------------------------------------------
(* Arithmetic.                                                             *)
LEMMA Division ==
    ASSUME NEW n \in Nat \ {0}, NEW c \in Nat
    PROVE  c = (c \div n) * n + (c % n) /\ c % n \in 0..n-1 /\ c \div n \in Nat
OBVIOUS

LEMMA Remainder ==
    ASSUME NEW n \in Nat \ {0}, NEW c \in Nat
    PROVE  \E q \in Nat : \E a \in 0..n-1 : c = q * n + a
<1>1. c = (c \div n) * n + (c % n) /\ c % n \in 0..n-1 /\ c \div n \in Nat
  BY Division
<1> QED BY <1>1

LEMMA Quotient ==
    ASSUME NEW n \in Nat \ {0}, NEW q \in Nat
    PROVE  (q * n) \div n = q /\ (q * n) % n = 0
OBVIOUS

LEMMA Ordered ==
    ASSUME NEW a \in Nat, NEW b \in Nat, NEW c \in Nat, a <= b
    PROVE  a * c <= b * c /\ a * c \in Nat
<1>1. PICK d \in Nat : b = a + d
  <2>1. b - a \in Nat /\ b = a + (b - a)
    OBVIOUS
  <2> QED BY <2>1
<1>2. b * c = a * c + d * c /\ d * c \in Nat
  BY <1>1
<1> QED BY <1>2

LEMMA BatchSizes ==
    ASSUME batch \in LoaderBatches
    PROVE  /\ World \in Nat \ {0} /\ batch \in Nat \ {0} /\ MicroSteps \in Nat \ {0}
           /\ batch * World \in Nat \ {0}
           /\ TotalBatch = MicroSteps * (batch * World)
           /\ TotalBatch \in Nat \ {0}
           /\ MicroSteps * batch * World = TotalBatch
<1>1. World \in Nat \ {0} /\ TotalBatch \in Nat \ {0} /\ batch \in Nat \ {0}
      /\ TotalBatch % (batch * World) = 0
  BY TrainingAssumption DEF LoaderBatches
<1>2. batch * World \in Nat \ {0}
  BY <1>1
<1>3. TotalBatch = MicroSteps * (batch * World) /\ MicroSteps \in Nat
  <2>1. TotalBatch = (TotalBatch \div (batch * World)) * (batch * World) + (TotalBatch % (batch * World))
        /\ TotalBatch \div (batch * World) \in Nat
    BY <1>1, <1>2, Division
  <2> QED BY <1>1, <1>2, <2>1 DEF MicroSteps
<1>4. MicroSteps # 0
  <2>1. 0 * (batch * World) = 0
    BY <1>2
  <2> QED BY <1>1, <1>3, <2>1
<1>5. \A m, b, w \in Nat : m * (b * w) = m * b * w
  OBVIOUS
<1> QED BY <1>1, <1>2, <1>3, <1>4, <1>5

(* The iterator of rank r after n batches: begin() and n times ++.         *)
LEMMA PositionNext ==
    ASSUME batch \in LoaderBatches, NEW r \in Ranks, NEW n \in Nat
    PROVE  LoaderNext(Position(r, n), World, DatasetSize, batch) = Position(r, n + 1)
<1>1. World \in Nat \ {0} /\ r \in Nat /\ MaxIdx \in Int
  <2>1. batch \in Nat \ {0} /\ DatasetSize \in Nat
    BY TrainingAssumption DEF LoaderBatches
  <2> QED BY <2>1, TrainingAssumption, MainRank DEF MaxIdx, MaxBatchIdx
<1>2. n * World \in Nat /\ (n + 1) * World = n * World + World
  BY <1>1
<1>3. Position(r, n + 1) =
        IF r + (n * World + World) < MaxIdx THEN r + (n * World + World) ELSE MaxIdx
  BY <1>2 DEF Position
<1>4. LoaderNext(Position(r, n), World, DatasetSize, batch) =
        IF Position(r, n) + World < MaxIdx THEN Position(r, n) + World ELSE MaxIdx
  BY DEF LoaderNext, MaxIdx
<1>5. CASE n = 0
  <2>1. Position(r, n) = r /\ n * World = 0
    BY <1>1, <1>5 DEF Position
  <2> QED BY <1>1, <1>3, <1>4, <2>1
<1>6. CASE n # 0
  <2>1. Position(r, n) = IF r + n * World < MaxIdx THEN r + n * World ELSE MaxIdx
    BY <1>6 DEF Position
  <2> QED BY <1>1, <1>2, <1>3, <1>4, <2>1
<1> QED BY <1>5, <1>6

(* A property that holds of 0 and passes from each number to the next up   *)
(* to N holds of all numbers up to N; S is where it holds.                 *)
LEMMA UpTo ==
    ASSUME NEW N \in Nat, NEW S, 0 \in S, \A n \in 0..N : n + 1 \in 0..N /\ n \in S => n + 1 \in S
    PROVE  \A n \in 0..N : n \in S
<1> DEFINE T == {n \in 0..N : n \notin S}
<1>1. SUFFICES ASSUME T # {} PROVE FALSE
  OBVIOUS
<1>2. PICK m \in T : \A y \in T : m <= y
  <2>1. T \in SUBSET Nat
    OBVIOUS
  <2> QED BY <1>1, <2>1, LeastNat
<1>3. m \in 0..N /\ m \notin S /\ m # 0
  OBVIOUS
<1>4. m - 1 \in 0..N /\ m - 1 \in S
  <2>1. m - 1 \in 0..N /\ ~(m <= m - 1)
    BY <1>3
  <2> QED BY <1>2, <2>1
<1>5. (m - 1) + 1 = m
  BY <1>3
<1> QED BY <1>3, <1>4, <1>5

LEMMA LoaderAtIs ==
    ASSUME batch \in LoaderBatches, NEW r \in Ranks, NEW c \in Nat
    PROVE  LoaderAt(r, c, DatasetSize, batch, World) = Position(r, c \div (batch * World))
<1> DEFINE Rec(at) == at = [n \in Nat |-> IF n = 0 THEN LoaderBegin(r)
                                          ELSE LoaderNext(at[n - 1], World, DatasetSize, batch)]
           f == CHOOSE at : Rec(at)
           g == [n \in Nat |-> Position(r, n)]
           q == c \div (batch * World)
<1>1. LoaderAt(r, c, DatasetSize, batch, World) = f[q]
  BY DEF LoaderAt, DataLoaderBatchesToSkip
<1>2. q \in Nat
  BY BatchSizes, Division
<1>3. Rec(g)
  <2>1. ASSUME NEW n \in Nat
        PROVE  g[n] = IF n = 0 THEN LoaderBegin(r)
                      ELSE LoaderNext(g[n - 1], World, DatasetSize, batch)
    <3>1. CASE n = 0
      BY <3>1 DEF LoaderBegin, Position
    <3>2. CASE n # 0
      <4>1. n - 1 \in Nat /\ (n - 1) + 1 = n
        BY <3>2
      <4>2. LoaderNext(Position(r, n - 1), World, DatasetSize, batch) = Position(r, n)
        BY <4>1, PositionNext
      <4> QED BY <3>2, <4>1, <4>2
    <3> QED BY <3>1, <3>2
  <2> QED BY <2>1
<1>4. Rec(f)
  <2> HIDE DEF Rec, g
  <2> QED BY <1>3
<1>5. \A n \in 0..q : n \in {m \in Nat : f[m] = Position(r, m)}
  <2> DEFINE S == {m \in Nat : f[m] = Position(r, m)}
  <2>1. 0 \in S
    <3>1. f[0] = LoaderBegin(r)
      BY <1>4
    <3> QED BY <3>1 DEF LoaderBegin, Position
  <2>2. ASSUME NEW n \in 0..q, n \in S
        PROVE  n + 1 \in S
    <3>1. n \in Nat /\ n + 1 \in Nat /\ n + 1 # 0 /\ (n + 1) - 1 = n
      BY <1>2
    <3>2. f[n + 1] = LoaderNext(f[n], World, DatasetSize, batch)
      <4> HIDE DEF f
      <4> QED BY <1>4, <3>1
    <3> HIDE DEF f
    <3> QED BY <2>2, <3>1, <3>2, PositionNext
  <2> HIDE DEF S, f
  <2>3. \A n \in 0..q : n \in S
    BY <1>2, <2>1, <2>2, UpTo
  <2> QED BY <2>3 DEF S
<1>6. q \in 0..q
  BY <1>2
<1> HIDE DEF f
<1> QED BY <1>1, <1>5, <1>6

-----------------------------------------------------------------------------
(* What a rank reads in a step.  No step reads beyond the data set: the    *)
(* n-th batch of step s ends before TotalBatch * (s + 1).                  *)
LEMMA BatchEnds ==
    ASSUME batch \in LoaderBatches, NEW r \in Ranks, NEW s \in Nat, NEW n \in 0..MicroSteps - 1
    PROVE  LET k == s * MicroSteps + n IN
           /\ k \in Nat /\ r + k * World \in Nat
           /\ (r + k * World + 1) * batch <= (s + 1) * TotalBatch
           /\ (r + k * World + 1) * batch = (r + k * World) * batch + batch
           /\ (r + k * World) * batch \in Nat
           /\ s * TotalBatch <= (r + k * World) * batch
<1> DEFINE k == s * MicroSteps + n
           i == r + k * World
<1>1. /\ World \in Nat \ {0} /\ batch \in Nat \ {0} /\ MicroSteps \in Nat \ {0}
      /\ TotalBatch = MicroSteps * (batch * World) /\ TotalBatch \in Nat
  BY BatchSizes
<1>2. r \in Nat /\ r + 1 <= World
  BY <1>1 DEF Ranks
<1>3. s * MicroSteps \in Nat /\ (s + 1) * MicroSteps = s * MicroSteps + MicroSteps
  BY <1>1
<1>4. k \in Nat /\ k + 1 <= (s + 1) * MicroSteps /\ s * MicroSteps <= k
  BY <1>1, <1>3
<1> HIDE DEF k
<1>5. k * World \in Nat /\ (k + 1) * World = k * World + World
  BY <1>1, <1>4
<1>6. i \in Nat /\ i + 1 <= (k + 1) * World /\ (k + 1) * World \in Nat /\ k * World <= i
  BY <1>1, <1>2, <1>5
<1> HIDE DEF i
<1>7. (i + 1) * batch <= ((k + 1) * World) * batch
  <2>1. i + 1 \in Nat /\ batch \in Nat
    BY <1>1, <1>6
  <2> QED BY <1>6, <2>1, Ordered
<1>8. ((k + 1) * World) * batch = (k + 1) * (batch * World)
      /\ (s + 1) * MicroSteps * (batch * World) = (s + 1) * TotalBatch
      /\ (s * MicroSteps) * (batch * World) = s * TotalBatch
      /\ (k * World) * batch = k * (batch * World)
  <2>1. \A a, b, c \in Nat : (a * b) * c = a * (c * b)
    OBVIOUS
  <2>2. \A a, b, c \in Nat : a * b * c = a * (b * c)
    OBVIOUS
  <2> QED BY <1>1, <1>4, <2>1, <2>2
<1>9. /\ (k + 1) * (batch * World) <= ((s + 1) * MicroSteps) * (batch * World)
      /\ (s * MicroSteps) * (batch * World) <= k * (batch * World)
  <2>1. k + 1 \in Nat /\ batch * World \in Nat /\ (s + 1) * MicroSteps \in Nat
    BY <1>1, <1>4
  <2> QED BY <1>3, <1>4, <2>1, Ordered
<1>10. (k * World) * batch <= i * batch
  BY <1>1, <1>5, <1>6, Ordered
<1>11. (i + 1) * batch = i * batch + batch /\ i * batch \in Nat
  BY <1>1, <1>6
<1>12. /\ (i + 1) * batch <= (s + 1) * TotalBatch
       /\ s * TotalBatch <= i * batch
  <2>1. s * TotalBatch \in Nat /\ (s + 1) * TotalBatch \in Nat /\ k * (batch * World) \in Nat
        /\ (k + 1) * (batch * World) \in Nat
    BY <1>1, <1>4
  <2> QED BY <1>1, <1>7, <1>8, <1>9, <1>10, <1>11, <2>1
<1> QED BY <1>4, <1>6, <1>11, <1>12 DEF k, i

LEMMA BatchWhole ==
    ASSUME batch \in LoaderBatches, NEW r \in Ranks, NEW s \in 0..NumIteration - 1,
           NEW n \in 0..MicroSteps - 1
    PROVE  LET k == s * MicroSteps + n IN
           /\ LoaderBatch(Position(r, k), DatasetSize, batch) = BatchAt(r, k)
           /\ Cardinality(BatchAt(r, k)) = batch
<1> DEFINE k == s * MicroSteps + n
           i == r + k * World
<1>1. /\ World \in Nat \ {0} /\ batch \in Nat \ {0} /\ TotalBatch \in Nat
      /\ NumIteration \in Nat /\ DatasetSize \in Nat
      /\ DatasetSize >= TotalBatch * NumIteration /\ s \in Nat
  BY BatchSizes, TrainingAssumption
<1>2. /\ k \in Nat /\ i \in Nat /\ i * batch \in Nat
      /\ (i + 1) * batch <= (s + 1) * TotalBatch
      /\ (i + 1) * batch = i * batch + batch
  BY <1>1, BatchEnds
<1> HIDE DEF k, i
<1>3. (i + 1) * batch <= DatasetSize
  <2>1. (s + 1) * TotalBatch <= NumIteration * TotalBatch
    <3>1. s + 1 \in Nat /\ s + 1 <= NumIteration
      BY <1>1
    <3> QED BY <1>1, <3>1, Ordered
  <2>2. NumIteration * TotalBatch = TotalBatch * NumIteration
        /\ (s + 1) * TotalBatch \in Nat /\ TotalBatch * NumIteration \in Nat
    BY <1>1
  <2> QED BY <1>1, <1>2, <2>1, <2>2
<1>4. i < MaxIdx /\ MaxIdx \in Nat
  <2> DEFINE d == DatasetSize + batch - 1
             q == d \div batch
  <2>1. d \in Nat
    BY <1>1
  <2>2. d = q * batch + (d % batch) /\ d % batch \in 0..batch - 1 /\ q \in Nat
    BY <1>1, <2>1, Division
  <2>3. MaxIdx = q
    BY DEF MaxIdx, MaxBatchIdx
  <2>4. ASSUME q <= i PROVE FALSE
    <3> HIDE DEF q
    <3>1. q * batch <= i * batch /\ q * batch \in Nat
      BY <1>1, <1>2, <2>2, <2>4, Ordered
    <3> QED BY <1>1, <1>2, <1>3, <2>2, <3>1
  <2> HIDE DEF q
  <2> QED BY <1>2, <2>2, <2>3, <2>4
<1>5. Position(r, k) = i
  <2>1. r \in Nat /\ (k = 0 => k * World = 0)
    BY <1>1, MainRank
  <2> QED BY <1>4, <2>1 DEF Position, i
<1>6. LoaderBatch(i, DatasetSize, batch) = i * batch .. (i + 1) * batch - 1
  <2>1. \A x \in i * batch .. (i + 1) * batch - 1 : x < DatasetSize
    BY <1>1, <1>2, <1>3
  <2> QED BY <2>1 DEF LoaderBatch
<1>7. Cardinality(i * batch .. (i + 1) * batch - 1) = batch
  <2> DEFINE a == i * batch
             b == (i + 1) * batch - 1
  <2>1. a \in Int /\ b \in Int /\ a <= b /\ b - a + 1 = batch
    BY <1>1, <1>2
  <2>2. Cardinality(a..b) = IF a > b THEN 0 ELSE b - a + 1
    <3> HIDE DEF a, b
    <3> QED BY <2>1, FS_Interval
  <2> HIDE DEF a, b
  <2>3. Cardinality(a..b) = batch
    BY <2>1, <2>2
  <2> QED BY <2>3 DEF a, b
<1> QED BY <1>5, <1>6, <1>7 DEF BatchAt, i, k

(* The micro-steps of a step: where the iterator is after n of them, and   *)
(* what has been read.                                                     *)
ReadUpTo(r, s, n) ==
    [iter  |-> Position(r, s * MicroSteps + n),
     grads |-> [samples |-> UNION {BatchAt(r, s * MicroSteps + m) : m \in 0..n - 1},
                reads   |-> n * batch]]

LEMMA ReadNext ==
    ASSUME batch \in LoaderBatches, NEW r \in Ranks, NEW s \in 0..NumIteration - 1,
           NEW n \in 0..MicroSteps - 1
    PROVE  LET p == ReadUpTo(r, s, n)
               b == LoaderBatch(p.iter, DatasetSize, batch)
           IN  [iter  |-> LoaderNext(p.iter, World, DatasetSize, batch),
                grads |-> [samples |-> p.grads.samples \cup b,
                           reads   |-> p.grads.reads + Cardinality(b)]]
                 = ReadUpTo(r, s, n + 1)
<1> DEFINE k == s * MicroSteps + n
           B(m) == BatchAt(r, s * MicroSteps + m)
<1>1. /\ batch \in Nat /\ MicroSteps \in Nat /\ n \in Nat /\ s \in Nat /\ k \in Nat
      /\ k + 1 = s * MicroSteps + (n + 1)
  BY BatchSizes, TrainingAssumption
<1>2. LoaderBatch(Position(r, k), DatasetSize, batch) = B(n) /\ Cardinality(B(n)) = batch
  BY BatchWhole
<1>3. LoaderNext(Position(r, k), World, DatasetSize, batch)
        = Position(r, s * MicroSteps + (n + 1))
  <2>1. LoaderNext(Position(r, k), World, DatasetSize, batch) = Position(r, k + 1)
    <3> HIDE DEF k
    <3> QED BY <1>1, PositionNext
  <2> QED BY <1>1, <2>1
<1>4. UNION {B(m) : m \in 0..(n + 1) - 1} = (UNION {B(m) : m \in 0..n - 1}) \cup B(n)
  <2> HIDE DEF B
  <2>1. 0..(n + 1) - 1 = (0..n - 1) \cup {n}
    BY <1>1
  <2> QED BY <2>1
<1>5. n * batch + batch = (n + 1) * batch
  BY <1>1
<1> HIDE DEF B
<1> QED BY <1>2, <1>3, <1>4, <1>5 DEF ReadUpTo, B

(* ForwardBackward reads exactly the batches of the step.                  *)
LEMMA ForwardBackwardReads ==
    ASSUME batch \in LoaderBatches, NEW r \in Ranks, NEW s \in 0..NumIteration - 1,
           ForwardBackward(r), iter[r] = Position(r, s * MicroSteps)
    PROVE  /\ iter' = [iter EXCEPT ![r] = Position(r, (s + 1) * MicroSteps)]
           /\ grads' = [grads EXCEPT ![r] =
                           [samples |-> RankSamples(r, s), reads |-> MicroSteps * batch]]
<1> DEFINE Rec(read) ==
              read = [n \in 0..MicroSteps |->
                         IF n = 0 THEN [iter |-> iter[r], grads |-> NoGrads]
                         ELSE LET p == read[n - 1]
                                  b == LoaderBatch(p.iter, DatasetSize, batch)
                              IN  [iter  |-> LoaderNext(p.iter, World, DatasetSize, batch),
                                   grads |-> [samples |-> p.grads.samples \cup b,
                                              reads   |-> p.grads.reads + Cardinality(b)]]]
           f == CHOOSE read : Rec(read)
           g == [n \in 0..MicroSteps |-> ReadUpTo(r, s, n)]
<1>1. MicroSteps \in Nat /\ s \in Nat /\ batch \in Nat
  BY BatchSizes, TrainingAssumption
<1>2. /\ iter' = [iter EXCEPT ![r] = f[MicroSteps].iter]
      /\ grads' = [grads EXCEPT ![r] = f[MicroSteps].grads]
  BY DEF ForwardBackward
<1>3. ReadUpTo(r, s, 0) = [iter |-> iter[r], grads |-> NoGrads]
  <2>1. s * MicroSteps + 0 = s * MicroSteps /\ 0..0 - 1 = {} /\ 0 * batch = 0
    BY <1>1
  <2>2. UNION {BatchAt(r, s * MicroSteps + m) : m \in 0..0 - 1} = {}
    BY <2>1
  <2> QED BY <2>1, <2>2 DEF ReadUpTo, NoGrads
<1>4. Rec(g)
  <2>1. ASSUME NEW n \in 0..MicroSteps
        PROVE  ReadUpTo(r, s, n) =
                 IF n = 0 THEN [iter |-> iter[r], grads |-> NoGrads]
                 ELSE LET p == g[n - 1]
                          b == LoaderBatch(p.iter, DatasetSize, batch)
                      IN  [iter  |-> LoaderNext(p.iter, World, DatasetSize, batch),
                           grads |-> [samples |-> p.grads.samples \cup b,
                                      reads   |-> p.grads.reads + Cardinality(b)]]
    <3>1. CASE n = 0
      BY <3>1, <1>3
    <3>2. CASE n # 0
      <4>1. n - 1 \in 0..MicroSteps - 1 /\ n - 1 \in 0..MicroSteps /\ (n - 1) + 1 = n
        BY <1>1, <3>2
      <4>2. g[n - 1] = ReadUpTo(r, s, n - 1)
        BY <4>1
      <4> HIDE DEF g
      <4> QED BY <3>2, <4>1, <4>2, ReadNext
    <3> QED BY <3>1, <3>2
  <2> QED BY <2>1
<1>5. Rec(f)
  <2> HIDE DEF Rec, g
  <2> QED BY <1>4
<1>6. \A n \in 0..MicroSteps : f[n] = ReadUpTo(r, s, n)
  <2> DEFINE S == {n \in 0..MicroSteps : f[n] = ReadUpTo(r, s, n)}
  <2>1. 0 \in S
    <3>1. 0 \in 0..MicroSteps
      BY <1>1
    <3>2. f[0] = [iter |-> iter[r], grads |-> NoGrads]
      <4> HIDE DEF f
      <4> QED BY <1>5, <3>1
    <3> HIDE DEF f
    <3> QED BY <1>3, <3>1, <3>2
  <2>2. ASSUME NEW n \in 0..MicroSteps, n + 1 \in 0..MicroSteps, n \in S
        PROVE  n + 1 \in S
    <3>1. n \in 0..MicroSteps - 1 /\ n + 1 # 0 /\ (n + 1) - 1 = n
      BY <1>1, <2>2
    <3>2. f[n + 1] =
             LET p == f[n]
                 b == LoaderBatch(p.iter, DatasetSize, batch)
             IN  [iter  |-> LoaderNext(p.iter, World, DatasetSize, batch),
                  grads |-> [samples |-> p.grads.samples \cup b,
                             reads   |-> p.grads.reads + Cardinality(b)]]
      <4> HIDE DEF f
      <4> QED BY <1>5, <2>2, <3>1, ZenonT(30)
    <3>3. f[n] = ReadUpTo(r, s, n)
      BY <2>2
    <3> HIDE DEF f
    <3>4. f[n + 1] = ReadUpTo(r, s, n + 1)
      BY <3>1, <3>2, <3>3, ReadNext
    <3> QED BY <2>2, <3>4
  <2> HIDE DEF S, f
  <2>3. \A n \in 0..MicroSteps : n \in S
    BY <1>1, <2>1, <2>2, UpTo
  <2> QED BY <2>3 DEF S
<1>7. f[MicroSteps] = ReadUpTo(r, s, MicroSteps)
  <2>1. MicroSteps \in 0..MicroSteps
    BY <1>1
  <2> HIDE DEF f
  <2> QED BY <1>6, <2>1
<1>8. s * MicroSteps + MicroSteps = (s + 1) * MicroSteps
  BY <1>1
<1>9. /\ f[MicroSteps].iter = Position(r, (s + 1) * MicroSteps)
      /\ f[MicroSteps].grads = [samples |-> RankSamples(r, s), reads |-> MicroSteps * batch]
  <2> HIDE DEF f
  <2> DEFINE x == Position(r, s * MicroSteps + MicroSteps)
             y == [samples |-> RankSamples(r, s), reads |-> MicroSteps * batch]
  <2>1. f[MicroSteps] = [iter |-> x, grads |-> y]
    BY <1>7 DEF ReadUpTo, RankSamples
  <2>2. x = Position(r, (s + 1) * MicroSteps)
    BY <1>8
  <2> HIDE DEF x, y
  <2>3. f[MicroSteps].iter = x /\ f[MicroSteps].grads = y
    BY <2>1
  <2> QED BY <2>2, <2>3 DEF x, y
<1> HIDE DEF f
<1> QED BY <1>2, <1>9, Zenon

-----------------------------------------------------------------------------
(* What all ranks read in a step.                                          *)
LEMMA FiniteRanks ==
    /\ IsFiniteSet(Ranks) /\ Cardinality(Ranks) = World /\ World \in Nat
    /\ \A s \in SUBSET Ranks : IsFiniteSet(s) /\ Cardinality(s) \in 0..World
<1>1. World \in Nat \ {0} /\ Ranks = 0..World - 1 /\ 0 \in Int /\ World - 1 \in Int
  BY TrainingAssumption DEF Ranks
<1>2. IsFiniteSet(0..World - 1) /\ Cardinality(0..World - 1) = World
  <2> DEFINE b == World - 1
  <2>1. b \in Int /\ ~(0 > b) /\ b - 0 + 1 = World
    BY <1>1
  <2> HIDE DEF b
  <2>2. IsFiniteSet(0..b) /\ Cardinality(0..b) = b - 0 + 1
    BY <2>1, FS_Interval
  <2>3. IsFiniteSet(0..b) /\ Cardinality(0..b) = World
    BY <2>1, <2>2
  <2> QED BY <2>3 DEF b
<1>3. ASSUME NEW s \in SUBSET Ranks PROVE IsFiniteSet(s) /\ Cardinality(s) \in 0..World
  <2>1. s \subseteq 0..World - 1
    BY <1>1
  <2>2. IsFiniteSet(s) /\ Cardinality(s) <= World
    BY <1>2, <2>1, FS_Subset
  <2>3. Cardinality(s) \in Nat
    BY <2>2, FS_CardinalityType
  <2> QED BY <1>1, <2>2, <2>3
<1> QED BY <1>1, <1>2, <1>3

LEMMA SumOfReads ==
    ASSUME NEW c \in Nat, \A q \in Ranks : grads[q].reads = c
    PROVE  MapThenSumSet(LAMBDA q : grads[q].reads, Ranks) = World * c
<1> DEFINE One(s) == CHOOSE x \in s : TRUE
           Rec(h) == h = [s \in SUBSET Ranks |->
                             IF s = {} THEN 0
                             ELSE grads[One(s)].reads + h[s \ {One(s)}]]
           f == CHOOSE h : Rec(h)
           g == [s \in SUBSET Ranks |-> Cardinality(s) * c]
<1>1. MapThenSumSet(LAMBDA q : grads[q].reads, Ranks) = f[Ranks]
  BY DEF MapThenSumSet, MapThenFoldSet
<1>2. ASSUME NEW s \in SUBSET Ranks, s # {}
      PROVE  /\ One(s) \in Ranks /\ s \ {One(s)} \in SUBSET Ranks
             /\ grads[One(s)].reads = c
             /\ Cardinality(s) \in Nat /\ Cardinality(s \ {One(s)}) = Cardinality(s) - 1
  <2>1. One(s) \in s
    BY <1>2
  <2> HIDE DEF One
  <2>2. IsFiniteSet(s) /\ Cardinality(s) \in Nat
    BY FiniteRanks
  <2>3. Cardinality(s \ {One(s)}) = Cardinality(s) - 1
    BY <2>1, <2>2, FS_RemoveElement
  <2> QED BY <2>1, <2>2, <2>3
<1>3. Rec(g)
  <2>1. ASSUME NEW s \in SUBSET Ranks
        PROVE  Cardinality(s) * c = IF s = {} THEN 0
                                    ELSE grads[One(s)].reads + g[s \ {One(s)}]
    <3>1. CASE s = {}
      <4>1. Cardinality(s) = 0
        BY <3>1, FS_EmptySet
      <4> QED BY <3>1, <4>1
    <3>2. CASE s # {}
      <4> DEFINE n == Cardinality(s)
      <4>1. g[s \ {One(s)}] = (n - 1) * c /\ grads[One(s)].reads = c /\ n \in Nat
        <5> HIDE DEF One
        <5> QED BY <1>2, <3>2
      <4> HIDE DEF One, g, n
      <4>2. n * c = c + (n - 1) * c
        BY <4>1
      <4> QED BY <3>2, <4>1, <4>2 DEF n
    <3> QED BY <3>1, <3>2
  <2> HIDE DEF One
  <2> QED BY <2>1
<1>4. Rec(f)
  <2> HIDE DEF Rec, g
  <2> QED BY <1>3
<1> HIDE DEF One, f
<1>5. \A n \in 0..World : n \in {m \in 0..World : \A s \in SUBSET Ranks :
                                     Cardinality(s) = m => f[s] = m * c}
  <2> DEFINE S == {m \in 0..World : \A s \in SUBSET Ranks : Cardinality(s) = m => f[s] = m * c}
  <2>1. 0 \in S
    <3>1. ASSUME NEW s \in SUBSET Ranks, Cardinality(s) = 0 PROVE f[s] = 0 * c
      <4>1. s = {}
        BY <3>1, FiniteRanks, FS_EmptySet
      <4>2. f[s] = 0
        BY <1>4, <4>1
      <4> QED BY <4>2
    <3> QED BY <3>1, FiniteRanks
  <2>2. ASSUME NEW n \in 0..World, n + 1 \in 0..World, n \in S
        PROVE  n + 1 \in S
    <3>1. ASSUME NEW s \in SUBSET Ranks, Cardinality(s) = n + 1 PROVE f[s] = (n + 1) * c
      <4>1. s # {}
        BY <2>2, <3>1, FS_EmptySet
      <4>2. f[s] = c + f[s \ {One(s)}]
        BY <1>2, <1>4, <4>1
      <4>3. Cardinality(s \ {One(s)}) = n /\ s \ {One(s)} \in SUBSET Ranks
        BY <1>2, <2>2, <3>1, <4>1
      <4>4. f[s \ {One(s)}] = n * c
        BY <2>2, <4>3
      <4>5. c + n * c = (n + 1) * c
        BY <2>2
      <4> QED BY <4>2, <4>4, <4>5
    <3> QED BY <2>2, <3>1
  <2> HIDE DEF S
  <2>3. \A n \in 0..World : n \in S
    BY <2>1, <2>2, FiniteRanks, UpTo
  <2> QED BY <2>3 DEF S
<1>6. f[Ranks] = World * c
  <2>1. World \in 0..World /\ Ranks \in SUBSET Ranks /\ Cardinality(Ranks) = World
    BY FiniteRanks
  <2> QED BY <1>5, <2>1
<1> QED BY <1>1, <1>6

(* The batches of all ranks are the samples of the step, each once.        *)
LEMMA StepSamples ==
    ASSUME batch \in LoaderBatches, NEW s \in Nat
    PROVE  UNION {RankSamples(r, s) : r \in Ranks} = s * TotalBatch .. (s + 1) * TotalBatch - 1
<1>1. /\ World \in Nat \ {0} /\ batch \in Nat \ {0} /\ MicroSteps \in Nat \ {0}
      /\ TotalBatch = MicroSteps * (batch * World) /\ TotalBatch \in Nat
      /\ s * TotalBatch \in Nat /\ (s + 1) * TotalBatch = s * TotalBatch + TotalBatch
  BY BatchSizes
<1>2. ASSUME NEW r \in Ranks, NEW x \in RankSamples(r, s)
      PROVE  x \in s * TotalBatch .. (s + 1) * TotalBatch - 1
  <2>1. PICK n \in 0..MicroSteps - 1 : x \in BatchAt(r, s * MicroSteps + n)
    BY <1>2 DEF RankSamples
  <2> DEFINE i == r + (s * MicroSteps + n) * World
  <2>2. x \in i * batch .. (i + 1) * batch - 1
    BY <2>1 DEF BatchAt
  <2>3. /\ i * batch \in Nat /\ (i + 1) * batch = i * batch + batch
        /\ (i + 1) * batch <= (s + 1) * TotalBatch /\ s * TotalBatch <= i * batch
    BY BatchEnds
  <2> HIDE DEF i
  <2> QED BY <1>1, <2>2, <2>3
<1>3. ASSUME NEW x \in s * TotalBatch .. (s + 1) * TotalBatch - 1
      PROVE  \E r \in Ranks : x \in RankSamples(r, s)
  <2>1. x \in Nat
    BY <1>1
  <2>2. PICK i \in Nat, a \in 0..batch - 1 : x = i * batch + a
    BY <1>1, <2>1, Remainder
  <2>3. PICK k \in Nat, r \in 0..World - 1 : i = k * World + r
    BY <1>1, Remainder
  <2>4. PICK t \in Nat, n \in 0..MicroSteps - 1 : k = t * MicroSteps + n
    BY <1>1, Remainder
  <2>5. r \in Ranks
    BY <1>1 DEF Ranks
  <2>6. /\ i = r + (t * MicroSteps + n) * World
        /\ x \in BatchAt(r, t * MicroSteps + n)
        /\ i * batch \in Nat /\ (i + 1) * batch = i * batch + batch
    <3>1. i = r + (t * MicroSteps + n) * World
      BY <1>1, <2>3, <2>4
    <3>2. i * batch \in Nat /\ (i + 1) * batch = i * batch + batch
      BY <1>1, <2>2
    <3>3. x \in i * batch .. (i + 1) * batch - 1
      BY <1>1, <2>2, <3>2
    <3> QED BY <3>1, <3>2, <3>3 DEF BatchAt
  <2>7. t * TotalBatch <= x /\ x < (t + 1) * TotalBatch /\ t * TotalBatch \in Nat
        /\ (t + 1) * TotalBatch \in Nat
    <3>1. /\ (i + 1) * batch <= (t + 1) * TotalBatch
          /\ t * TotalBatch <= i * batch
      BY <2>5, <2>6, BatchEnds
    <3>2. t * TotalBatch \in Nat /\ (t + 1) * TotalBatch \in Nat
      BY <1>1
    <3> QED BY <1>1, <2>2, <2>6, <3>1, <3>2
  <2>8. t = s
    <3>1. CASE t < s
      <4>1. (t + 1) * TotalBatch <= s * TotalBatch
        <5>1. t + 1 \in Nat /\ t + 1 <= s
          BY <3>1
        <5> QED BY <1>1, <5>1, Ordered
      <4> QED BY <1>1, <2>7, <4>1
    <3>2. CASE s < t
      <4>1. (s + 1) * TotalBatch <= t * TotalBatch
        <5>1. s + 1 \in Nat /\ s + 1 <= t
          BY <3>2
        <5> QED BY <1>1, <5>1, Ordered
      <4> QED BY <1>1, <2>7, <4>1
    <3> QED BY <3>1, <3>2
  <2> QED BY <2>5, <2>6, <2>8 DEF RankSamples
<1> QED BY <1>2, <1>3

-----------------------------------------------------------------------------
(* Directories.                                                            *)
LEMMA WholeMeans ==
    ASSUME NEW dk, NEW d
    PROVE  d \in WholeDirs(dk) <=>
              \A r \in Ranks : <<d, r>> \in DOMAIN dk
                              /\ dk[<<d, r>>]["trainer_state"].status = "complete"
<1>1. (\A r \in Ranks : <<d, r>> \in DOMAIN dk) => d \in {k[1] : k \in DOMAIN dk}
  <2>1. SUFFICES ASSUME \A r \in Ranks : <<d, r>> \in DOMAIN dk
                 PROVE  \E k \in DOMAIN dk : d = k[1]
    OBVIOUS
  <2>2. <<d, 0>> \in DOMAIN dk
    BY <2>1, MainRank
  <2> QED BY <2>2
<1> QED BY <1>1 DEF WholeDirs

LEMMA RestorableIsWhole ==
    ASSUME NEW dk
    PROVE  Restorable(dk) \subseteq WholeDirs(dk)
BY DEF Restorable

(* The directories of this launch that look whole are: trainer_state.json  *)
(* is written last.                                                        *)
OwnWhole == \A d \in WholeDirs(disk) : d.root = launch => d \in Restorable(disk)

LEMMA OwnAreWhole == IInv /\ ~Down => OwnWhole
<1> SUFFICES ASSUME IInv, ~Down, NEW d \in WholeDirs(disk), d.root = launch
             PROVE  d \in Restorable(disk)
  BY DEF OwnWhole
<1>1. ASSUME NEW r \in Ranks
      PROVE  /\ <<d, r>> \in DOMAIN disk
             /\ \A i \in DOMAIN SaveOrder : disk[<<d, r>>][SaveOrder[i]].status = "complete"
  <2> DEFINE k == <<d, r>>
  <2>1. k \in DOMAIN disk /\ disk[k]["trainer_state"].status = "complete" /\ Own(k)
    BY WholeMeans DEF Own
  <2>2. PICK n \in {saved[r], Len(SaveOrder)} : WrittenUpTo(k, n)
    <3>1. k[2] = r
      OBVIOUS
    <3>2. WrittenUpTo(k, IF k[1].step = step[r] /\ pc[r] = "save"
                         THEN saved[r] ELSE Len(SaveOrder))
      BY <2>1, <3>1 DEF IInv, SavesInv
    <3> QED BY <3>2
  <2>3. Len(SaveOrder) \in DOMAIN SaveOrder /\ SaveOrder[Len(SaveOrder)] = "trainer_state"
        /\ Len(SaveOrder) \in Nat /\ DOMAIN SaveOrder = 1..Len(SaveOrder)
    BY SaveOrderFacts
  <2> HIDE DEF k
  <2>4. Len(SaveOrder) <= n
    BY <2>1, <2>2, <2>3 DEF WrittenUpTo
  <2>5. saved[r] \in Nat
    BY DEF IInv, Types
  <2>6. \A i \in DOMAIN SaveOrder : i <= n
    BY <2>2, <2>3, <2>4, <2>5
  <2> QED BY <2>1, <2>2, <2>6 DEF WrittenUpTo, k
<1> QED BY <1>1, RestorableMeans

LEMMA OwnAreWholeNext == IInv' /\ ~Down' => OwnWhole'
BY OwnAreWhole, PTL

LEMMA SameOrder ==
    ASSUME options' = options
    PROVE  SaveOrder' = SaveOrder /\ (Restorable(disk))' = Restorable(disk')
BY DEF SaveOrder, HasState, Restorable, WholeDirs

LEMMA CrashKeeps ==
    ASSUME IInv, Settings, Crash, NEW e \in Restorable(disk), ~(pc[0] = "prune" /\ e \in Pruned)
    PROVE  e \in Restorable(disk')
<1>1. ASSUME NEW q \in Ranks
      PROVE  /\ <<e, q>> \in DOMAIN disk'
             /\ \A i \in DOMAIN SaveOrder : disk'[<<e, q>>][SaveOrder[i]].status = "complete"
  <2>1. /\ <<e, q>> \in DOMAIN disk
        /\ \A i \in DOMAIN SaveOrder : disk[<<e, q>>][SaveOrder[i]].status = "complete"
    BY RestorableMeans
  <2>2. <<e, q>>[1] = e
    OBVIOUS
  <2> QED BY <2>1, <2>2, CrashFacts
<1> QED BY <1>1, RestorableMeans

LEMMA PruneKeepsOthers ==
    ASSUME IInv, Prune, NEW e \in Restorable(disk), e \notin Pruned
    PROVE  e \in Restorable(disk')
<1>1. /\ \A k \in DOMAIN disk : k[1] \notin Pruned => k \in DOMAIN disk'
      /\ \A k \in DOMAIN disk' : disk'[k] = disk[k]
  BY DEF Prune
<1> QED BY <1>1, RestorableMeans

(* Which steps touch the files.                                            *)
LEMMA DiskChanges ==
    ASSUME [Next]_vars
    PROVE  disk' = disk \/ (\E r \in Ranks : WriteFile(r)) \/ Prune \/ Crash
<1>1. ASSUME NEW r \in Ranks, ResumeFromCheckpoint(r) \/ ForwardBackward(r) \/ Finish(r)
      PROVE  disk' = disk
  BY <1>1 DEF ResumeFromCheckpoint, ForwardBackward, Finish
<1>2. OptimizerStep \/ Relaunch \/ Terminated \/ UNCHANGED vars => disk' = disk
  BY DEF OptimizerStep, Relaunch, Terminated, vars
<1> QED BY <1>1, <1>2 DEF Next, Progress, RankStep

(* What an earlier launch has left stays.                                  *)
LEMMA OlderKept ==
    ASSUME IInv, Settings, [Next]_vars, NEW e \in Restorable(disk), e.root < launch
    PROVE  e \in Restorable(disk')
<1>1. e \notin Pruned
  <2>1. e.root # launch
    <3>1. e \in WholeDirs(disk)
      BY RestorableIsWhole
    <3>2. e \in Directories /\ launch \in Nat
      BY <3>1 DEF WholeDirs, IInv, Types
    <3> QED BY <3>2 DEF Directories
  <2> QED BY <2>1, PrunedMeans DEF Dirs
<1>2. CASE disk' = disk
  BY <1>2
<1>3. ASSUME NEW r \in Ranks, WriteFile(r) PROVE e \in Restorable(disk')
  BY <1>3, SurvivesWrite
<1>4. CASE Prune
  BY <1>1, <1>4, PruneKeepsOthers
<1>5. CASE Crash
  BY <1>1, <1>5, CrashKeeps
<1> QED BY <1>2, <1>3, <1>4, <1>5, DiskChanges

LEMMA LaunchFacts ==
    ASSUME IInv, [Next]_vars
    PROVE  /\ options' = options
           /\ Relaunch \/ UNCHANGED <<launch, batch, load>>
           /\ Down => Down' \/ Relaunch
<1>1. ASSUME NEW r \in Ranks, RankStep(r)
      PROVE  UNCHANGED <<options, launch, batch, load>>
  BY <1>1 DEF RankStep, ResumeFromCheckpoint, ForwardBackward, WriteFile, Finish
<1>2. OptimizerStep \/ Prune \/ Crash \/ Terminated \/ UNCHANGED vars
        => UNCHANGED <<options, launch, batch, load>>
  BY DEF OptimizerStep, Prune, Crash, Terminated, vars
<1>3. Relaunch => options' = options
  BY DEF Relaunch
<1>4. ASSUME Down PROVE Down' \/ Relaunch
  <2>1. \A r \in Ranks : pc[r] = "down"
    BY <1>4 DEF Down, IInv, StepsInv
  <2>2. \A r \in Ranks : ~RankStep(r)
    BY <2>1 DEF RankStep, ResumeFromCheckpoint, ForwardBackward, WriteFile, Finish
  <2>3. ~OptimizerStep /\ ~Prune /\ ~Crash
    BY <2>1, MainRank DEF OptimizerStep, Prune, Crash
  <2>4. Terminated \/ UNCHANGED vars => Down'
    BY <1>4 DEF Terminated, vars, Down
  <2> QED BY <2>2, <2>3, <2>4 DEF Next, Progress
<1> QED BY <1>1, <1>2, <1>3, <1>4 DEF Next, Progress

LEMMA NextWhole ==
    ASSUME IInv, IInv', Settings, WholeInv, [Next]_vars
    PROVE  WholeInv'
<1>1. /\ options' = options /\ (Restorable(disk))' = Restorable(disk')
      /\ Relaunch \/ UNCHANGED <<launch, batch, load>>
      /\ Down => Down' \/ Relaunch
  BY LaunchFacts, SameOrder
<1> SUFFICES ASSUME NEW d \in WholeDirs(disk'), d \notin Restorable(disk')
             PROVE  /\ Down' \/ d.root < launch'
                    /\ \E e \in Restorable(disk') : e.root = d.root /\ e.step > d.step
  BY <1>1 DEF WholeInv
<1>2. /\ \A e \in WholeDirs(disk) : e \in Directories /\ e.root <= launch
      /\ launch \in Nat /\ \A e \in Directories : e.root \in Nat
  BY DEF WholeDirs, IInv, Types, DiskInv, Directories
<1>3. Down' \/ d.root # launch'
  BY <1>1, OwnAreWholeNext DEF OwnWhole
<1>4. ASSUME d \in WholeDirs(disk), d \notin Restorable(disk), Down' \/ d.root < launch'
      PROVE  /\ Down' \/ d.root < launch'
             /\ \E e \in Restorable(disk') : e.root = d.root /\ e.step > d.step
  <2>1. PICK e \in Restorable(disk) : e.root = d.root /\ e.step > d.step
    BY <1>4 DEF WholeInv
  <2>2. CASE d.root < launch
    BY <1>4, <2>1, <2>2, OlderKept
  <2>3. CASE ~(d.root < launch)
    <3>1. Down
      BY <1>4, <2>3 DEF WholeInv
    <3>2. Relaunch \/ UNCHANGED disk
      <4>1. \A r \in Ranks : pc[r] = "down"
        BY <3>1 DEF Down, IInv, StepsInv
      <4>2. ~Prune /\ ~Crash /\ \A r \in Ranks : ~WriteFile(r)
        BY <4>1, MainRank DEF Prune, Crash, WriteFile
      <4> QED BY <4>2, DiskChanges
    <3>3. UNCHANGED disk
      BY <3>2 DEF Relaunch
    <3> QED BY <1>4, <2>1, <3>3
  <2> QED BY <2>2, <2>3
<1>5. CASE UNCHANGED disk
  <2>1. d \in WholeDirs(disk) /\ d \notin Restorable(disk)
    BY <1>5
  <2>2. Down \/ d.root < launch
    BY <2>1 DEF WholeInv
  <2>3. Down' \/ d.root < launch'
    <3>1. Relaunch => launch' = launch + 1
      BY DEF Relaunch
    <3>2. d \in Directories /\ d.root <= launch
      BY <1>2, <2>1
    <3> QED BY <1>1, <1>2, <2>2, <3>1, <3>2
  <2> QED BY <1>4, <2>1, <2>3
<1>6. ASSUME NEW r \in Ranks, WriteFile(r)
      PROVE  /\ Down' \/ d.root < launch'
             /\ \E e \in Restorable(disk') : e.root = d.root /\ e.step > d.step
  <2>1. /\ ~Down /\ UNCHANGED launch
        /\ DOMAIN disk' = DOMAIN disk \cup {Current(r)}
        /\ \A k \in DOMAIN disk : k # Current(r) => disk'[k] = disk[k]
        /\ pc' = [pc EXCEPT ![r] = IF saved[r] + 1 = Len(SaveOrder) THEN AfterSave(r) ELSE "save"]
    BY <1>6, WriteFacts
  <2>2. ~Down'
    BY <2>1 DEF Down, AfterSave, IInv, Types
  <2>3. d.root # launch
    BY <1>3, <2>1, <2>2
  <2>4. \A q \in Ranks : <<d, q>> # Current(r)
    BY <2>3 DEF Current
  <2>5. d \in WholeDirs(disk)
    BY <2>1, <2>4, WholeMeans
  <2>6. d \notin Restorable(disk)
    BY <1>6, SurvivesWrite
  <2> QED BY <1>2, <1>4, <2>1, <2>3, <2>5, <2>6
<1>7. CASE Prune
  <2>1. /\ UNCHANGED launch
        /\ \A k \in DOMAIN disk' : k \in DOMAIN disk /\ k[1] \notin Pruned
        /\ \A k \in DOMAIN disk' : disk'[k] = disk[k]
    BY <1>7 DEF Prune
  <2>2. ~Down'
    <3>1. pc[0] = "prune" /\ pc' = [pc EXCEPT ![0] = "train"]
      BY <1>7 DEF Prune
    <3>2. \A q \in Ranks : pc[q] # "down"
      BY <3>1, MainRank DEF IInv, StepsInv
    <3> QED BY <3>1, <3>2, MainRank DEF Down, IInv, Types
  <2>3. d \in WholeDirs(disk)
    BY <2>1, WholeMeans
  <2>4. d \notin Pruned
    <3>1. <<d, 0>> \in DOMAIN disk'
      BY WholeMeans, MainRank
    <3>2. <<d, 0>>[1] = d
      OBVIOUS
    <3> QED BY <2>1, <3>1, <3>2
  <2>5. d \notin Restorable(disk)
    BY <1>7, <2>4, PruneKeepsOthers
  <2> QED BY <1>2, <1>3, <1>4, <2>1, <2>2, <2>3, <2>5
<1>8. CASE Crash
  <2>1. ~Down /\ Down' /\ UNCHANGED launch
    <3>1. ~Down
      BY <1>8 DEF Crash, Down, IInv, StepsInv
    <3> QED BY <1>8, <3>1, CrashFacts, MainRank DEF Down
  <2>2. d \in WholeDirs(disk)
    <3>1. "trainer_state" \in FileNames
      BY DEF FileNames
    <3> QED BY <1>8, <3>1, CrashFacts, WholeMeans
  <2>3. CASE d \in Restorable(disk)
    <3>1. pc[0] = "prune" /\ d \in Pruned
      BY <1>8, <2>3, CrashKeeps
    <3>2. PICK e \in Restorable(disk) : e \notin Pruned /\ e.root = d.root /\ e.step > d.step
      BY <3>1, PruneKeeps
    <3> QED BY <1>8, <2>1, <3>2, CrashKeeps
  <2> QED BY <1>4, <2>1, <2>2, <2>3
<1> QED BY <1>5, <1>6, <1>7, <1>8, DiskChanges

LEMMA NextLoad ==
    ASSUME IInv, Settings, WholeInv, LoadInv, [Next]_vars
    PROVE  LoadInv'
<1>1. (Restorable(disk))' = Restorable(disk')
  BY LaunchFacts, SameOrder
<1>2. CASE UNCHANGED <<launch, load>>
  BY <1>1, <1>2, OlderKept DEF LoadInv
<1>3. CASE Relaunch
  <2> SUFFICES ASSUME load' # NoDir
               PROVE  load' \in Restorable(disk) /\ load'.root < launch'
    BY <1>1, <1>3 DEF LoadInv, Relaunch, NoDir
  <2>1. /\ load' \in WholeDirs(disk) /\ launch' = launch + 1
        /\ \A e \in WholeDirs(disk) :
              e.step < load'.step \/ (e.step = load'.step /\ e.root <= load'.root)
    BY <1>3 DEF Relaunch
  <2>2. /\ \A e \in WholeDirs(disk) : e.step \in Nat /\ e.root \in Nat /\ e.root <= launch
        /\ launch \in Nat
    BY DEF WholeDirs, IInv, Types, DiskInv, Directories
  <2>3. load' \in Restorable(disk)
    <3>1. SUFFICES ASSUME load' \notin Restorable(disk) PROVE FALSE
      OBVIOUS
    <3>2. PICK e \in Restorable(disk) : e.step > load'.step
      BY <2>1, <3>1 DEF WholeInv
    <3>3. e \in WholeDirs(disk)
      BY RestorableIsWhole
    <3> QED BY <2>1, <2>2, <3>2, <3>3
  <2> QED BY <2>1, <2>2, <2>3
<1> QED BY <1>2, <1>3, LaunchFacts

-----------------------------------------------------------------------------
(* Files.                                                                  *)
LEMMA FixedOptions ==
    ASSUME options' = options
    PROVE  /\ HasState' = HasState /\ SavedFiles' = SavedFiles
           /\ \A s : History(s)' = History(s)
           /\ \A s : Moments(s)' = Moments(s) /\ Schedule(s)' = Schedule(s)
           /\ \A f, s : Kept(f, s)' = Kept(f, s)
<1>1. HasState' = HasState /\ SavedFiles' = SavedFiles
  BY DEF HasState, SavedFiles, SaveOrder
<1>2. \A k : ExpectedUpdate(k)' = ExpectedUpdate(k)
  BY <1>1 DEF ExpectedUpdate
<1>3. \A s : History(s)' = History(s)
  BY <1>2 DEF History
<1>4. \A s : Moments(s)' = Moments(s) /\ Schedule(s)' = Schedule(s)
  BY <1>1 DEF Moments, Schedule
<1>5. \A f, s : Kept(f, s)' = Kept(f, s)
  BY <1>3, <1>4 DEF Kept
<1> QED BY <1>1, <1>3, <1>4, <1>5

LEMMA WriteContent ==
    ASSUME IInv, Settings, NEW r \in Ranks, WriteFile(r), NEW f \in FileNames
    PROVE  /\ disk'[Current(r)][f] =
                IF f = NextFile(r) THEN Complete(Content(f, r))
                ELSE IF Current(r) \in DOMAIN disk THEN disk[Current(r)][f] ELSE Absent
           /\ NextFile(r) \in SavedFiles
<1> DEFINE k0 == Current(r)
           g == NextFile(r)
           file == Complete(Content(g, r))
           old == IF k0 \in DOMAIN disk THEN disk[k0] ELSE NoFiles
<1>1. k0 = <<StepDir(r), r>>
  BY DEF Current, StepDir, Root, Settings
<1>2. disk' = [k \in DOMAIN disk \cup {k0} |->
                  IF k = k0 THEN [old EXCEPT ![g] = file] ELSE disk[k]]
  BY <1>1 DEF WriteFile, Written
<1>3. g \in SavedFiles /\ g \in FileNames
  <2>1. saved[r] + 1 \in DOMAIN SaveOrder
    BY WriteFacts
  <2> QED BY <2>1, SaveOrderFacts DEF NextFile, SavedFiles
<1>4. DOMAIN old = FileNames
  BY DEF IInv, Types, NoFiles
<1>5. disk'[k0] = [old EXCEPT ![g] = file]
  <2> HIDE DEF k0, old, g, file
  <2> QED BY <1>2
<1>6. disk'[k0][f] = IF f = g THEN file ELSE old[f]
  <2> HIDE DEF k0, old, g, file
  <2> QED BY <1>3, <1>4, <1>5
<1>7. old[f] = IF k0 \in DOMAIN disk THEN disk[k0][f] ELSE Absent
  BY DEF NoFiles
<1> QED BY <1>3, <1>6, <1>7

(* What Save writes is the state at the rank's step.                       *)
LEMMA ContentKept ==
    ASSUME Ranked, NEW r \in Ranks, pc[r] = "save", NEW f \in FileNames
    PROVE  Content(f, r) = Kept(f, step[r])
<1>1. /\ params[r] = History(step[r])
      /\ optStep[r] = Moments(step[r]) /\ sched[r] = Schedule(step[r])
      /\ consumed[r] = step[r] * TotalBatch
  BY DEF Ranked, RankInv, Training, StepsRead
<1> QED BY <1>1 DEF Content, Kept, FileNames

LEMMA CrashAbsent ==
    ASSUME IInv, Settings, FilesInv, Crash, NEW k \in DOMAIN disk', NEW f \in FileNames,
           f \notin SavedFiles
    PROVE  disk'[k][f].status = "absent"
<1> DEFINE saving   == {r \in Ranks : pc[r] = "save"}
           removing == IF pc[0] = "prune" THEN {j \in DOMAIN disk : j[1] \in Pruned} ELSE {}
           Lost(cut, j, g) == \E r \in cut : j = <<StepDir(r), r>> /\ g = NextFile(r)
<1>1. PICK cut \in SUBSET saving, gone \in SUBSET (removing \X FileNames) :
          disk' = [j \in DOMAIN disk \cup {<<StepDir(r), r>> : r \in cut} |->
                        [g \in FileNames |->
                            IF Lost(cut, j, g) THEN Partial
                            ELSE IF <<j, g>> \in gone \/ j \notin DOMAIN disk THEN Absent
                            ELSE disk[j][g]]]
  BY DEF Crash
<1>2. ~Lost(cut, k, f)
  <2>1. SUFFICES ASSUME NEW r \in cut, f = NextFile(r) PROVE FALSE
    OBVIOUS
  <2>2. r \in Ranks
    OBVIOUS
  <2>3. saved[r] + 1 \in DOMAIN SaveOrder
    BY <2>2, SaveOrderFacts DEF IInv, StepsInv, Types
  <2> QED BY <2>1, <2>3 DEF SavedFiles, NextFile
<1>3. disk'[k][f] = IF <<k, f>> \in gone \/ k \notin DOMAIN disk THEN Absent ELSE disk[k][f]
  <2> HIDE DEF saving, removing, Lost
  <2> QED BY <1>1, <1>2
<1> QED BY <1>3 DEF FilesInv, Absent

LEMMA NextFiles ==
    ASSUME IInv, Settings, FilesInv, Ranked, [Next]_vars
    PROVE  FilesInv'
<1>1. SavedFiles' = SavedFiles /\ \A f, s : Kept(f, s)' = Kept(f, s)
  BY LaunchFacts, FixedOptions
<1> SUFFICES ASSUME NEW k \in DOMAIN disk', NEW f \in FileNames
             PROVE  /\ disk'[k][f].status = "complete" => disk'[k][f].content = Kept(f, k[1].step)
                    /\ f \notin SavedFiles => disk'[k][f].status = "absent"
  BY <1>1 DEF FilesInv
<1>2. CASE k \in DOMAIN disk /\ disk'[k] = disk[k]
  BY <1>2 DEF FilesInv
<1>3. CASE disk' = disk
  BY <1>2, <1>3
<1>4. ASSUME NEW r \in Ranks, WriteFile(r)
      PROVE  /\ disk'[k][f].status = "complete" => disk'[k][f].content = Kept(f, k[1].step)
             /\ f \notin SavedFiles => disk'[k][f].status = "absent"
  <2>1. /\ DOMAIN disk' = DOMAIN disk \cup {Current(r)}
        /\ \A j \in DOMAIN disk : j # Current(r) => disk'[j] = disk[j]
        /\ pc[r] = "save"
    BY <1>4, WriteFacts
  <2>2. CASE k # Current(r)
    BY <1>2, <2>1, <2>2
  <2>3. CASE k = Current(r)
    <3>1. k[1].step = step[r]
      BY <2>3 DEF Current
    <3>2. /\ disk'[k][f] =
                IF f = NextFile(r) THEN Complete(Content(f, r))
                ELSE IF k \in DOMAIN disk THEN disk[k][f] ELSE Absent
          /\ NextFile(r) \in SavedFiles
      BY <1>4, <2>3, WriteContent
    <3>3. CASE f = NextFile(r)
      <4>1. Content(f, r) = Kept(f, step[r])
        BY <2>1, ContentKept
      <4> QED BY <3>1, <3>2, <3>3, <4>1 DEF Complete
    <3>4. CASE f # NextFile(r)
      BY <3>2, <3>4 DEF FilesInv, Absent
    <3> QED BY <3>3, <3>4
  <2> QED BY <2>2, <2>3
<1>5. CASE Prune
  <2>1. k \in DOMAIN disk /\ disk'[k] = disk[k]
    BY <1>5 DEF Prune
  <2> QED BY <1>2, <2>1
<1>6. CASE Crash
  <2>1. disk'[k][f].status = "complete" => k \in DOMAIN disk /\ disk'[k][f] = disk[k][f]
    BY <1>6, CrashFacts
  <2>2. f \notin SavedFiles => disk'[k][f].status = "absent"
    BY <1>6, CrashAbsent
  <2> QED BY <2>1, <2>2 DEF FilesInv
<1> QED BY <1>3, <1>4, <1>5, <1>6, DiskChanges

-----------------------------------------------------------------------------
(* Ranks.                                                                  *)
LEMMA HistoryGrows ==
    ASSUME NEW s \in Nat
    PROVE  /\ History(0) = <<>>
           /\ Append(History(s), ExpectedUpdate(s + 1)) = History(s + 1)
<1> DEFINE U(k) == ExpectedUpdate(k)
<1>1. History(0) = <<>>
  <2>1. 1..0 = {}
    OBVIOUS
  <2>2. History(0) = [k \in 1..0 |-> ExpectedUpdate(k)]
    BY DEF History
  <2> HIDE DEF U
  <2> QED BY <2>2
<1>2. Append(History(s), U(s + 1)) = History(s + 1)
  <2>1. History(s) = [k \in 1..s |-> U(k)] /\ History(s + 1) = [k \in 1..s + 1 |-> U(k)]
    BY DEF History
  <2> HIDE DEF U
  <2>2. Len([k \in 1..s |-> U(k)]) = s
    OBVIOUS
  <2>3. Append([k \in 1..s |-> U(k)], U(s + 1))
          = [k \in 1..s + 1 |-> IF k = s + 1 THEN U(s + 1) ELSE [j \in 1..s |-> U(j)][k]]
    <3> DEFINE q == [k \in 1..s |-> U(k)]
    <3>1. Append(q, U(s + 1)) = [k \in 1..Len(q) + 1 |-> IF k = Len(q) + 1 THEN U(s + 1) ELSE q[k]]
      OBVIOUS
    <3> QED BY <2>2, <3>1
  <2>4. \A k \in 1..s + 1 : k # s + 1 => k \in 1..s
    OBVIOUS
  <2> QED BY <2>1, <2>3, <2>4
<1> QED BY <1>1, <1>2

(* Ranks whose state a step does not touch, or only where they go next.    *)
LEMMA RankStays ==
    ASSUME NEW r \in Ranks, RankInv(r), options' = options, batch' = batch,
           step'[r] = step[r], consumed'[r] = consumed[r], iter'[r] = iter[r],
           params'[r] = params[r], optStep'[r] = optStep[r], sched'[r] = sched[r],
           grads'[r] = grads[r],
           pc'[r] = pc[r] \/ ({pc[r], pc'[r]} \subseteq Training \ {"reduce"})
    PROVE  RankInv(r)'
<1>1. \A s : History(s)' = History(s) /\ Moments(s)' = Moments(s) /\ Schedule(s)' = Schedule(s)
  BY FixedOptions
<1>2. \A n : Position(r, n)' = Position(r, n)
  BY DEF Position, MaxIdx, MaxBatchIdx
<1>3. MicroSteps' = MicroSteps
  BY DEF MicroSteps
<1>4. \A s : RankSamples(r, s)' = RankSamples(r, s)
  BY <1>3 DEF RankSamples, BatchAt
<1>5. StepsRead(r)' = StepsRead(r)
  BY DEF StepsRead
<1>6. Fresh(r)' <=> Fresh(r)
  BY DEF Fresh
<1>7. (pc'[r] # "failed") /\ (pc'[r] = "resume" => Fresh(r)')
  BY <1>6 DEF RankInv, Training
<1>8. pc'[r] \in Training => pc[r] \in Training
  OBVIOUS
<1>9. pc'[r] = "reduce" => pc[r] = "reduce"
  OBVIOUS
<1> QED BY <1>1, <1>2, <1>3, <1>4, <1>5, <1>7, <1>8, <1>9 DEF RankInv

(* Which files Save writes.                                                *)
Elements(s) == {s[i] : i \in DOMAIN s}

LEMMA ElementsOfBoth ==
    ASSUME NEW S, NEW s \in Seq(S), NEW t \in Seq(S)
    PROVE  s \o t \in Seq(S) /\ Elements(s \o t) = Elements(s) \cup Elements(t)
<1>1. /\ DOMAIN s = 1..Len(s) /\ DOMAIN t = 1..Len(t) /\ Len(s) \in Nat /\ Len(t) \in Nat
      /\ DOMAIN (s \o t) = 1..Len(s) + Len(t)
      /\ \A i \in 1..Len(s) : (s \o t)[i] = s[i]
      /\ \A i \in 1..Len(t) : (s \o t)[Len(s) + i] = t[i]
  BY Concatenation
<1>2. ASSUME NEW i \in DOMAIN (s \o t)
      PROVE  (s \o t)[i] \in Elements(s) \cup Elements(t)
  <2>1. CASE i <= Len(s)
    BY <1>1, <2>1 DEF Elements
  <2>2. CASE i > Len(s)
    <3>1. i - Len(s) \in 1..Len(t) /\ Len(s) + (i - Len(s)) = i
      BY <1>1, <2>2
    <3>2. (s \o t)[Len(s) + (i - Len(s))] = t[i - Len(s)]
      BY <1>1, <3>1
    <3> QED BY <1>1, <3>1, <3>2 DEF Elements
  <2> QED BY <1>1, <2>1, <2>2
<1>3. ASSUME NEW i \in DOMAIN s PROVE s[i] \in Elements(s \o t)
  <2>1. i \in DOMAIN (s \o t) /\ (s \o t)[i] = s[i]
    BY <1>1
  <2> QED BY <2>1 DEF Elements
<1>4. ASSUME NEW i \in DOMAIN t PROVE t[i] \in Elements(s \o t)
  <2>1. Len(s) + i \in DOMAIN (s \o t) /\ (s \o t)[Len(s) + i] = t[i]
    BY <1>1
  <2> QED BY <2>1 DEF Elements
<1> QED BY <1>2, <1>3, <1>4, Concatenation, ZenonT(30) DEF Elements

LEMMA ElementsOfOne ==
    ASSUME NEW S, NEW x \in S
    PROVE  <<x>> \in Seq(S) /\ Elements(<<x>>) = {x}
<1>1. DOMAIN <<x>> = {1} /\ <<x>>[1] = x
  OBVIOUS
<1> QED BY <1>1 DEF Elements

LEMMA SavedFilesAre ==
    /\ "model" \in SavedFiles /\ "trainer_state" \in SavedFiles
    /\ HasState => "optimizer" \in SavedFiles
    /\ options.scheduler <=> "lr_scheduler" \in SavedFiles
<1> DEFINE a == <<"model">>
           b == IF HasState THEN <<"optimizer">> ELSE <<>>
           c == IF options.scheduler THEN <<"lr_scheduler">> ELSE <<>>
           d == <<"trainer_state">>
<1>1. /\ a \in Seq(FileNames) /\ b \in Seq(FileNames)
      /\ c \in Seq(FileNames) /\ d \in Seq(FileNames)
      /\ Elements(a) = {"model"} /\ Elements(d) = {"trainer_state"}
      /\ Elements(b) = IF HasState THEN {"optimizer"} ELSE {}
      /\ Elements(c) = IF options.scheduler THEN {"lr_scheduler"} ELSE {}
  <2>1. \A x \in FileNames : <<x>> \in Seq(FileNames) /\ Elements(<<x>>) = {x}
    BY ElementsOfOne
  <2>2. <<>> \in Seq(FileNames) /\ Elements(<<>>) = {}
    BY DEF Elements
  <2>3. {"model", "optimizer", "lr_scheduler", "trainer_state"} \subseteq FileNames
    BY DEF FileNames
  <2>4. a \in Seq(FileNames) /\ Elements(a) = {"model"}
        /\ d \in Seq(FileNames) /\ Elements(d) = {"trainer_state"}
    BY <2>1, <2>3
  <2>5. b \in Seq(FileNames) /\ Elements(b) = IF HasState THEN {"optimizer"} ELSE {}
    BY <2>1, <2>2, <2>3
  <2>6. c \in Seq(FileNames) /\ Elements(c) = IF options.scheduler THEN {"lr_scheduler"} ELSE {}
    BY <2>1, <2>2, <2>3
  <2> QED BY <2>4, <2>5, <2>6
<1>2. SavedFiles = Elements(((a \o b) \o c) \o d)
  BY DEF SavedFiles, SaveOrder, Elements
<1> HIDE DEF a, b, c, d
<1> DEFINE ab == a \o b
<1>3. ab \in Seq(FileNames) /\ Elements(ab) = Elements(a) \cup Elements(b)
  BY <1>1, ElementsOfBoth
<1>7. (a \o b) = ab
  OBVIOUS
<1> HIDE DEF ab
<1> DEFINE abc == ab \o c
<1>4. abc \in Seq(FileNames) /\ Elements(abc) = Elements(ab) \cup Elements(c)
  BY <1>1, <1>3, ElementsOfBoth, SMTT(20)
<1>8. SavedFiles = Elements(abc \o d)
  BY <1>2, <1>7
<1> HIDE DEF abc
<1>5. Elements(abc \o d) = Elements(abc) \cup Elements(d)
  BY <1>1, <1>4, ElementsOfBoth
<1>6. SavedFiles = {"model", "trainer_state"}
                     \cup (IF HasState THEN {"optimizer"} ELSE {})
                     \cup (IF options.scheduler THEN {"lr_scheduler"} ELSE {})
  BY <1>1, <1>3, <1>4, <1>5, <1>8
<1> QED BY <1>6

(* The checkpoint a launch resumes from.                                   *)
LEMMA LoadedFiles ==
    ASSUME IInv, FilesInv, LoadInv, load # NoDir, NEW r \in Ranks
    PROVE  LET files == Files(load, r) IN
           /\ files["trainer_state"].status = "complete"
           /\ files["trainer_state"].content = Kept("trainer_state", load.step)
           /\ files["model"].status = "complete" /\ files["model"].content = History(load.step)
           /\ HasState => /\ files["optimizer"].status = "complete"
                          /\ files["optimizer"].content = Moments(load.step)
           /\ options.scheduler => /\ files["lr_scheduler"].status = "complete"
                                   /\ files["lr_scheduler"].content = Schedule(load.step)
           /\ files["lr_scheduler"].status # "partial"
<1> DEFINE k == <<load, r>>
<1>1. k \in DOMAIN disk /\ \A i \in DOMAIN SaveOrder : disk[k][SaveOrder[i]].status = "complete"
  BY RestorableMeans DEF LoadInv
<1>2. Files(load, r) = disk[k]
  BY <1>1 DEF Files
<1>3. k[1] = load
  OBVIOUS
<1> HIDE DEF k
<1>4. \A f \in SavedFiles : disk[k][f].status = "complete"
  BY <1>1 DEF SavedFiles
<1>5. \A f \in FileNames :
        /\ disk[k][f].status = "complete" => disk[k][f].content = Kept(f, load.step)
        /\ f \notin SavedFiles => disk[k][f].status = "absent"
  BY <1>1, <1>3 DEF FilesInv
<1>6. /\ Kept("model", load.step) = History(load.step)
      /\ Kept("optimizer", load.step) = Moments(load.step)
      /\ Kept("lr_scheduler", load.step) = Schedule(load.step)
  BY DEF Kept
<1>7. \A f \in FileNames : f \in SavedFiles =>
          disk[k][f].status = "complete" /\ disk[k][f].content = Kept(f, load.step)
  BY <1>4, <1>5
<1>8. {"model", "optimizer", "lr_scheduler", "trainer_state"} \subseteq FileNames
  BY DEF FileNames
<1>9. disk[k]["lr_scheduler"].status # "partial"
  BY <1>4, <1>5, <1>8
<1> QED BY <1>2, <1>6, <1>7, <1>8, <1>9, SavedFilesAre

LEMMA ResumedPosition ==
    ASSUME batch \in LoaderBatches, NEW r \in Ranks, NEW s \in Nat
    PROVE  /\ SkipsAligned(s * TotalBatch, batch, World)
           /\ LoaderAt(r, s * TotalBatch, DatasetSize, batch, World) = Position(r, s * MicroSteps)
<1>1. /\ MicroSteps \in Nat /\ batch * World \in Nat \ {0}
      /\ TotalBatch = MicroSteps * (batch * World) /\ TotalBatch \in Nat
  BY BatchSizes
<1>2. s * TotalBatch = (s * MicroSteps) * (batch * World) /\ s * MicroSteps \in Nat
      /\ s * TotalBatch \in Nat
  <2>1. \A a, b, c \in Nat : a * (b * c) = (a * b) * c
    OBVIOUS
  <2> HIDE DEF MicroSteps
  <2> QED BY <1>1, <2>1
<1>3. (s * TotalBatch) % (batch * World) = 0
      /\ (s * TotalBatch) \div (batch * World) = s * MicroSteps
  <2> DEFINE n == batch * World
             q == s * MicroSteps
  <2>1. n \in Nat \ {0} /\ q \in Nat /\ s * TotalBatch = q * n
    BY <1>1, <1>2
  <2> HIDE DEF n, q
  <2>2. (q * n) % n = 0 /\ (q * n) \div n = q
    BY <2>1, Quotient
  <2>3. (s * TotalBatch) % n = 0 /\ (s * TotalBatch) \div n = q
    BY <2>1, <2>2
  <2> QED BY <2>3 DEF n, q
<1> QED BY <1>2, <1>3, LoaderAtIs DEF SkipsAligned

LEMMA RankResumes ==
    ASSUME IInv, TypeOK, Vectors, FilesInv, LoadInv, NEW r \in Ranks, RankInv(r),
           ResumeFromCheckpoint(r)
    PROVE  RankInv(r)' /\ Vectors'
<1>1. /\ pc[r] = "resume" /\ Fresh(r) /\ options' = options /\ batch' = batch
      /\ batch \in LoaderBatches /\ pc \in [Ranks -> Phases] /\ step \in [Ranks -> Nat]
      /\ grads' = grads
  BY DEF ResumeFromCheckpoint, RankInv, TypeOK, IInv, Types
<1>2. /\ \A s : History(s)' = History(s) /\ Moments(s)' = Moments(s) /\ Schedule(s)' = Schedule(s)
      /\ \A n : Position(r, n)' = Position(r, n)
      /\ MicroSteps' = MicroSteps
  <2>1. MaxIdx' = MaxIdx /\ MicroSteps' = MicroSteps
    BY <1>1 DEF MaxIdx, MaxBatchIdx, MicroSteps
  <2> QED BY <1>1, <2>1, FixedOptions DEF Position
<1>3. ASSUME NEW s \in Nat,
             pc' = [pc EXCEPT ![r] = "train"], step'[r] = s, consumed'[r] = s * TotalBatch,
             params'[r] = History(s), optStep'[r] = Moments(s), sched'[r] = Schedule(s),
             iter'[r] = Position(r, s * MicroSteps)
      PROVE  RankInv(r)'
  <2>1. pc'[r] = "train"
    BY <1>1, <1>3
  <2>2. StepsRead(r)' = s
    BY <1>3, <2>1 DEF StepsRead
  <2> QED BY <1>2, <1>3, <2>1, <2>2 DEF RankInv
<1>4. CASE load = NoDir /\ pc' = [pc EXCEPT ![r] = "train"]
           /\ UNCHANGED <<step, consumed, iter, params, optStep, sched>>
  <2>1. MicroSteps \in Nat /\ TotalBatch \in Nat
    BY <1>1, BatchSizes
  <2>2. 0 * TotalBatch = 0 /\ 0 * MicroSteps = 0
    BY <2>1
  <2>3. History(0) = <<>> /\ Moments(0) = 0 /\ Schedule(0) = 0 /\ Position(r, 0) = r
    BY HistoryGrows DEF Moments, Schedule, Position
  <2>4. RankInv(r)'
    BY <1>1, <1>3, <1>4, <2>2, <2>3 DEF Fresh
  <2> QED BY <1>1, <1>4, <2>4 DEF Vectors
<1>5. CASE load # NoDir
  <2> DEFINE files == Files(load, r)
             s == load.step
  <2>1. /\ files["trainer_state"].status = "complete"
        /\ files["trainer_state"].content = [step |-> s, consumed |-> s * TotalBatch, ddp |-> World]
        /\ files["model"].status = "complete" /\ files["model"].content = History(s)
        /\ HasState => /\ files["optimizer"].status = "complete"
                       /\ files["optimizer"].content = Moments(s)
        /\ options.scheduler => /\ files["lr_scheduler"].status = "complete"
                                /\ files["lr_scheduler"].content = Schedule(s)
        /\ files["lr_scheduler"].status # "partial"
        /\ s \in Nat
    BY <1>5, LoadedFiles DEF Kept, IInv, Types
  <2>2. SkipsAligned(s * TotalBatch, batch, World)
        /\ LoaderAt(r, s * TotalBatch, DatasetSize, batch, World) = Position(r, s * MicroSteps)
    BY <1>1, <2>1, ResumedPosition
  <2> HIDE DEF files
  <2>3. /\ pc' = [pc EXCEPT ![r] = "train"]
        /\ \E p \in Loadable(files["model"], {Garbage}),
              t \in IF HasState THEN Loadable(files["optimizer"], {-1}) ELSE {0} :
              /\ params' = [params EXCEPT ![r] = p]
              /\ optStep' = [optStep EXCEPT ![r] = t]
        /\ sched' = IF options.scheduler /\ files["lr_scheduler"].status = "complete"
                    THEN [sched EXCEPT ![r] = files["lr_scheduler"].content]
                    ELSE sched
        /\ step' = [step EXCEPT ![r] = s]
        /\ consumed' = [consumed EXCEPT ![r] = s * TotalBatch]
        /\ iter' = [iter EXCEPT ![r] = Position(r, s * MicroSteps)]
    <3>1. ~(\/ files["trainer_state"].status # "complete"
            \/ files["lr_scheduler"].status = "partial"
            \/ files["model"].status # "complete"
            \/ HasState /\ files["optimizer"].status # "complete"
            \/ /\ files["trainer_state"].status = "complete"
               /\ \/ files["trainer_state"].content.ddp # World
                  \/ ~SkipsAligned(files["trainer_state"].content.consumed, batch, World))
      BY <2>1, <2>2
    <3>2. /\ files["trainer_state"].content.step = s
          /\ files["trainer_state"].content.consumed = s * TotalBatch
      BY <2>1
    <3> QED BY <1>5, <2>2, <3>1, <3>2 DEF ResumeFromCheckpoint, files
  <2>4. /\ \A p \in Loadable(files["model"], {Garbage}) : p = History(s)
        /\ HasState => \A t \in Loadable(files["optimizer"], {-1}) : t = Moments(s)
    BY <2>1 DEF Loadable
  <2> HIDE DEF s
  <2>5. params' = [params EXCEPT ![r] = History(s)] /\ optStep' = [optStep EXCEPT ![r] = Moments(s)]
    <3>1. PICK p, t :
              /\ p \in Loadable(files["model"], {Garbage})
              /\ t \in IF HasState THEN Loadable(files["optimizer"], {-1}) ELSE {0}
              /\ params' = [params EXCEPT ![r] = p] /\ optStep' = [optStep EXCEPT ![r] = t]
      BY <2>3
    <3>2. p = History(s)
      BY <2>4, <3>1
    <3>3. t = Moments(s)
      <4>1. CASE HasState
        BY <2>4, <3>1, <4>1
      <4>2. CASE ~HasState
        BY <3>1, <4>2 DEF Moments
      <4> QED BY <4>1, <4>2
    <3> QED BY <3>1, <3>2, <3>3
  <2>6. DOMAIN sched' = Ranks /\ sched'[r] = Schedule(s)
    BY <1>1, <2>1, <2>3 DEF Vectors, Fresh, Schedule
  <2>7. RankInv(r)'
    BY <1>1, <1>3, <2>1, <2>3, <2>5, <2>6 DEF Vectors
  <2> QED BY <1>1, <2>3, <2>5, <2>6, <2>7 DEF Vectors
<1> QED BY <1>4, <1>5 DEF ResumeFromCheckpoint

(* The micro-steps of one step read the rank's share of its samples.       *)
LEMMA RankReads ==
    ASSUME TypeOK, Vectors, NEW r \in Ranks, RankInv(r), ForwardBackward(r)
    PROVE  RankInv(r)' /\ Vectors'
<1> DEFINE s == step[r]
<1>1. /\ pc[r] = "train" /\ s # NumIteration /\ s \in 0..NumIteration
      /\ batch \in LoaderBatches /\ pc \in [Ranks -> Phases] /\ NumIteration \in Nat
      /\ pc' = [pc EXCEPT ![r] = "reduce"]
      /\ consumed' = [consumed EXCEPT ![r] = consumed[r] + MicroSteps * batch * World]
      /\ UNCHANGED <<options, batch, step, params, optStep, sched>>
  BY TrainingAssumption DEF ForwardBackward, LastStep, TypeOK, Phases
<1>2. /\ params[r] = History(s) /\ optStep[r] = Moments(s) /\ sched[r] = Schedule(s)
      /\ consumed[r] = s * TotalBatch /\ iter[r] = Position(r, s * MicroSteps)
  BY <1>1 DEF RankInv, StepsRead, Training
<1>3. /\ \A n : History(n)' = History(n) /\ Moments(n)' = Moments(n) /\ Schedule(n)' = Schedule(n)
      /\ \A n : Position(r, n)' = Position(r, n) /\ RankSamples(r, n)' = RankSamples(r, n)
      /\ MicroSteps' = MicroSteps
  <2>1. MaxIdx' = MaxIdx /\ MicroSteps' = MicroSteps
    BY <1>1 DEF MaxIdx, MaxBatchIdx, MicroSteps
  <2>2. \A n : BatchAt(r, n)' = BatchAt(r, n)
    BY <1>1 DEF BatchAt
  <2>3. \A n : RankSamples(r, n)' = RankSamples(r, n)
    BY <2>1, <2>2 DEF RankSamples
  <2> QED BY <1>1, <2>1, <2>3, FixedOptions DEF Position
<1>4. s \in 0..NumIteration - 1
  BY <1>1
<1> HIDE DEF s
<1>5. /\ iter' = [iter EXCEPT ![r] = Position(r, (s + 1) * MicroSteps)]
      /\ grads' = [grads EXCEPT ![r] =
                      [samples |-> RankSamples(r, s), reads |-> MicroSteps * batch]]
  BY <1>1, <1>2, <1>4, ForwardBackwardReads
<1>6. s * TotalBatch + MicroSteps * batch * World = (s + 1) * TotalBatch
  <2>1. MicroSteps * batch * World = TotalBatch /\ TotalBatch \in Nat /\ s \in Nat
    BY <1>1, <1>4, BatchSizes
  <2> HIDE DEF MicroSteps
  <2>2. \A a, b \in Nat : a * b + b = (a + 1) * b
    OBVIOUS
  <2> QED BY <2>1, <2>2
<1>7. /\ consumed'[r] = (s + 1) * TotalBatch /\ DOMAIN consumed' = Ranks
      /\ iter'[r] = Position(r, (s + 1) * MicroSteps) /\ DOMAIN iter' = Ranks
      /\ grads'[r] = [samples |-> RankSamples(r, s), reads |-> MicroSteps * batch]
      /\ DOMAIN grads' = Ranks /\ pc'[r] = "reduce"
  BY <1>1, <1>2, <1>5, <1>6 DEF Vectors
<1>8. StepsRead(r)' = s + 1 /\ step'[r] = s
  BY <1>1, <1>7 DEF StepsRead, s
<1>9. RankInv(r)'
  BY <1>1, <1>2, <1>3, <1>7, <1>8 DEF RankInv
<1> QED BY <1>1, <1>7, <1>9 DEF Vectors

(* The step all ranks take is the one an uninterrupted job takes.          *)
LEMMA UpdateIs ==
    ASSUME batch \in LoaderBatches, NEW s \in Nat, NEW r \in Ranks,
           \A q \in Ranks : grads[q] = [samples |-> RankSamples(q, s), reads |-> MicroSteps * batch],
           sched[r] = Schedule(s), optStep'[r] = IF HasState THEN Moments(s) + 1 ELSE 0
    PROVE  Update(r) = ExpectedUpdate(s + 1)
<1> DEFINE c == MicroSteps * batch
<1>1. c \in Nat /\ World * c = TotalBatch
  <2>1. /\ MicroSteps \in Nat /\ batch \in Nat /\ World \in Nat
        /\ TotalBatch = MicroSteps * (batch * World)
    BY BatchSizes
  <2> HIDE DEF MicroSteps
  <2>2. \A a, b, w \in Nat : a * b \in Nat /\ w * (a * b) = a * (b * w)
    OBVIOUS
  <2> QED BY <2>1, <2>2
<1> HIDE DEF c
<1>8. ASSUME NEW q \in Ranks
      PROVE  grads[q].samples = RankSamples(q, s) /\ grads[q].reads = c
  <2> DEFINE x == RankSamples(q, s)
             y == MicroSteps * batch
  <2>1. grads[q] = [samples |-> x, reads |-> y]
    OBVIOUS
  <2> HIDE DEF x, y
  <2>2. grads[q].samples = x /\ grads[q].reads = y
    BY <2>1
  <2> QED BY <2>2 DEF x, y, c
<1>2. UNION {grads[q].samples : q \in Ranks} = s * TotalBatch .. (s + 1) * TotalBatch - 1
  <2>1. {grads[q].samples : q \in Ranks} = {RankSamples(q, s) : q \in Ranks}
    BY <1>8
  <2> QED BY <2>1, StepSamples
<1>3. \A q \in Ranks : grads[q].reads = c
  BY <1>8
<1>4. MapThenSumSet(LAMBDA q : grads[q].reads, Ranks) = World * c
  BY <1>1, <1>3, SumOfReads
<1>5. s + 1 - 1 = s
  OBVIOUS
<1>6. sched[r] = IF options.scheduler THEN s + 1 - 1 ELSE 0
  BY <1>5 DEF Schedule
<1>7. optStep'[r] = IF HasState THEN s + 1 ELSE 0
  BY DEF Moments
<1> DEFINE u == UNION {grads[q].samples : q \in Ranks}
           m == MapThenSumSet(LAMBDA q : grads[q].reads, Ranks)
           v == (s + 1 - 1) * TotalBatch .. (s + 1) * TotalBatch - 1
           x == IF options.scheduler THEN s + 1 - 1 ELSE 0
           y == IF HasState THEN s + 1 ELSE 0
<1>9. /\ Update(r) = [lr |-> sched[r], samples |-> u, reads |-> m, optStep |-> optStep'[r]]
      /\ ExpectedUpdate(s + 1) = [lr |-> x, samples |-> v, reads |-> TotalBatch, optStep |-> y]
  BY DEF Update, ExpectedUpdate
<1>10. u = v /\ m = TotalBatch /\ sched[r] = x /\ optStep'[r] = y
  BY <1>1, <1>2, <1>4, <1>5, <1>6, <1>7
<1> HIDE DEF u, m, v, x, y
<1> QED BY <1>9, <1>10

LEMMA RanksUpdate ==
    ASSUME IInv, TypeOK, Vectors, Ranked, OptimizerStep
    PROVE  Ranked' /\ Vectors'
<1> DEFINE s == step[0]
<1>1. /\ \A r \in Ranks : pc[r] = "reduce" /\ step[r] = s
      /\ s \in Nat /\ batch \in LoaderBatches
      /\ \A r \in Ranks : pc'[r] \in {"save", "train"} /\ step'[r] = s + 1
      /\ UNCHANGED <<options, batch, consumed, iter>>
      /\ optStep' = [r \in Ranks |-> IF HasState THEN optStep[r] + 1 ELSE 0]
      /\ params' = [r \in Ranks |-> Append(params[r], Update(r))]
      /\ sched' = [r \in Ranks |-> IF options.scheduler THEN sched[r] + 1 ELSE 0]
      /\ DOMAIN grads' = Ranks
  BY MainRank DEF OptimizerStep, IInv, Types, StepsInv, Active, TypeOK
<1>2. ASSUME NEW r \in Ranks
      PROVE  /\ params[r] = History(s) /\ optStep[r] = Moments(s) /\ sched[r] = Schedule(s)
             /\ consumed[r] = (s + 1) * TotalBatch /\ iter[r] = Position(r, (s + 1) * MicroSteps)
             /\ grads[r] = [samples |-> RankSamples(r, s), reads |-> MicroSteps * batch]
  BY <1>1 DEF Ranked, RankInv, StepsRead, Training
<1>3. /\ \A n : History(n)' = History(n) /\ Moments(n)' = Moments(n) /\ Schedule(n)' = Schedule(n)
      /\ \A r, n : Position(r, n)' = Position(r, n)
      /\ MicroSteps' = MicroSteps
  <2>1. MaxIdx' = MaxIdx /\ MicroSteps' = MicroSteps
    BY <1>1 DEF MaxIdx, MaxBatchIdx, MicroSteps
  <2> QED BY <1>1, <2>1, FixedOptions DEF Position
<1> HIDE DEF s
<1>4. ASSUME NEW r \in Ranks PROVE RankInv(r)'
  <2>1. optStep'[r] = IF HasState THEN Moments(s) + 1 ELSE 0
    BY <1>1, <1>2
  <2>2. Update(r) = ExpectedUpdate(s + 1)
    BY <1>1, <1>2, <2>1, UpdateIs
  <2>3. params'[r] = History(s + 1)
    <3>1. params'[r] = Append(History(s), ExpectedUpdate(s + 1))
      BY <1>1, <1>2, <2>2
    <3> QED BY <1>1, <3>1, HistoryGrows
  <2>4. optStep'[r] = Moments(s + 1) /\ sched'[r] = Schedule(s + 1)
    BY <1>1, <1>2, <2>1 DEF Moments, Schedule
  <2>5. StepsRead(r)' = s + 1 /\ pc'[r] \in {"save", "train"} /\ step'[r] = s + 1
    BY <1>1 DEF StepsRead
  <2>6. consumed'[r] = (s + 1) * TotalBatch /\ iter'[r] = Position(r, (s + 1) * MicroSteps)
    BY <1>1, <1>2
  <2> QED BY <1>3, <2>3, <2>4, <2>5, <2>6 DEF RankInv
<1> QED BY <1>1, <1>4 DEF Ranked, Vectors

LEMMA InitExact == Init => ExactInv
<1> SUFFICES ASSUME Init PROVE ExactInv
  OBVIOUS
<1>1. DOMAIN disk = {} /\ load = NoDir
  BY DEF Init
<1>2. Vectors
  BY DEF Init, Vectors
<1>3. FilesInv
  BY <1>1 DEF FilesInv
<1>4. WholeInv
  BY <1>1, WholeMeans, MainRank DEF WholeInv
<1>5. LoadInv
  BY <1>1 DEF LoadInv
<1>6. Ranked
  BY DEF Init, Ranked, RankInv, Fresh, Training, LoaderBegin
<1> QED BY <1>2, <1>3, <1>4, <1>5, <1>6 DEF ExactInv

(* A step of rank q leaves the others where they are.                      *)
LEMMA OthersStay ==
    ASSUME TypeOK, Vectors, NEW q \in Ranks, RankStep(q), NEW r \in Ranks \ {q}, RankInv(r)
    PROVE  RankInv(r)'
<1>1. pc \in [Ranks -> Phases] /\ step \in [Ranks -> 0..NumIteration]
  BY DEF TypeOK, Phases
<1>2. options' = options /\ batch' = batch
  BY DEF RankStep, ResumeFromCheckpoint, ForwardBackward, WriteFile, Finish
<1>3. /\ pc'[r] = pc[r] /\ step'[r] = step[r] /\ consumed'[r] = consumed[r]
      /\ iter'[r] = iter[r] /\ params'[r] = params[r] /\ optStep'[r] = optStep[r]
      /\ sched'[r] = sched[r] /\ grads'[r] = grads[r]
  <2>1. CASE ResumeFromCheckpoint(q)
    BY <1>1, <2>1 DEF ResumeFromCheckpoint, Abort, Vectors
  <2>2. CASE ForwardBackward(q)
    BY <1>1, <2>2 DEF ForwardBackward, Vectors
  <2>3. CASE WriteFile(q)
    BY <1>1, <2>3 DEF WriteFile
  <2>4. CASE Finish(q)
    BY <1>1, <2>4 DEF Finish
  <2> QED BY <2>1, <2>2, <2>3, <2>4 DEF RankStep
<1> QED BY <1>2, <1>3, RankStays

LEMMA NextRanked ==
    ASSUME IInv, TypeOK, Vectors, FilesInv, LoadInv, Ranked, [Next]_vars
    PROVE  Ranked' /\ Vectors'
<1>0. pc \in [Ranks -> Phases] /\ step \in [Ranks -> 0..NumIteration]
  BY DEF TypeOK, Phases
<1>1. ASSUME NEW q \in Ranks, RankStep(q) PROVE Ranked' /\ Vectors'
  <2>1. RankInv(q)
    BY DEF Ranked
  <2>2. RankInv(q)' /\ Vectors'
    <3>1. CASE ResumeFromCheckpoint(q)
      BY <2>1, <3>1, RankResumes
    <3>2. CASE ForwardBackward(q)
      BY <2>1, <3>2, RankReads
    <3>3. CASE WriteFile(q)
      <4>1. /\ UNCHANGED <<options, batch, step, consumed, iter, params, optStep, sched, grads>>
            /\ pc[q] = "save" /\ pc'[q] \in {"save", "prune", "train"}
        BY <1>0, <3>3 DEF WriteFile, AfterSave
      <4>2. {pc[q], pc'[q]} \subseteq Training \ {"reduce"}
        BY <4>1 DEF Training
      <4> QED BY <2>1, <4>1, <4>2, RankStays DEF Vectors
    <3>4. CASE Finish(q)
      <4>1. /\ UNCHANGED <<options, batch, step, consumed, iter, params, optStep, sched, grads>>
            /\ pc[q] = "train" /\ pc'[q] = "done"
        BY <1>0, <3>4 DEF Finish
      <4>2. {pc[q], pc'[q]} \subseteq Training \ {"reduce"}
        BY <4>1 DEF Training
      <4> QED BY <2>1, <4>1, <4>2, RankStays DEF Vectors
    <3> QED BY <1>1, <3>1, <3>2, <3>3, <3>4 DEF RankStep
  <2>3. ASSUME NEW r \in Ranks \ {q} PROVE RankInv(r)'
    BY <1>1, OthersStay DEF Ranked
  <2>4. \A r \in Ranks : RankInv(r)'
    BY <2>2, <2>3
  <2> QED BY <2>2, <2>4 DEF Ranked
<1>2. CASE OptimizerStep
  BY <1>2, RanksUpdate
<1>3. CASE Prune
  <2>1. /\ UNCHANGED <<options, batch, step, consumed, iter, params, optStep, sched, grads>>
        /\ pc[0] = "prune" /\ pc' = [pc EXCEPT ![0] = "train"]
    BY <1>3 DEF Prune
  <2>2. ASSUME NEW r \in Ranks PROVE RankInv(r)'
    <3>1. pc'[r] = pc[r] \/ ({pc[r], pc'[r]} \subseteq Training \ {"reduce"})
      BY <1>0, <2>1 DEF Training
    <3> QED BY <2>1, <3>1, RankStays DEF Ranked
  <2> QED BY <2>1, <2>2 DEF Ranked, Vectors
<1>4. CASE Crash
  <2>1. /\ UNCHANGED <<options, batch, step, consumed, iter, params, optStep, sched, grads>>
        /\ \A r \in Ranks : pc'[r] = "down"
    BY <1>4 DEF Crash
  <2> QED BY <2>1 DEF Ranked, RankInv, Training, Vectors
<1>5. CASE Relaunch
  <2>1. /\ \A r \in Ranks : /\ pc'[r] = "resume" /\ step'[r] = 0 /\ consumed'[r] = 0
                            /\ iter'[r] = r /\ params'[r] = <<>> /\ optStep'[r] = 0
                            /\ sched'[r] = 0
        /\ Vectors'
    BY <1>5 DEF Relaunch, Started, LoaderBegin, Vectors
  <2> QED BY <2>1 DEF Ranked, RankInv, Fresh, Training
<1>6. CASE Terminated \/ UNCHANGED vars
  <2>1. /\ UNCHANGED <<options, batch, step, consumed, iter, params, optStep, sched, grads, pc>>
    BY <1>6 DEF Terminated, vars
  <2> QED BY <2>1, RankStays DEF Ranked, Vectors
<1> QED BY <1>1, <1>2, <1>3, <1>4, <1>5, <1>6 DEF Next, Progress

LEMMA NextExact ==
    ASSUME IInv, IInv', TypeOK, Settings, ExactInv, [Next]_vars
    PROVE  ExactInv'
<1>1. Ranked' /\ Vectors'
  BY NextRanked DEF ExactInv
<1>2. FilesInv'
  BY NextFiles DEF ExactInv
<1>3. WholeInv'
  BY NextWhole DEF ExactInv
<1>4. LoadInv'
  BY NextLoad DEF ExactInv
<1> QED BY <1>1, <1>2, <1>3, <1>4 DEF ExactInv

-----------------------------------------------------------------------------
(* Killed at any moment and started again from the newest checkpoint that  *)
(* looks whole, with any batch size, as often as may be, a job's           *)
(* parameters are those of a job that was never interrupted: each step's   *)
(* update averaged the step's samples, each once, at the rate and with the *)
(* optimizer state of that step.                                           *)
THEOREM ExactResume ==
    ASSUME Settings
    PROVE  Spec => []ResumesExactly
<1>1. IInv /\ [Next]_vars => IInv'
  BY NextInv
<1>2. IInv /\ IInv' /\ TypeInv /\ [Next]_vars => TypeInv'
  BY NextTypes
<1>3. IInv /\ IInv' /\ TypeInv /\ ExactInv /\ [Next]_vars => ExactInv'
  BY NextExact DEF TypeInv
<1>4. ExactInv => ResumesExactly
  BY DEF ExactInv, Ranked, RankInv, Training, History, ResumesExactly
<1> QED BY <1>1, <1>2, <1>3, <1>4, InitInv, InitTypes, InitExact, PTL DEF Spec

(* No launch is turned away by a check of ResumeFromCheckpoint: a          *)
(* directory whose trainer_state.json every rank has, and that is newest,  *)
(* has every file whole, of this number of ranks and at samples that any   *)
(* batch size divides.                                                     *)
NeverFails == \A r \in Ranks : pc[r] # "failed"

THEOREM ResumeNeverFails ==
    ASSUME Settings
    PROVE  Spec => []NeverFails
<1>1. IInv /\ [Next]_vars => IInv'
  BY NextInv
<1>2. IInv /\ IInv' /\ TypeInv /\ [Next]_vars => TypeInv'
  BY NextTypes
<1>3. IInv /\ IInv' /\ TypeInv /\ ExactInv /\ [Next]_vars => ExactInv'
  BY NextExact DEF TypeInv
<1>4. ExactInv => NeverFails
  BY DEF ExactInv, Ranked, RankInv, NeverFails
<1> QED BY <1>1, <1>2, <1>3, <1>4, InitInv, InitTypes, InitExact, PTL DEF Spec
=============================================================================
