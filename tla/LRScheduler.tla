---------------------------- MODULE LRScheduler ----------------------------
(***************************************************************************)
(* lr_scheduler.cc: the schedulers, how they nest, and what a checkpoint   *)
(* keeps of them.                                                          *)
(*                                                                         *)
(* A scheduler is a constant record c (its class, parameters and children  *)
(* c.kids) and a state s = [last, base, kids]; the learning rate they all  *)
(* write is the optimizer's, lr.  Operators take and return pairs          *)
(* [s, lr].  Rates are integers, and a factor is a pair <<p, q>> for p / q:*)
(* the instances choose rates that every factor divides.  The children of  *)
(* SequentialLR and ChainedScheduler are leaves here, as CreateLRScheduler *)
(* makes them; nesting them in one another is left out.                    *)
(***************************************************************************)
EXTENDS Integers, Sequences, FiniteSets, SequencesExt

Scaled(lr, num, den) == (lr * num) \div den

(***************************************************************************)
(* The functions CreateLRScheduler hands to LambdaLR.  Cosine and square   *)
(* root are abstracted to rational functions with the same end points.     *)
(* config is TrainingLRSchedulerConfig.                                    *)
(***************************************************************************)
DecayIters(config) == config.decay - config.warmup

LambdaLRValue(style, config, step) ==
    LET larger(a, b) == IF a >= b THEN a ELSE b
        n      == DecayIters(config)
        global == step + config.warmup
    IN  CASE style = "one"    -> config.lr
          [] style = "warmup" ->
               config.init + Scaled(config.lr - config.init, step, config.warmup)
          [] style = "cosine" ->
               IF step > n THEN config.min
               ELSE config.min + Scaled(config.lr - config.min,
                                        (n - step) * (n - step), n * n)
          [] style = "inverse-square-root" ->
               IF global > config.decay THEN config.min
               ELSE larger(config.min, Scaled(config.lr, larger(config.warmup, 1),
                                              larger(global, 1)))

Power(x, n) == LET f[i \in 0..n] == IF i = 0 THEN 1 ELSE x * f[i - 1] IN f[n]

(* GetClosedFormLR of ConstantLR, StepLR, LinearLR and LambdaLR. *)
GetClosedFormLR(c, s) ==
    CASE c.class = "constant" ->
           IF s.last < c.total THEN Scaled(s.base, c.start[1], c.start[2]) ELSE s.base
      [] c.class = "step" ->
           LET k == s.last \div c.total
           IN  Scaled(s.base, Power(c.start[1], k), Power(c.start[2], k))
      [] c.class = "linear" ->
           IF s.last >= c.total
           THEN Scaled(s.base, c.end[1], c.end[2])
           ELSE Scaled(s.base,
                       c.start[1] * c.end[2] * (c.total - s.last)
                           + c.end[1] * c.start[2] * s.last,
                       c.start[2] * c.end[2] * c.total)
      [] c.class = "lambda" ->
           Scaled(s.base, LambdaLRValue(c.style, c.config, s.last), c.config.lr)

(* GetChainedFormLR: the next rate from the optimizer's present one.  For  *)
(* LinearLR, factor(k) * start[2] * end[2] * total is the factor after k   *)
(* steps.                                                                  *)
GetChainedFormLR(c, s, lr, initial) ==
    CASE c.class = "constant" ->
           (IF s.last = 0 THEN Scaled(lr, c.start[1], c.start[2])
            ELSE IF s.last = c.total THEN Scaled(lr, c.start[2], c.start[1])
            ELSE lr)
      [] c.class = "step" ->
           IF s.last = 0 \/ s.last % c.total # 0
           THEN lr ELSE Scaled(lr, c.start[1], c.start[2])
      [] c.class = "linear" ->
           LET factor(k) == c.start[1] * c.end[2] * (c.total - k)
                                + c.end[1] * c.start[2] * k
           IN  IF s.last = 0 THEN Scaled(lr, c.start[1], c.start[2])
               ELSE IF s.last > c.total \/ initial THEN lr
               ELSE Scaled(lr, factor(s.last), factor(s.last - 1))
      [] c.class = "lambda" -> GetClosedFormLR(c, s)

-----------------------------------------------------------------------------
Fresh(base) == [last |-> -1, base |-> base, kids |-> <<>>]

IsLeaf(c) == c.class \notin {"sequential", "chained"}

(* LRScheduler::Step() and, for leaves, InitialStep(). *)
LeafStep(c, p, initial) ==
    LET s == [p.s EXCEPT !.last = @ + 1]
    IN  [s |-> s, lr |-> GetChainedFormLR(c, s, p.lr, initial)]

(* LRScheduler::Step(epoch), the closed form. *)
LeafStepTo(c, p, epoch) ==
    LET s == [p.s EXCEPT !.last = epoch]
    IN  [s |-> s, lr |-> GetClosedFormLR(c, s)]

(* SequentialLR::Step: upper_bound picks the child, which starts over in   *)
(* closed form exactly at its milestone.                                   *)
SequentialStep(c, p) ==
    LET last == p.s.last + 1
        idx  == 1 + Cardinality({i \in DOMAIN c.milestones : c.milestones[i] <= last})
        kid  == [s |-> p.s.kids[idx], lr |-> p.lr]
        next == IF idx > 1 /\ c.milestones[idx - 1] = last
                THEN LeafStepTo(c.kids[idx], kid, 0)
                ELSE LeafStep(c.kids[idx], kid, FALSE)
    IN  [s  |-> [p.s EXCEPT !.last = last, !.kids[idx] = next.s], lr |-> next.lr]

(* ChainedScheduler::Step: every child steps, each on the rate the one     *)
(* before it left.                                                         *)
ChainedStep(c, p) ==
    LET after[i \in 0..Len(c.kids)] ==
            IF i = 0 THEN [s |-> [p.s EXCEPT !.last = @ + 1], lr |-> p.lr]
            ELSE LET q   == after[i - 1]
                     kid == LeafStep(c.kids[i], [s |-> q.s.kids[i], lr |-> q.lr], FALSE)
                 IN  [s |-> [q.s EXCEPT !.kids[i] = kid.s], lr |-> kid.lr]
    IN  after[Len(c.kids)]

SchedulerStep(c, p) ==
    CASE c.class = "sequential" -> SequentialStep(c, p)
      [] c.class = "chained"    -> ChainedStep(c, p)
      [] OTHER                  -> LeafStep(c, p, FALSE)

(* SequentialLR::InitialStep: the rate is set back, the initial steps of   *)
(* the children are undone, and the first child takes its own again.       *)
SequentialInitialStep(c, p) ==
    LET undone == [i \in DOMAIN p.s.kids |-> [p.s.kids[i] EXCEPT !.last = @ - 1]]
        first  == LeafStep(c.kids[1], [s |-> undone[1], lr |-> undone[1].base], TRUE)
    IN  [s  |-> [p.s EXCEPT !.last = @ + 1, !.kids = [undone EXCEPT ![1] = first.s]],
         lr |-> first.lr]

(* LRScheduler::Create for c and, before it, for its children in order     *)
(* order: each constructor takes base_lr from the optimizer's initial rate *)
(* and each InitialStep writes the shared rate.                            *)
CreateScheduler(c, order, base) ==
    IF IsLeaf(c) THEN LeafStep(c, [s |-> Fresh(base), lr |-> base], TRUE)
    ELSE LET made[i \in 0..Len(order)] ==
                 IF i = 0 THEN [s |-> [Fresh(base) EXCEPT
                                          !.kids = [k \in DOMAIN c.kids |-> Fresh(base)]],
                                lr |-> base]
                 ELSE LET q == made[i - 1]
                          k == LeafStep(c.kids[order[i]],
                                        [s |-> q.s.kids[order[i]], lr |-> q.lr], TRUE)
                      IN  [s |-> [q.s EXCEPT !.kids[order[i]] = k.s], lr |-> k.lr]
             kids == made[Len(order)]
         IN  IF c.class = "sequential" THEN SequentialInitialStep(c, kids)
             ELSE [kids EXCEPT !.s.last = 0]

-----------------------------------------------------------------------------
(* The checks of CreateLRScheduler. *)
ValidConfig(config) ==
    /\ config.lr > 0 /\ config.init \in 0..config.lr /\ config.min \in 0..config.lr
    /\ config.warmup >= 0 /\ config.decay > 0 /\ config.warmup < config.decay

MainScheduler(config) ==
    IF config.style = "linear"
    THEN [class |-> "linear", start |-> <<1, 1>>, end |-> <<config.min, config.lr>>,
          total |-> DecayIters(config)]
    ELSE [class  |-> "lambda", config |-> config,
          style  |-> IF config.style = "constant" THEN "one" ELSE config.style]

(* The scheduler CreateLRScheduler builds. *)
TrainingScheduler(config) ==
    IF config.warmup = 0 THEN MainScheduler(config)
    ELSE [class      |-> "sequential",
          kids       |-> <<[class |-> "lambda", style |-> "warmup", config |-> config],
                           MainScheduler(config)>>,
          milestones |-> <<config.warmup>>]

(* CreateLRScheduler: the main scheduler is created before the warm-up's. *)
CreateLRScheduler(config) == CreateScheduler(TrainingScheduler(config), <<2, 1>>, config.lr)

(***************************************************************************)
(* StateDict and LoadStateDict: every level keeps last_step, base_lr and   *)
(* the optimizer's rate (recover_lr), a child's under its prefix; loading  *)
(* writes the rate at every level, the outermost last.                     *)
(***************************************************************************)
StateDict(p) == [last |-> p.s.last, base |-> p.s.base, recover |-> p.lr,
                 kids |-> [i \in DOMAIN p.s.kids |->
                              [last |-> p.s.kids[i].last, base |-> p.s.kids[i].base]]]

(* A slip: the state under a child's prefix is not loaded. *)
LoadStateDictOutermost(p, dict) ==
    [s  |-> [last |-> dict.last, base |-> dict.base, kids |-> p.s.kids],
     lr |-> dict.recover]

LoadStateDict(p, dict) ==
    [s  |-> [last |-> dict.last, base |-> dict.base,
             kids |-> [i \in DOMAIN p.s.kids |->
                          IF i \in DOMAIN dict.kids
                          THEN [p.s.kids[i] EXCEPT !.last = dict.kids[i].last,
                                                   !.base = dict.kids[i].base]
                          ELSE p.s.kids[i]]],
     lr |-> dict.recover]

-----------------------------------------------------------------------------
(* What the options promise: the rate of step k = 0, 1, ...               *)
MainRate(config, k) ==
    CASE config.style = "constant" -> config.lr
      [] config.style = "linear"   ->
           IF k >= DecayIters(config) THEN config.min
           ELSE Scaled(config.lr * (DecayIters(config) - k) + config.min * k,
                       1, DecayIters(config))
      [] OTHER -> LambdaLRValue(config.style, config, k)

TrainingRate(config, k) ==
    IF k < config.warmup THEN LambdaLRValue("warmup", config, k)
    ELSE MainRate(config, k - config.warmup)

(* The product of the children's own schedules. *)
ChainedRate(c, base, k) ==
    FoldLeft(LAMBDA lr, kid : GetClosedFormLR(kid, [last |-> k, base |-> lr, kids |-> <<>>]),
             base, c.kids)

(* The rates of n + 1 steps, with the process replaced after k of them by  *)
(* a new one that loads the saved state.                                   *)
RatesWithResume(c, order, base, n, k) ==
    LET fresh  == CreateScheduler(c, order, base)
        at[i \in 0..n] ==
            LET p == IF i = 0 THEN fresh ELSE SchedulerStep(c, at[i - 1])
            IN  IF i = k THEN LoadStateDict(fresh, StateDict(p)) ELSE p
    IN  [i \in 0..n |-> at[i].lr]
=============================================================================
