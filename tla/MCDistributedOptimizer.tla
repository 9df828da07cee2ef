----------------------- MODULE MCDistributedOptimizer -----------------------
(***************************************************************************)
(* DistributedOptimizer with two ranks and three parameters in two bucket  *)
(* groups; the second group lies in the first rank's shard alone.          *)
(***************************************************************************)
EXTENDS DistributedOptimizer

CONSTANTS r1, r2

MCGroups == <<{2, 3}, {1}>>
MCOwner  == [p \in 1..3 |-> IF p = 3 THEN r2 ELSE r1]

(* Two engine orders: the reverse of registration, and one in which the    *)
(* last group is ready first.                                              *)
MCEngineOrders == {<<3, 2, 1>>, <<1, 2, 3>>}

(* Settings without the two flaws the other run and the README report.     *)
SoundConfigs == {c \in Config : SyncedOnce(c)}

(* Gradient accumulation with overlap_grad_reduce, which is the default.   *)
AccumulatingConfigs ==
    {c \in Config : c.overlap /\ c.gather /\ c.accum = 2 /\ ~c.clip}

(* Clipping in stage 1 with the default settings.                          *)
ClippingConfigs ==
    {c \in Config : c.stage = 1 /\ c.overlap /\ c.gather /\ c.accum = 1 /\ c.clip}
=============================================================================
