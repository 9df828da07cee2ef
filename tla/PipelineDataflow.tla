-------------------------- MODULE PipelineDataflow --------------------------
(***************************************************************************)
(* What a pipeline promises: within an iteration every chunk runs forward  *)
(* and then backward once for every micro-batch, on the output of the      *)
(* chunk before it (after it, going back), in any order that respects      *)
(* these dependencies.                                                     *)
(***************************************************************************)
EXTENDS Naturals

CONSTANTS Iterations   \* training steps

VARIABLES
    shape,  \* how many chunks and micro-batches there are
    ran     \* what has run: <<iteration, forward, micro-batch, chunk>>

Done(i, f, mb, c) == <<i, f, mb, c>> \in ran

Init == /\ shape \in [chunks : Nat \ {0}, mbs : Nat \ {0}]
        /\ ran = {}

Needs(i, f, mb, c) ==
    IF f THEN c = 0 \/ Done(i, TRUE, mb, c - 1)
    ELSE IF c = shape.chunks - 1 THEN Done(i, TRUE, mb, c)
    ELSE Done(i, FALSE, mb, c + 1)

Run(i, f, mb, c) ==
    /\ ~Done(i, f, mb, c)
    /\ Needs(i, f, mb, c)
    /\ ran' = ran \cup {<<i, f, mb, c>>}
    /\ UNCHANGED shape

Next == \E i \in 1..Iterations, f \in BOOLEAN,
           mb \in 0..(shape.mbs - 1), c \in 0..(shape.chunks - 1) : Run(i, f, mb, c)

Spec == Init /\ [][Next]_<<shape, ran>>
=============================================================================
