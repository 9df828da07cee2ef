------------------------------ MODULE Autograd ------------------------------
(***************************************************************************)
(* The autograd engine: autograd/function.cc (Apply, BackwardPartial),     *)
(* autograd/accumulate.cc and Tensor::Backward.                            *)
(*                                                                         *)
(* A program applies functions, which links them into a graph, and calls   *)
(* Backward on results.  BackwardPartial is recursive: a function that has *)
(* all its gradients runs and hands one gradient to each of its inputs in  *)
(* turn.  The recursion is the sequence stack of deliveries still to make. *)
(*                                                                         *)
(* Gradients are accumulated in place, so what matters of a tensor is      *)
(* which buffer it is a view of.  A buffer holds a number and every        *)
(* function has unit derivatives: the gradient of a node is then the       *)
(* number of paths from the results to it.                                 *)
(***************************************************************************)
EXTENDS Naturals, Sequences, FiniteSets, FiniteSetsExt

CONSTANTS
    NumLeaves,     \* leaf tensors that require a gradient
    MaxFunctions,  \* bound: functions applied in a behaviour
    Kinds,         \* kinds of function the program applies
    ResidualOnly   \* whether an add is only applied as x + f(..x..)

ASSUME AutogradAssumption ==
    /\ NumLeaves \in Nat \ {0} /\ MaxFunctions \in Nat \ {0}
    /\ Kinds \subseteq {"kernel", "add", "view", "split"}
    /\ ResidualOnly \in BOOLEAN

NoGrad == 0                                 \* a tensor without requires_grad
Leaves == 1..NumLeaves                      \* the leaves' AccumulateGrad
Node(f) == NumLeaves + f                    \* the f-th function applied
Nodes  == 1..Node(MaxFunctions)
Null   == 0                                 \* no buffer

VARIABLES
    graph,    \* functions in the order of application: kind and inputs
    deps,     \* dependencies_number_ of each node
    reached,  \* dependencies_reached_
    slots,    \* grad_outputs_: the buffer held for each output
    given,    \* gradient a function was run with, 0 if it has not run
    heap,     \* value of each buffer
    grad,     \* Tensor::grad() of each leaf
    stack     \* deliveries <<node, output, buffer>> still to make
vars == <<graph, deps, reached, slots, given, heap, grad, stack>>

Functions == {Node(f) : f \in DOMAIN graph}
Fn(n)     == graph[n - NumLeaves]
Outputs(kind) == IF kind = "split" THEN 2 ELSE 1

(* The inputs of function n that are outputs of node m.                    *)
Edges(n, m) == {i \in DOMAIN Fn(n).inputs : Fn(n).inputs[i][1] = m}
Uses(m) == {e \in Functions \X {1, 2} : e[2] \in Edges(e[1], m)}
Consumers(m) == {n \in Functions : Edges(n, m) # {}}
Sinks == {n \in Functions : Consumers(n) = {}}

-----------------------------------------------------------------------------
(* Kernels give each input a gradient tensor of its own.  Add gives its    *)
(* gradient itself to both inputs, and NoOp (views) a view of it.          *)
SharesGradient(kind) == kind \in {"add", "view"}

IsBranch(n) ==
    ResidualOnly /\ \E m \in Functions : Fn(m).kind = "add" /\ Fn(m).inputs[2][1] = n

(* Tensors a program may pass on: constants, leaves, and results of the    *)
(* graphs it has not run backward yet.                                     *)
Tensors ==
    {<<NoGrad, 1>>} \cup (Leaves \X {1}) \cup
    {t \in Functions \X {1, 2} :
        given[t[1]] = 0 /\ t[2] <= Outputs(Fn(t[1]).kind) /\ ~IsBranch(t[1])}

ClosedUnderInputs(S) ==
    \A m \in S \cap Functions : \A i \in DOMAIN Fn(m).inputs :
        Fn(m).inputs[i][1] \in S \cup {NoGrad}

(* y was computed from x: x is in every set with y and the inputs of its   *)
(* members.                                                                *)
ComputedFrom(y, x) ==
    \A S \in SUBSET (1..y) : y \in S /\ ClosedUnderInputs(S) => x \in S

(* x + f(..x..), where the last operation of f is a kernel whose result    *)
(* has no other use.                                                       *)
IsResidual(inputs) ==
    LET x == inputs[1][1]
        y == inputs[2][1]
    IN  /\ x # NoGrad /\ y \in Functions /\ x # y
        /\ Fn(y).kind = "kernel" /\ Consumers(y) = {}
        /\ ComputedFrom(y, x)

InputsOf(kind) ==
    CASE kind = "kernel" -> Tensors \X Tensors \cup {<<t>> : t \in Tensors}
      [] kind = "add"    -> {in \in Tensors \X Tensors : ResidualOnly => IsResidual(in)}
      [] OTHER           -> {<<t>> : t \in Tensors}

-----------------------------------------------------------------------------
Init ==
    /\ graph   = <<>>
    /\ deps    = [n \in Nodes |-> 0]
    /\ reached = [n \in Nodes |-> 0]
    /\ slots   = [n \in Nodes |-> IF n \in Leaves THEN <<Null>> ELSE <<>>]
    /\ given   = [n \in Nodes |-> 0]
    /\ heap    = <<>>
    /\ grad    = [l \in Leaves |-> Null]
    /\ stack   = <<>>

CountedOnce(d, inputs) ==
    [n \in Nodes |-> d[n] + (IF \E i \in DOMAIN inputs : inputs[i][1] = n THEN 1 ELSE 0)]

(* IncreaseDependenciesNumber for every input that requires a gradient.    *)
Counted(d, inputs) ==
    [n \in Nodes |-> d[n] + Cardinality({i \in DOMAIN inputs : inputs[i][1] = n})]

(* Function::Apply under grad mode.  With no input that requires a         *)
(* gradient it leaves no graph: the result is then a NoGrad tensor.        *)
Apply(kind, inputs) ==
    LET n == Node(Len(graph) + 1) IN
    /\ stack = <<>>
    /\ Len(graph) < MaxFunctions
    /\ inputs \in InputsOf(kind)
    /\ \E i \in DOMAIN inputs : inputs[i][1] # NoGrad
    /\ graph' = Append(graph, [kind |-> kind, inputs |-> inputs])
    /\ deps'  = Counted(deps, inputs)
    /\ slots' = [slots EXCEPT ![n] = [o \in 1..Outputs(kind) |-> Null]]
    /\ UNCHANGED <<reached, given, heap, grad, stack>>

(* Tensor::Backward on a result that nothing else was computed from.       *)
Backward(n) ==
    /\ stack = <<>>
    /\ n \in Sinks
    /\ given[n] = 0
    /\ Outputs(Fn(n).kind) = 1
    /\ heap'  = Append(heap, 1)
    /\ stack' = <<<<n, 1, Len(heap) + 1>>>>
    /\ UNCHANGED <<graph, deps, reached, slots, given, grad>>

-----------------------------------------------------------------------------
(* BackwardPartial(grad_output, idx) of the delivery at the top.           *)

(* The first gradient of an output is kept as it is; the next ones are     *)
(* added to it in place (the AccumulateGrad kernel).                       *)
SlotsWith(d) ==
    IF slots[d[1]][d[2]] = Null THEN [slots[d[1]] EXCEPT ![d[2]] = d[3]]
                                ELSE slots[d[1]]
HeapWithReplaced(d) ==
    IF slots[d[1]][d[2]] = Null THEN heap
    ELSE [heap EXCEPT ![slots[d[1]][d[2]]] = heap[d[3]]]

HeapWith(d) ==
    IF slots[d[1]][d[2]] = Null THEN heap
    ELSE [heap EXCEPT ![slots[d[1]][d[2]]] = @ + heap[d[3]]]

FiresOnFirst(d) ==
    \A o \in DOMAIN SlotsWith(d) : SlotsWith(d)[o] # Null

FiresLate(d) ==
    /\ \A o \in DOMAIN SlotsWith(d) : SlotsWith(d)[o] # Null
    /\ deps[d[1]] \in {0, reached[d[1]]}

(* Whether the delivery completes its node.                                *)
Fires(d) ==
    /\ \A o \in DOMAIN SlotsWith(d) : SlotsWith(d)[o] # Null
    /\ deps[d[1]] \in {0, reached[d[1]] + 1}

Waits(d) ==
    /\ ~Fires(d)
    /\ reached' = [reached EXCEPT ![d[1]] = @ + 1]
    /\ slots'   = [slots EXCEPT ![d[1]] = SlotsWith(d)]
    /\ heap'    = HeapWith(d)
    /\ stack'   = Tail(stack)
    /\ UNCHANGED <<graph, deps, given, grad>>

Ordered(S, Before(_, _)) ==
    CHOOSE s \in [1..Cardinality(S) -> S] :
        \A i, j \in DOMAIN s : i < j => Before(s[i], s[j])

(* The edges of function n that are not null. *)
LiveEdges(n) == {i \in DOMAIN Fn(n).inputs : Fn(n).inputs[i][1] # NoGrad}

EdgesInOrder(n) == Ordered(LiveEdges(n), <)

ServedBefore(n, i, j) ==
    LET ToLeaf(k) == Fn(n).inputs[k][1] \in Leaves
    IN  (ToLeaf(i) /\ ~ToLeaf(j)) \/ ((ToLeaf(i) <=> ToLeaf(j)) /\ i < j)

(* The order in which they are served: AccumulateGrad edges first, each    *)
(* group in input order.                                                   *)
ServedEdges(n) == Ordered(LiveEdges(n), LAMBDA i, j : ServedBefore(n, i, j))

(* The function's Backward, then one delivery per edge.                    *)
RunFunction(d) ==
    LET n     == d[1]
        held  == SlotsWith(d)
        now   == HeapWith(d)
        value == MapThenSumSet(LAMBDA o : now[held[o]], DOMAIN held)
        ins   == Fn(n).inputs
        buf(i) == IF SharesGradient(Fn(n).kind) THEN held[1] ELSE Len(heap) + i
        edges == ServedEdges(n)
    IN
    /\ Fires(d)
    /\ n \notin Leaves
    /\ given'   = [given EXCEPT ![n] = value]
    /\ reached' = [reached EXCEPT ![n] = 0]
    /\ slots'   = [slots EXCEPT ![n] = [o \in DOMAIN held |-> Null]]
    /\ heap'    = IF SharesGradient(Fn(n).kind) THEN now
                  ELSE now \o [i \in DOMAIN ins |-> value]
    /\ stack'   = [j \in DOMAIN edges |->
                      <<ins[edges[j]][1], ins[edges[j]][2], buf(edges[j])>>] \o Tail(stack)
    /\ UNCHANGED <<graph, deps, grad>>

DepsKept(l) == deps

(* ResetAccumulator: the leaf's next use makes a new AccumulateGrad.       *)
DepsReset(l) == [deps EXCEPT ![l] = 0]

(* AccumulateGrad::Backward: a leaf without a gradient takes a view of the *)
(* incoming one, otherwise it is added in place; then the hook runs.       *)
RunAccumulate(d) ==
    LET l    == d[1]
        held == SlotsWith(d)[1]
        now  == HeapWith(d)
    IN
    /\ Fires(d)
    /\ l \in Leaves
    /\ IF grad[l] = Null
       THEN grad' = [grad EXCEPT ![l] = held] /\ heap' = now
       ELSE heap' = [now EXCEPT ![grad[l]] = @ + now[held]] /\ UNCHANGED grad
    /\ deps'    = DepsReset(l)
    /\ reached' = [reached EXCEPT ![l] = 0]
    /\ slots'   = [slots EXCEPT ![l] = <<Null>>]
    /\ stack'   = Tail(stack)
    /\ UNCHANGED <<graph, given>>

-----------------------------------------------------------------------------
Next ==
    \/ \E kind \in Kinds : \E inputs \in InputsOf(kind) : Apply(kind, inputs)
    \/ \E n \in Sinks : Backward(n)
    \/ stack # <<>> /\ Waits(Head(stack))
    \/ stack # <<>> /\ RunFunction(Head(stack))
    \/ stack # <<>> /\ RunAccumulate(Head(stack))

Spec == Init /\ [][Next]_vars

-----------------------------------------------------------------------------
(* The chain rule: paths from the results of the program to each node, one *)
(* for every path to a use of it.                                          *)
Gradient ==
    LET last == Node(Len(graph))
        paths[n \in 1..last] ==
            IF n \in Sinks THEN 1 ELSE MapThenSumSet(LAMBDA e : paths[e[1]], Uses(n))
    IN  paths

(* Type invariant.  No node is reached more often than it has dependents,  *)
(* and a leaf that waits less often.                                       *)
TypeOK ==
    /\ graph \in Seq([kind : Kinds, inputs : Seq((Nodes \cup {NoGrad}) \X {1, 2})])
    /\ deps \in [Nodes -> Nat]
    /\ reached \in [Nodes -> Nat]
    /\ \A n \in Nodes : reached[n] <= deps[n] \/ n \in Sinks
    /\ \A l \in Leaves : reached[l] > 0 => reached[l] < deps[l]
    /\ slots \in [Nodes -> Seq(Nat)]
    /\ given \in [Nodes -> Nat]
    /\ heap \in Seq(Nat)
    /\ grad \in [Leaves -> 0..Len(heap)]
    /\ stack \in Seq(Nodes \X {1, 2} \X (1..Len(heap)))

(* BackwardPartial: a function is run once, with its whole gradient: not   *)
(* before every use of its results has contributed, whatever the order in  *)
(* which the recursion reaches it, and with no contribution altered after  *)
(* it was made.                                                            *)
FullGradientsOnly ==
    \A n \in Functions : given[n] # 0 => given[n] = Gradient[n]

(* AccumulateGrad: between backward passes, a leaf all of whose uses have  *)
(* been run backward holds the sum over all of them, across graphs and     *)
(* passes, although gradients are kept as views and added to in place.     *)
LeafGradients ==
    stack = <<>> =>
        \A l \in Leaves : \A n \in Consumers(l) :
            (\A m \in Consumers(l) : given[m] # 0) =>
                grad[l] # Null /\ heap[grad[l]] = Gradient[l]

(* Every output of every function has been used or was a result.           *)
AllOutputsUsed ==
    \A n \in Functions \ Sinks : \A o \in 1..Outputs(Fn(n).kind) :
        \E m \in Functions : \E i \in DOMAIN Fn(m).inputs : Fn(m).inputs[i] = <<n, o>>

(* Function::Apply / BackwardPartial: once Backward has been called on     *)
(* every result, every function has run and no node holds on to gradients  *)
(* or counts, so the next pass starts clean.                               *)
EngineDrains ==
    (stack = <<>> /\ AllOutputsUsed /\ \A n \in Sinks : given[n] # 0) =>
        /\ \A n \in Functions : given[n] # 0
        /\ \A l \in Leaves : deps[l] = 0
        /\ \A n \in Nodes : reached[n] = 0 /\ \A o \in DOMAIN slots[n] : slots[n][o] = Null

(* BackwardPartial flushes AccumulateGrad edges before it recurses, so no  *)
(* leaf gradient is retained while earlier layers run.                     *)
LeafGradientsFirst ==
    \A i, j \in DOMAIN stack :
        i < j /\ stack[j][1] \in Leaves => stack[i][1] \in Leaves
=============================================================================
