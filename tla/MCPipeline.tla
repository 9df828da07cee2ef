----------------------------- MODULE MCPipeline -----------------------------
(***************************************************************************)
(* Pipeline over several small configurations at once.                     *)
(***************************************************************************)
EXTENDS Pipeline

Conf(stages, vpp, mbs, capacity) ==
    [stages |-> stages, vpp |-> vpp, mbs |-> mbs, capacity |-> capacity]

(* One chunk per stage: any transport, from rendezvous to buffered.        *)
PlainConfs == {Conf(s, 1, n, c) : s \in {2, 3}, n \in 1..3, c \in {0, 1, 2}}

(* Two chunks per stage: a transport that buffers as much as this takes.   *)
VirtualConfs ==
    {Conf(2, 2, 1, 0), Conf(2, 2, 2, 1), Conf(2, 2, 3, 1), Conf(2, 2, 4, 2),
     Conf(3, 2, 2, 0), Conf(3, 2, 3, 1), Conf(3, 2, 4, 1)}

PassingConfs == PlainConfs \cup VirtualConfs

(* Two chunks per stage, as many micro-batches as stages, rendezvous.      *)
RendezvousConfs == {Conf(2, 2, 2, 0)}
=============================================================================
