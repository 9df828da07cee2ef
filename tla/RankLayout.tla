----------------------------- MODULE RankLayout -----------------------------
(***************************************************************************)
(* nn/parallel/global.cc and nn/parallel/rank.cc: how the ranks of the     *)
(* world are laid out over data, tensor and pipeline parallelism, and      *)
(* which ranks form a group along one of the three.  Layout::order is TP,  *)
(* DP, PP and nothing changes it: neighbouring ranks are tensor-parallel.  *)
(***************************************************************************)
EXTENDS Integers, Sequences

Axes == {"DP", "TP", "PP"}

(* GlobalEnv::Init: data parallelism gets what the others leave.           *)
LayoutSizes(world, tp, pp) ==
    [axis \in Axes |-> CASE axis = "TP" -> tp [] axis = "PP" -> pp
                         [] axis = "DP" -> (world \div tp) \div pp]

(* Layout::InitStrides. *)
LayoutStrides(sizes) ==
    [axis \in Axes |-> CASE axis = "TP" -> 1 [] axis = "DP" -> sizes["TP"]
                         [] axis = "PP" -> sizes["TP"] * sizes["DP"]]

RankOf(sizes, coord) ==
    LET strides == LayoutStrides(sizes)
    IN  coord["DP"] * strides["DP"] + coord["TP"] * strides["TP"] + coord["PP"] * strides["PP"]

CoordOf(sizes, rank) ==
    [axis \in Axes |-> (rank \div LayoutStrides(sizes)[axis]) % sizes[axis]]

(* Layout::GroupId: the coordinates other than the group's own, read as    *)
(* one number whose last digit is that of the last axis in the order.      *)
GroupId(sizes, axis, coord) ==
    CASE axis = "TP" -> coord["DP"] * sizes["PP"] + coord["PP"]
      [] axis = "DP" -> coord["TP"] * sizes["PP"] + coord["PP"]
      [] axis = "PP" -> coord["TP"] * sizes["DP"] + coord["DP"]

(* Layout::GroupRanks, in the order of their ranks in the group. *)
GroupRanks(sizes, axis, coord) ==
    [i \in 1..sizes[axis] |-> RankOf(sizes, [coord EXCEPT ![axis] = i - 1])]
=============================================================================
