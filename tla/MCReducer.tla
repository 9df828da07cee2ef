------------------------------ MODULE MCReducer ------------------------------
(***************************************************************************)
(* Reducer with the bucket assignment of the code (BucketAssignment), for  *)
(* four parameters whose sizes give three buckets with limits <<1, 4>>.     *)
(***************************************************************************)
EXTENDS Reducer, BucketAssignment

Limits == <<1, 4>>
Bytes  == <<2, 3, 1, 4>>
Key    == [p \in DOMAIN Bytes |-> "fp32"]

MCInitialBuckets == InitialAssignment(Key, Bytes, Limits)

(* As a set of pairs, which TLC evaluates only once.                       *)
RebuiltPairs == {<<o, RebuiltAssignment(Key, Bytes, Limits, o)>> : o \in ReadyOrders}
MCRebuilt    == [o \in ReadyOrders |-> (CHOOSE e \in RebuiltPairs : e[1] = o)[2]]

(* Two engine orders: the reverse of registration, and one that is not.    *)
MCEngineOrders ==
    {[p \in Params |-> 4 - p], [p \in Params |-> (p + 2) % 4]}

(* All parameters, or all but one, as after FreezeBaseModel.               *)
OneFrozen == {Params \ {3}}
NoneOrOneFrozen == {Params} \cup OneFrozen
=============================================================================
