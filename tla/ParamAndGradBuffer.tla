------------------------- MODULE ParamAndGradBuffer -------------------------
(***************************************************************************)
(* The flat-buffer layout of ZeRO: ParamAndGradBuffer::BuildBuckets and    *)
(* ParamAndGradBucket (ddp/param_and_grad_buffer.cc), and the pieces       *)
(* DistributedOptimizer::BuildShardParamsAndBindGrads cuts out of it.      *)
(*                                                                         *)
(* Parameters are 1..Len(numels) in registration order; offsets count      *)
(* elements; a range is [first, end) as in the code.                       *)
(***************************************************************************)
EXTENDS Naturals, Sequences, FiniteSets, SequencesExt

CONSTANTS
    ParamAlign,  \* kParamStartAlignElements (64)
    BucketAlign  \* kBucketEndAlignElements (128)

ASSUME AlignAssumption ==
    /\ ParamAlign \in Nat \ {0}
    /\ BucketAlign \in Nat \ {0}
    /\ BucketAlign % ParamAlign = 0

PadTo(v, align) == ((v + align - 1) \div align) * align

Lcm(a, b) == CHOOSE m \in 1..(a * b) :
    m % a = 0 /\ m % b = 0 /\ \A k \in 1..(m - 1) : k % a # 0 \/ k % b # 0

PadBucketEndNone(end, world) == end

(* PadBucketEndIfNeeded, without pad_buckets_for_high_nccl_busbw.          *)
PadBucketEnd(end, world) == PadTo(end, Lcm(world, BucketAlign))

(***************************************************************************)
(* One parameter of BuildBuckets' packing loop.  acc.start is where the    *)
(* next parameter may start, acc.first where the open bucket starts,       *)
(* acc.open its parameters; param_index_map_ is acc.at.                    *)
(***************************************************************************)
CloseBucket(acc, end, world) ==
    LET padded == PadBucketEnd(end, world) IN
    [acc EXCEPT !.buckets = Append(@, [params |-> acc.open, first |-> acc.first, end |-> padded]),
                !.start = padded, !.first = padded, !.open = <<>>]

AddToBucket(acc, p, start, end) ==
    [acc EXCEPT !.at[p] = start, !.open = Append(@, p), !.start = end]

PackParam(acc, p, numels, world, bucketSize) ==
    LET start  == PadTo(acc.start, ParamAlign)
        end    == start + numels[p]
        packed == AddToBucket(acc, p, start, end)
    IN  IF end - acc.first >= bucketSize THEN CloseBucket(packed, end, world) ELSE packed

(* The buckets and the start of every parameter, packed in backprop order. *)
BuildBuckets(numels, world, bucketSize) ==
    LET n == Len(numels)
        packed[i \in 0..n] ==
            IF i = 0
            THEN [buckets |-> <<>>, at |-> [p \in 1..n |-> 0],
                  start |-> 0, first |-> 0, open |-> <<>>]
            ELSE PackParam(packed[i - 1], n + 1 - i, numels, world, bucketSize)
        last == packed[n]
    IN  IF last.open = <<>> THEN last ELSE CloseBucket(last, last.start, world)

-----------------------------------------------------------------------------
(* param_to_range_: where ParamAndGradBucket takes its i-th parameter to   *)
(* start in the bucket, back to back.                                      *)
RangeStart(bucket, i, numels) ==
    FoldLeft(LAMBDA sum, p : sum + numels[p], 0, SubSeq(bucket.params, 1, i - 1))

(* The rank's shard of a bucket, as offsets in the bucket.                 *)
Shard(bucket, world, rank) ==
    LET size == (bucket.end - bucket.first) \div world
    IN  (size * rank)..(size * (rank + 1) - 1)

(* Offsets in the bucket of the piece of its i-th parameter whose gradient *)
(* and value the base optimizer of the rank works on.                      *)
Piece(bucket, i, numels, world, rank) ==
    LET start == RangeStart(bucket, i, numels)
    IN  (start..(start + numels[bucket.params[i]] - 1)) \cap Shard(bucket, world, rank)

(* Where SetData has put the parameter, as offsets in its bucket.          *)
Placed(layout, bucket, i, numels) ==
    LET start == layout.at[bucket.params[i]] - bucket.first
    IN  start..(start + numels[bucket.params[i]] - 1)

(***************************************************************************)
(* The shards cover the layout: the buckets follow each other, every one   *)
(* divides evenly into shards and holds its parameters beside each other,  *)
(* and every element of every parameter is in the piece of exactly one     *)
(* rank.                                                                   *)
(***************************************************************************)
IsSharding(layout, numels, world) ==
    /\ \A p \in DOMAIN numels :
           Cardinality({b \in DOMAIN layout.buckets : p \in ToSet(layout.buckets[b].params)}) = 1
    /\ \A b \in DOMAIN layout.buckets :
           LET bucket == layout.buckets[b]
               ranks  == 0..(world - 1)
           IN
           /\ (bucket.end - bucket.first) % world = 0
           /\ \A c \in DOMAIN layout.buckets : c > b => bucket.end <= layout.buckets[c].first
           /\ \A i \in DOMAIN bucket.params :
                  LET pieces == {Piece(bucket, i, numels, world, r) : r \in ranks}
                      placed == Placed(layout, bucket, i, numels)
                  IN
                  /\ placed \subseteq 0..(bucket.end - bucket.first - 1)
                  /\ \A j \in DOMAIN bucket.params :
                         j # i => placed \cap Placed(layout, bucket, j, numels) = {}
                  /\ UNION pieces = placed
                  /\ \A r, s \in ranks : r # s =>
                         Piece(bucket, i, numels, world, r) \cap Piece(bucket, i, numels, world, s) = {}
=============================================================================
