-------------------------- MODULE BucketAssignment --------------------------
(***************************************************************************)
(* The pure part of nn/parallel/ddp/reducer.cc: how parameters are grouped *)
(* into all-reduce buckets, first from the registration order and again    *)
(* from the order in which gradients became ready.                         *)
(*                                                                         *)
(* A tensor is its index 1..n (the code counts from 0); what the algorithm *)
(* reads of it is its (device, dtype) key and its size in bytes, given as  *)
(* the sequences key and bytes.  A bucket is a sequence of tensor indices. *)
(***************************************************************************)
EXTENDS Naturals, Sequences, FiniteSets, SequencesExt

(***************************************************************************)
(* The state ComputeBucketAssignmentBySize keeps for one key: the open     *)
(* bucket, its bytes, and the entry of bucket_size_limits in force.        *)
(***************************************************************************)
EmptyState == [current |-> <<>>, bytes |-> 0, limit |-> 1]

FlushCurrentBucketKept(acc, k, limits) ==
    [acc EXCEPT !.buckets = Append(@, acc.states[k].current)]

(* FlushCurrentBucket: close a non-empty bucket and move to the next limit.*)
FlushCurrentBucket(acc, k, limits) ==
    LET s == acc.states[k] IN
    IF s.current = <<>>
    THEN acc
    ELSE [acc EXCEPT !.buckets = Append(@, s.current),
                     !.states[k] = [current |-> <<>>,
                                    bytes   |-> 0,
                                    limit   |-> IF s.limit < Len(limits)
                                                THEN s.limit + 1 ELSE s.limit]]

(* One iteration of the loop over the order: the tensor joins the open     *)
(* bucket of its key first, and the bucket is then flushed once it is full.*)
AssignTensor(acc, i, key, bytes, limits) ==
    LET k      == key[i]
        opened == IF k \in ToSet(acc.keyOrder) THEN acc.keyOrder
                                               ELSE Append(acc.keyOrder, k)
        cap    == limits[acc.states[k].limit]
        joined == [acc EXCEPT !.keyOrder          = opened,
                              !.states[k].current = Append(@, i),
                              !.states[k].bytes   = @ + bytes[i]]
    IN  IF joined.states[k].bytes >= cap
        THEN FlushCurrentBucket(joined, k, limits)
        ELSE joined

ComputeBucketAssignmentBySize(key, bytes, limits, order) ==
    LET empty == [states   |-> [k \in ToSet(key) |-> EmptyState],
                  keyOrder |-> <<>>,
                  buckets  |-> <<>>]
        assigned[j \in 0..Len(order)] ==
            IF j = 0 THEN empty
            ELSE AssignTensor(assigned[j - 1], order[j], key, bytes, limits)
        filled == assigned[Len(order)]
        flushed[j \in 0..Len(filled.keyOrder)] ==
            IF j = 0 THEN filled
            ELSE FlushCurrentBucket(flushed[j - 1], filled.keyOrder[j], limits)
    IN  flushed[Len(filled.keyOrder)].buckets

(* The constructor's assignment: tensor_indices is empty, so the tensors   *)
(* are taken in reverse registration order.                                *)
InitialAssignment(key, bytes, limits) ==
    ComputeBucketAssignmentBySize(key, bytes, limits,
                                  Reverse([i \in DOMAIN key |-> i]))

(* full_order: the recorded ready order, then every index it lacks.        *)
FullOrder(recorded, n) ==
    LET with[i \in 0..n] ==
            IF i = 0 THEN recorded
            ELSE IF i \in ToSet(recorded) THEN with[i - 1]
            ELSE Append(with[i - 1], i)
    IN  with[n]

(***************************************************************************)
(* RebuildBuckets hands ComputeBucketAssignmentBySize the tensors permuted *)
(* into full_order AND full_order as tensor_indices; the callee then reads *)
(* tensors[tensor_indices[j]], which applies the permutation twice.        *)
(***************************************************************************)
RebuiltAssignment(key, bytes, limits, recorded) ==
    LET full == FullOrder(recorded, Len(key)) IN
    ComputeBucketAssignmentBySize([j \in DOMAIN key |-> key[full[j]]],
                                  [j \in DOMAIN key |-> bytes[full[j]]],
                                  limits, full)

(***************************************************************************)
(* What a bucket list must be for BuildBuckets to give every parameter one *)
(* locator: every tensor has one place, and no bucket is empty.            *)
(***************************************************************************)
IsPartition(bs, n) ==
    /\ bs \in Seq(Seq(1..n) \ {<<>>})
    /\ \A t \in 1..n : \E b \in DOMAIN bs : \E i \in DOMAIN bs[b] :
           \A c \in DOMAIN bs : \A j \in DOMAIN bs[c] : bs[c][j] = t <=> c = b /\ j = i

(* The bytes of the first m tensors of a bucket.                           *)
BytesOf(bucket, m, bytes) ==
    FoldLeft(LAMBDA sum, t : sum + bytes[t], 0, SubSeq(bucket, 1, m))

(* Buckets of one key each: the i-th of its key is closed by the tensor    *)
(* that reaches the i-th limit, or the last one; only the last bucket of a *)
(* key may be left open.                                                   *)
AreCapped(bs, key, bytes, limits) ==
    LET SameKey(b, c) == key[bs[b][1]] = key[bs[c][1]]
        turn(b)  == Cardinality({c \in 1..b : SameKey(b, c)})
        limit(b) == limits[IF turn(b) < Len(limits) THEN turn(b) ELSE Len(limits)]
    IN  \A b \in DOMAIN bs :
            /\ \A i \in DOMAIN bs[b] : key[bs[b][i]] = key[bs[b][1]]
            /\ \A i \in 1..(Len(bs[b]) - 1) : BytesOf(bs[b], i, bytes) < limit(b)
            /\ \/ BytesOf(bs[b], Len(bs[b]), bytes) >= limit(b)
               \/ \A c \in DOMAIN bs : c > b => ~SameKey(b, c)
=============================================================================
