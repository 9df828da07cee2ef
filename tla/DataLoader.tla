----------------------------- MODULE DataLoader -----------------------------
(***************************************************************************)
(* dataloader.cc and checkpoint_manager.cc's DataLoaderBatchesToSkip: which*)
(* samples of the data set a data-parallel rank reads, from the start or   *)
(* from the position a checkpoint recorded.                                *)
(***************************************************************************)
EXTENDS Integers, Sequences

(* max_batch_idx_: the number of batches, the last one possibly short. *)
MaxBatchIdx(size, batch) == (size + batch - 1) \div batch

(* DistributedDataLoader::begin: rank r starts at batch r. *)
LoaderBegin(rank) == rank

(* operator++: every rank moves on by the number of ranks, up to end(). *)
LoaderNext(idx, world, size, batch) ==
    LET max == MaxBatchIdx(size, batch) IN
    IF idx + world < max THEN idx + world ELSE max

(* operator*: the samples of batch idx.  At end() there are none, and      *)
(* Stack reads the first element of an empty vector.                       *)
LoaderBatch(idx, size, batch) ==
    {i \in idx * batch .. (idx + 1) * batch - 1 : i < size}

SkipsAlignedTwice(consumed, batch, world) == consumed % (batch * world * world) = 0

(* DataLoaderBatchesToSkip, with its checks. *)
SkipsAligned(consumed, batch, world) == consumed % (batch * world) = 0

DataLoaderBatchesToSkip(consumed, batch, world) == consumed \div (batch * world)

(* The iterator a resumed rank starts from: begin() and as many ++ . *)
LoaderAt(rank, consumed, size, batch, world) ==
    LET at[n \in Nat] ==
            IF n = 0 THEN LoaderBegin(rank)
            ELSE LoaderNext(at[n - 1], world, size, batch)
    IN  at[DataLoaderBatchesToSkip(consumed, batch, world)]
=============================================================================
