--------------------------- MODULE PipelineLayout ---------------------------
(***************************************************************************)
(* nn/parallel/pipeline_layout.cc: which stage runs which layers, and what *)
(* the model, the pipeline wrapper and the scheduler make of it.  Layers,  *)
(* stages and chunks count from 0.  PipelineLayoutError is the value       *)
(* Refused; a special module's stage is -1 when it is not given.           *)
(***************************************************************************)
EXTENDS Integers, Sequences, FiniteSets, FiniteSetsExt, SequencesExt

Refused == [refused |-> TRUE]

Policy == [empty |-> FALSE, contiguous |-> TRUE, boundary |-> TRUE]
Unplaced == [embedding |-> -1, norm |-> -1, head |-> -1]

Chunk(id, stage, local, start, end) ==
    [id |-> id, stage |-> stage, local |-> local, start |-> start, end |-> end]

LayersOf(c) == c.start..c.end - 1

(* A chunk of n layers after those there are, BuildDefault's next one. *)
WithChunk(chunks, id, stage, local, n) ==
    LET start == IF chunks = <<>> THEN 0 ELSE Last(chunks).end
    IN  Append(chunks, Chunk(id, stage, local, start, start + n))

BuildPlacement(placement, stages) ==
    [embedding |-> IF placement.embedding < 0 THEN 0 ELSE placement.embedding,
     norm      |-> IF placement.norm < 0 THEN stages - 1 ELSE placement.norm,
     head      |-> IF placement.head < 0 THEN stages - 1 ELSE placement.head]

(* Validate, in the order of the code; the first check that fails throws.  *)
RangesCover(l) ==
    /\ \A i \in DOMAIN l.chunks :
          l.chunks[i].start >= 0 /\ l.chunks[i].end \in l.chunks[i].start..l.layers
    /\ \A layer \in 0..l.layers - 1 :
          Cardinality({i \in DOMAIN l.chunks : layer \in LayersOf(l.chunks[i])}) = 1

IdsLegal(l) ==
    \A i, j \in DOMAIN l.chunks :
        /\ l.chunks[i].stage \in 0..l.stages - 1
        /\ l.chunks[i].id >= 0 /\ l.chunks[i].local >= 0
        /\ l.chunks[i].id = l.chunks[j].id => i = j

PlacementLegal(l) ==
    /\ {l.placement.embedding, l.placement.norm, l.placement.head} \subseteq 0..l.stages - 1
    /\ l.policy.boundary => l.placement = BuildPlacement(Unplaced, l.stages)

NoStageEmpty(l) ==
    \A s \in 0..l.stages - 1 :
        \E i \in DOMAIN l.chunks : l.chunks[i].stage = s /\ LayersOf(l.chunks[i]) # {}

ExecutionContiguous(l) ==
    LET sorted == SortSeq(l.chunks, LAMBDA a, b : a.start < b.start)
    IN  \A i \in 2..Len(sorted) : sorted[i].start = sorted[i - 1].end

Validate(l) ==
    /\ RangesCover(l) /\ IdsLegal(l) /\ PlacementLegal(l)
    /\ ~l.policy.empty => NoStageEmpty(l)
    /\ l.policy.contiguous => ExecutionContiguous(l)

(* The constructor of PipelineLayout. *)
Layout(layers, stages, vpp, chunks, placement, policy) ==
    LET l == [layers |-> layers, stages |-> stages, vpp |-> vpp, chunks |-> chunks,
              placement |-> placement, policy |-> policy]
    IN  IF Validate(l) THEN l ELSE Refused

SizeOfChunkLast(layers, chunks, id) ==
    (layers \div chunks) + (IF chunks - 1 - id < layers % chunks THEN 1 ELSE 0)

(* The first chunks get the layers that are left over. *)
SizeOfChunk(layers, chunks, id) ==
    (layers \div chunks) + (IF id < layers % chunks THEN 1 ELSE 0)

BuildDefault(layers, stages, vpp, placement) ==
    LET total == stages * vpp
        next(chunks, id) ==
            IF SizeOfChunk(layers, total, id) = 0 THEN chunks
            ELSE WithChunk(chunks, id, id % stages, id \div stages,
                           SizeOfChunk(layers, total, id))
    IN  IF layers <= 0 \/ stages <= 0 \/ vpp <= 0 THEN Refused
        ELSE Layout(layers, stages, vpp, FoldLeft(next, <<>>, [i \in 1..total |-> i - 1]),
                    BuildPlacement(placement, stages),
                    [Policy EXCEPT !.empty = layers < total])

BuildContiguous(counts, placement, policy) ==
    LET stages == Len(counts)
        next(chunks, s) ==
            IF counts[s + 1] = 0 THEN chunks ELSE WithChunk(chunks, s, s, 0, counts[s + 1])
    IN  IF \/ counts = <<>>
           \/ \E i \in DOMAIN counts : counts[i] < 0 \/ (counts[i] = 0 /\ ~policy.empty)
        THEN Refused
        ELSE Layout(FoldLeft(+, 0, counts), stages, 1,
                    FoldLeft(next, <<>>, [i \in 1..stages |-> i - 1]),
                    BuildPlacement(placement, stages), policy)

(* --pipeline_layer_partition, parsed: <<>> when the flag is not given.    *)
BuildPipelineLayout(layers, stages, vpp, partition, placement) ==
    IF partition = <<>> THEN BuildDefault(layers, stages, vpp, placement)
    ELSE IF \/ Len(partition) # stages
            \/ FoldLeft(+, 0, partition) # layers
            \/ vpp # 1
         THEN Refused
         ELSE BuildContiguous(partition, placement, Policy)

-----------------------------------------------------------------------------
(***************************************************************************)
(* ParseMegatronStyleLayout.  The text is a sequence of symbols and of     *)
(* groups "(...)*n"; a symbol is t, E, F, H, "|", "," or one it refuses.   *)
(***************************************************************************)
Symbol(c)     == [symbol |-> c, body |-> <<>>, times |-> 1]
Group(body, n) == [symbol |-> "(", body |-> body, times |-> n]

RECURSIVE Expand(_)
Expand(text) ==
    FlattenSeq([i \in DOMAIN text |->
        IF text[i].symbol # "(" THEN <<text[i].symbol>>
        ELSE LET inner == Expand(text[i].body)
             IN  FlattenSeq([n \in 1..text[i].times |-> inner])])

(* What has been read: layers per stage and chunk, the special modules.    *)
NothingRead == [counts |-> <<<<0>>>>, placement |-> Unplaced]

PlacedOnce(read, module) ==
    IF read.placement[module] >= 0 THEN Refused
    ELSE [read EXCEPT !.placement[module] = Len(read.counts) - 1]

ReadSymbol(read, c) ==
    LET stage == Len(read.counts)
        chunk == Len(Last(read.counts))
    IN  IF read = Refused THEN Refused
        ELSE CASE c = "|" -> [read EXCEPT !.counts = Append(@, <<0>>)]
               [] c = "," -> [read EXCEPT !.counts[stage] = Append(@, 0)]
               [] c = "t" -> [read EXCEPT !.counts[stage][chunk] = @ + 1]
               [] c = "E" -> PlacedOnce(read, "embedding")
               [] c = "F" -> PlacedOnce(read, "norm")
               [] c = "H" -> PlacedOnce(read, "head")
               [] OTHER   -> Refused

ParseMegatronStyleLayout(text, layers, stages, vpp) ==
    LET read == FoldLeft(ReadSymbol, NothingRead, Expand(text))
        next(chunks, id) ==
            WithChunk(chunks, id, id % stages, id \div stages,
                      read.counts[(id % stages) + 1][(id \div stages) + 1])
        chunks == FoldLeft(next, <<>>, [i \in 1..stages * vpp |-> i - 1])
    IN  IF \/ text = <<>> \/ layers <= 0 \/ stages <= 0 \/ vpp <= 0
           \/ read = Refused
        THEN Refused
        ELSE IF \/ Len(read.counts) # stages
                \/ \E s \in DOMAIN read.counts : Len(read.counts[s]) # vpp
             THEN Refused
             ELSE IF Last(chunks).end # layers THEN Refused
                  ELSE Layout(layers, stages, vpp, chunks,
                              BuildPlacement(read.placement, stages),
                              [Policy EXCEPT !.empty =
                                  \E i \in DOMAIN chunks : LayersOf(chunks[i]) = {}])

-----------------------------------------------------------------------------
(***************************************************************************)
(* SuggestBalancedPartition, for costs that are integers: the average a    *)
(* stage should get is remaining \div left, kept as a fraction.            *)
(***************************************************************************)
CostOf(costs, first, n) == FoldLeft(+, 0, SubSeq(costs, first + 1, first + n))

Distance(cost, remaining, left) ==
    IF cost * left > remaining THEN cost * left - remaining ELSE remaining - cost * left

(* The layers the next stage takes: as many as its share allows, and one   *)
(* more if that comes nearer to it; at least one is left for every other.  *)
Take(costs, cursor, remaining, left) ==
    LET limit == Len(costs) - cursor - (left - 1)
        n == Max({k \in 1..limit :
                     \A j \in 2..k : CostOf(costs, cursor, j) * left <= remaining})
    IN  IF /\ n < limit
           /\ Distance(CostOf(costs, cursor, n + 1), remaining, left)
              < Distance(CostOf(costs, cursor, n), remaining, left)
        THEN n + 1 ELSE n

SuggestBalancedPartition(layers, stages, costs) ==
    LET next(part, left) ==
            LET n == Take(costs, part.cursor, part.remaining, left)
            IN  [taken |-> Append(part.taken, n), cursor |-> part.cursor + n,
                 remaining |-> part.remaining - CostOf(costs, part.cursor, n)]
        all == FoldLeft(next, [taken |-> <<>>, cursor |-> 0, remaining |-> CostOf(costs, 0, layers)],
                        [i \in 1..stages - 1 |-> stages - i + 1])
    IN  IF layers <= 0 \/ stages <= 0 \/ layers < stages \/ Len(costs) # layers THEN Refused
        ELSE [partition |-> Append(all.taken, layers - all.cursor)]

-----------------------------------------------------------------------------
(* BuildIndexes: the chunks of a stage in the order they are listed, and   *)
(* the number of a layer among the layers of its stage.                    *)
ChunksOfStage(l, stage) == SelectSeq(l.chunks, LAMBDA c : c.stage = stage)

ChunkOfLayer(l, layer) == CHOOSE c \in ToSet(l.chunks) : layer \in LayersOf(c)

FlatLocalIndex(l, layer) ==
    Cardinality({k \in 0..layer - 1 : ChunkOfLayer(l, k).stage = ChunkOfLayer(l, layer).stage})

ValidateForCurrentPipelineTransport(l) ==
    \A s \in 0..l.stages - 1 : ChunksOfStage(l, s) # <<>>

Owns(l, module, stage) == l.placement[module] = stage

LayerSeq(c) == [i \in 1..c.end - c.start |-> c.start + i - 1]

(* TransformerModel's constructor: transformer.h of one stage. *)
ModelLayers(l, stage) ==
    LET own == ChunksOfStage(l, stage)
    IN  FlattenSeq([i \in DOMAIN own |-> LayerSeq(own[i])])

(* TransformerLastStage's modules, where there is one. *)
LastStageParts(l, stage) ==
    (IF Owns(l, "norm", stage) THEN <<"norm">> ELSE <<>>)
    \o (IF Owns(l, "head", stage) THEN <<"head">> ELSE <<>>)

(* PipelineParallel's constructor: what each local chunk of a stage runs.  *)
StageModules(l, stage) ==
    LET own == ChunksOfStage(l, stage)
    IN  [i \in DOMAIN own |->
            (IF i = 1 /\ Owns(l, "embedding", stage) THEN <<"embedding">> ELSE <<>>)
            \o LayerSeq(own[own[i].local + 1])
            \o (IF i = Len(own) THEN LastStageParts(l, stage) ELSE <<>>)]

(* The schedulers run every chunk of num_stages * vpp_size in turn, by its *)
(* local index on its stage; CreateTask throws for one that is missing.    *)
Executed(l) ==
    LET ids == 0..l.stages * l.vpp - 1
        chunk(id) == CHOOSE c \in ToSet(l.chunks) : c.id = id
    IN  IF \/ ~ValidateForCurrentPipelineTransport(l)
           \/ ~(ids \subseteq {c.id : c \in ToSet(l.chunks)})
        THEN Refused
        ELSE [modules |-> FlattenSeq([i \in 1..Cardinality(ids) |->
                  StageModules(l, chunk(i - 1).stage)[chunk(i - 1).local + 1]])]

(* PipelineParallel::GetStageInfo, which divides the layers itself. *)
GetStageInfo(layers, stages, stage, vpp) ==
    LET per  == layers \div (stages * vpp)
        rest == layers % (stages * vpp)
        start(id) == IF id < rest THEN id * (per + 1)
                     ELSE rest * (per + 1) + (id - rest) * per
        end(id)   == Min({start(id) + per + (IF id < rest THEN 1 ELSE 0), layers})
        ids == SelectSeq([i \in 1..vpp |-> (i - 1) * stages + stage],
                         LAMBDA id : id * per < layers /\ start(id) < end(id))
    IN  [i \in DOMAIN ids |-> <<start(ids[i]), end(ids[i])>>]

-----------------------------------------------------------------------------
(* What a run with a layout does: the model's modules in order, every      *)
(* layer under the number its stage knows it by.                           *)
RunsModel(l) ==
    /\ Executed(l) = [modules |-> <<"embedding">> \o [i \in 1..l.layers |-> i - 1]
                                  \o <<"norm", "head">>]
    /\ \A layer \in 0..l.layers - 1 :
          ModelLayers(l, ChunkOfLayer(l, layer).stage)[FlatLocalIndex(l, layer) + 1] = layer
=============================================================================
