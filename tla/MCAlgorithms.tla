---------------------------- MODULE MCAlgorithms ----------------------------
(***************************************************************************)
(* The pure algorithms, over bounded inputs: those of LocalAlgorithms, and    *)
(* others in the same way.  An initial state is an input, one step         *)
(* computes what the algorithm makes of it; a network, one node in each.   *)
(***************************************************************************)
EXTENDS LocalAlgorithms, FunctionCalls, PipelineLayout, ModelFile, Adapters

vars == <<input, output>>

(* Training runs with every style of decay, warm-up and end. *)
TrainerConfigs ==
    {c \in [style : RateStyles, lr : {14400}, min : {0, 1440}, init : {0, 7200}, warmup : 0..3,
             decay : 1..5] : ValidConfig(c)}

(* Two schedulers that are chained. *)
ChainedInputs ==
    {[about |-> "chained", resume |-> k, lr |-> 14400,
      config |-> [class |-> "chained",
                  kids  |-> <<[class |-> "constant", start |-> <<1, 2>>, total |-> t],
                              [class |-> "step", start |-> <<1, 2>>, total |-> z]>>]] :
        k \in 0..RateSteps, t \in 1..3, z \in 1..3}

ChainedRates(in) == RatesWithResume(in.config, <<1, 2>>, in.lr, RateSteps, in.resume)

(* Layouts of the pipeline: the default one, a partition, a text in the    *)
(* Megatron style with its layers written out or as repetitions, and a     *)
(* partition suggested for the costs of the layers.                        *)
Placements ==
    {Unplaced, [Unplaced EXCEPT !.embedding = 0], [Unplaced EXCEPT !.embedding = 1],
     [Unplaced EXCEPT !.norm = 0], [Unplaced EXCEPT !.head = 1]}

PlacementSymbols(p, stage) ==
    LET symbols == <<<<"embedding", "E">>, <<"norm", "F">>, <<"head", "H">>>>
    IN  FlattenSeq([i \in 1..3 |-> IF p[symbols[i][1]] = stage THEN <<Symbol(symbols[i][2])>>
                                   ELSE <<>>])

LayersText(n, grouped) ==
    IF grouped /\ n > 0 THEN <<Group(<<Symbol("t")>>, n)>> ELSE [i \in 1..n |-> Symbol("t")]

MegatronText(counts, placement, grouped) ==
    FlattenSeq([s \in DOMAIN counts |->
        (IF s > 1 THEN <<Symbol("|")>> ELSE <<>>)
        \o PlacementSymbols(placement, s - 1)
        \o FlattenSeq([c \in DOMAIN counts[s] |->
               (IF c > 1 THEN <<Symbol(",")>> ELSE <<>>) \o LayersText(counts[s][c], grouped)])])

(* "(t,t|)*1t,t": repetitions with separators in them; and what is refused. *)
OddTexts ==
    {<<Group(<<Symbol("t"), Symbol(","), Group(<<Symbol("t")>>, 2), Symbol("|")>>, 1),
       Symbol("t"), Symbol(","), Symbol("t")>>,
     <<Symbol("t"), Symbol("x")>>, <<Symbol("E"), Symbol("t"), Symbol("|"), Symbol("E")>>, <<>>}

PipelineLayoutInputs ==
    {[about |-> "layers", by |-> "default", layers |-> n, stages |-> s, vpp |-> v, placement |-> p] :
        n \in 1..7, s \in 1..MaxStages, v \in 1..MaxVpp, p \in Placements}
    \cup
    {[about |-> "layers", by |-> "partition", layers |-> n, stages |-> s, vpp |-> v,
      placement |-> Unplaced, counts |-> c] :
        n \in 1..4, s \in 1..MaxStages, v \in 1..2,
        c \in UNION {[1..k -> 0..2] : k \in 1..MaxStages}}
    \cup
    UNION {{[about |-> "layers", by |-> "megatron", layers |-> n, stages |-> s, vpp |-> v,
             placement |-> p, counts |-> c, text |-> MegatronText(c, p, g)] :
                n \in 1..4, g \in BOOLEAN,
                p \in {q \in Placements : {q.embedding, q.norm, q.head} \subseteq -1..s - 1},
                c \in [1..s -> [1..v -> 0..2]]} :
           s \in 1..2, v \in 1..2}
    \cup
    {[about |-> "layers", by |-> "megatron", layers |-> 5, stages |-> 2, vpp |-> 2,
      placement |-> Unplaced, counts |-> <<>>, text |-> x] : x \in OddTexts}
    \cup
    UNION {{[about |-> "layers", by |-> "balance", layers |-> n, stages |-> s, costs |-> c] :
                s \in 1..MaxStages, c \in [1..n -> {0, 1, 4}]} : n \in 1..5}

LayoutOf(in) ==
    CASE in.by = "default"   ->
           BuildPipelineLayout(in.layers, in.stages, in.vpp, <<>>, in.placement)
      [] in.by = "partition" ->
           BuildPipelineLayout(in.layers, in.stages, in.vpp, in.counts, in.placement)
      [] in.by = "megatron"  ->
           ParseMegatronStyleLayout(in.text, in.layers, in.stages, in.vpp)
      [] in.by = "balance"   ->
           LET p == SuggestBalancedPartition(in.layers, in.stages, in.costs)
           IN  IF p = Refused THEN Refused
               ELSE BuildPipelineLayout(in.layers, in.stages, 1, p.partition, Unplaced)

(* The descriptions that are to be accepted, and those to be run.          *)
IsBoundary(p, stages) == BuildPlacement(p, stages) = BuildPlacement(Unplaced, stages)

Describes(in) ==
    CASE in.by = "default"   -> IsBoundary(in.placement, in.stages)
      [] in.by = "partition" -> /\ Len(in.counts) = in.stages /\ in.vpp = 1
                                /\ FoldLeft(+, 0, in.counts) = in.layers
                                /\ \A i \in DOMAIN in.counts : in.counts[i] > 0
      [] in.by = "megatron"  -> IF in.text \in OddTexts
                                THEN \E g \in ToSet(in.text) : g.symbol = "("
                                ELSE /\ IsBoundary(in.placement, in.stages)
                                     /\ FoldLeft(+, 0, FlattenSeq(in.counts)) = in.layers
      [] in.by = "balance"   -> in.layers >= in.stages

Runnable(in) == in.by = "default" => in.layers >= in.stages * in.vpp

(* Model files: of GPT-2 with a padded vocabulary, its head counts equal   *)
(* or not; of LLaMA 3 with fewer heads for keys, of a size the rounding    *)
(* changes.  They are read under the default layout and a partition.       *)
GPT2Files ==
    {[family |-> "gpt2", block_size |-> 2, vocab_size |-> 6, padded_vocab_size |-> 8, n_layer |-> n,
      n_head |-> h, n_kv_head |-> 2, n_embd |-> 4, multiplier |-> <<1, 1>>, multiple_of |-> 1] :
        n \in 1..3, h \in {2, 4}}

LLaMA3Files ==
    {[family |-> "llama3", block_size |-> 2, vocab_size |-> 4, padded_vocab_size |-> 4, n_layer |-> n,
      n_head |-> 4, n_kv_head |-> kv, n_embd |-> 4, multiplier |-> m, multiple_of |-> 3] :
        n \in 1..4, kv \in {2, 4}, m \in {<<3, 2>>, <<13, 10>>}}

FileInputs ==
    {[about |-> "file", file |-> c, stages |-> s, vpp |-> v, counts |-> <<>>, tp_size |-> t] :
        c \in GPT2Files \cup LLaMA3Files, s \in 1..2, v \in 1..2, t \in {1, 2, 4}}
    \cup
    {[about |-> "file", file |-> c, stages |-> 2, vpp |-> 1, counts |-> <<1, c.n_layer - 1>>,
      tp_size |-> 2] : c \in GPT2Files \cup LLaMA3Files}

FileLayout(in) == BuildPipelineLayout(in.file.n_layer, in.stages, in.vpp, in.counts, Unplaced)

CanLoad(in) ==
    /\ FileLayout(in) # Refused
    /\ in.file.family = "gpt2" => in.file.n_head = in.file.n_kv_head
    /\ in.file.n_kv_head % in.tp_size = 0 /\ MLPHidden(in.file) % in.tp_size = 0

NetworkInputs == {[about |-> "network", name |-> n] : n \in NetworkNames}

(* A block of the transformer, with half as many heads of k and v as of q, *)
(* its projection of q, k and v alone, with as many, and one plain layer.  *)
(* max_trainings bounds the steps trained, max_starts how often the        *)
(* adapters are unloaded or the program is started again.                  *)
AdapterConfigs ==
    LET one == [paths |-> Plain, n_embd |-> 2, n_hidden |-> 2, n_head |-> 2, n_kv_head |-> 2,
                sizes |-> {1}, max_trainings |-> 2, max_starts |-> 2]
    IN  {[one EXCEPT !.paths = Block, !.n_embd = 4, !.n_head = 4, !.sizes = {1, 2},
                     !.max_trainings = 1, !.max_starts = 1],
         [one EXCEPT !.paths = {<<"attn", "c_attn">>}, !.n_embd = 4, !.n_head = 4, !.n_kv_head = 4,
                     !.sizes = {2, 4}],
         one}

AdapterInputs ==
    UNION {{[about |-> "adapters", config |-> c, size |-> n] : n \in c.sizes} : c \in AdapterConfigs}

NotComputed == [about |-> "none"]

Init ==
    \/ LocalInit
    \/ /\ input \in ChainedInputs \cup FunctionInputs \cup PipelineLayoutInputs \cup FileInputs
                     \cup NetworkInputs \cup AdapterInputs
       /\ output = NotComputed

Compute ==
    /\ output = NotComputed
    /\ input.about \in {"chained", "function", "layers", "file", "network", "adapters"}
    /\ output' = [about  |-> input.about,
                  result |-> CASE input.about = "chained"  -> ChainedRates(input)
                               [] input.about = "function" -> Results[input]
                               [] input.about = "layers"   -> LayoutOf(input)
                               [] input.about = "file"     ->
                                    LoadedModels(input.file, FileLayout(input), input.tp_size)
                               [] input.about = "network"  -> Begun(Networks[input.name])
                               [] input.about = "adapters" ->
                                    Started(input.config, input.size, LoRAConfigOf(1, SomeTargets))]
    /\ UNCHANGED input

(* One more node of a network, forward or backward.                        *)
Advance ==
    /\ output.about = "network" /\ ~IsOver(output.result)
    /\ output' = [output EXCEPT !.result = Further(output.result)]
    /\ UNCHANGED input

(***************************************************************************)
(* What may be done next with a model and its adapters.  GetLoRAModel      *)
(* refuses a merged module, and adapters that are loaded under merged      *)
(* weights cannot be unmerged again.                                       *)
(***************************************************************************)
Job == output.result
HasAdapters == output.about = "adapters" /\ ~HasCrashed(Job)
Become(job) == output' = [output EXCEPT !.result = job] /\ UNCHANGED input

Train == HasAdapters /\ Job.trainings < Job.config.max_trainings /\ Become(Trained(Job))
Merge == HasAdapters /\ Become(MergedJob(Job))
Unmerge == HasAdapters /\ Become(UnmergedJob(Job))
Unload == HasAdapters /\ Job.starts < Job.config.max_starts /\ Become(Unloaded(Job))
Save == HasAdapters /\ Become(Saved(Job))
Load == HasAdapters /\ ~SomeMerged(Job) /\ Job.files # NoFile /\ Become(Loaded(Job))
Inject ==
    /\ HasAdapters /\ ~SomeMerged(Job)
    /\ \E targets \in {SomeTargets, AllTargets} : Become(Injected(Job, targets))
Restart ==
    /\ HasAdapters /\ Job.starts < Job.config.max_starts /\ Job.files # NoFile
    /\ \E n \in Job.config.sizes, rank \in 1..2, targets \in {SomeTargets, AllTargets} :
          Become(Restarted(Job, n, LoRAConfigOf(rank, targets)))

Next ==
    \/ ComputeLocally \/ Compute \/ Advance
    \/ Train \/ Merge \/ Unmerge \/ Unload \/ Inject \/ Save \/ Load \/ Restart

Spec == Init /\ [][Next]_vars

-----------------------------------------------------------------------------
(* The kernels of kernels/cpu and kernels/cuda, in float and in bf16: the  *)
(* outputs and gradients of a call are the same on every device, whatever  *)
(* vectors, warps, blocks and BLAS layouts are used for it, except that    *)
(* between the CPU and CUDA exactly those in KnownDifferences differ, each *)
(* at a kernel named there.  Exp's gradient, undefined, is not compared.   *)
KernelsAgree ==
    output.about = "function" =>
        \A dev, other \in Devices :
            Differences(input.op, output.result[dev], output.result[other])
                = IF dev # other /\ "cpu" \in {dev, other} THEN KnownDifferences(input) ELSE {}

(* Forward and Backward of the classes of autograd/: every element of a    *)
(* result and of a gradient is written, and the gradients are those of     *)
(* what Forward computed: they predict how it changes with its inputs.     *)
(* They do not, of the calls made, for exactly the devices WrongGradients  *)
(* names: CUDA's for a bias, a layer norm and a small index of a gather,   *)
(* the CPU's for a reduction over an inner dimension.  Exp is not in it.   *)
GradientsPredictChanges ==
    output.about = "function" =>
        \A dev \in Devices :
            output.result[dev].grads # <<>> =>
                (IsDifferentiated(output.result[dev]) <=> dev \notin WrongGradients(input))

(* PipelineLayout, TransformerModel, PipelineParallel and the schedulers   *)
(* "query one layout": a layout is built exactly from the descriptions it  *)
(* should be, also from the suggested partitions; the chunks then run      *)
(* every module of the model once and in its order, a layer has the same   *)
(* number for the stage that registers it and for the loaders, and         *)
(* GetStageInfo divides the layers the same way.                           *)
LayersPlaced ==
    output.about = "layers" =>
        LET l == output.result IN
        /\ (l # Refused) = Describes(input)
        /\ l # Refused => (Executed(l) # Refused) = Runnable(input)
        /\ l # Refused /\ Runnable(input) => RunsModel(l)
        /\ l # Refused /\ input.by = "default" =>
              \A s \in 0..l.stages - 1 :
                  LET own == ChunksOfStage(l, s)
                  IN  GetStageInfo(l.layers, l.stages, s, l.vpp)
                      = [i \in DOMAIN own |-> <<own[i].start, own[i].end>>]

(* LoadFromLLMC of gpt2 and llama3: whatever stages, chunks and tensor-    *)
(* parallel ranks a model is divided among, every parameter of every rank  *)
(* gets its own part of its own layer's tensor from the file, although a   *)
(* rank finds it by what it skips, and computes all sizes again.           *)
WeightsPlaced ==
    output.about = "file" =>
        /\ (output.result # Refused) = CanLoad(input)
        /\ CanLoad(input) =>
              ArePlaced(output.result.models, input.file, FileLayout(input), input.tp_size)

(* tensor_parallel.cc, nn/modules/transformer, moe/ and nn/lora: a network *)
(* that the ranks of a tensor-parallel group share computes the loss that  *)
(* one process computes, and every parameter gets its part of the same     *)
(* gradient: the parallel layers exchange what they must and nothing       *)
(* twice, the vocabulary's padding does not count, the experts get and     *)
(* give back the right tokens, and merged adapters change nothing.         *)
RanksComputeOneModel ==
    output.about = "network" /\ IsOver(output.result) => RanksAgree(output.result)

(* lora_linear.cc, lora_parallel_linear.cc and lora_utils.cc: after any    *)
(* sequence of training, merging, unmerging, saving, loading and starting  *)
(* again, on any number of ranks, the ranks have their parts of the one    *)
(* model that one process has, and every adapter counts once.  The program *)
(* ends only where it is given adapters of another rank.                   *)
AdaptersTravel ==
    output.about = "adapters" =>
        LET job == output.result
        IN  IF HasCrashed(job)
            THEN job.misfit /\ \A k \in DOMAIN job.models : job.models[k] = Crashed
            ELSE ~job.misfit /\ AreOneModel(job)

(* docs/lora_usage_guide.md: UnmergeLoRAWeights makes the adapters         *)
(* trainable again: a step of training changes lora_B of every adapter     *)
(* that has requires_grad, whatever was done with it before.               *)
TrainableAdaptersTrain ==
    output.about = "adapters" /\ ~HasCrashed(Job) =>
        LET before == Job.models.whole
            after  == Trained(Job).models.whole
        IN  \A p \in LoRAPaths(before) :
                before[p].lora_grad => after[p].lora_B # before[p].lora_B

(* LinearBackwardBias, kernels/cuda/linear.cu: "d_bias = sum_i(i=0, bs-1)  *)
(* d_output[i]".                                                           *)
BiasGradientSums ==
    output.about = "function" /\ input.op = "LinearBias" =>
        \A dev \in Devices :
            LET f == output.result[dev]
                out == NumElements(f.inputs[3].dims)
            IN  \A j \in 0..out - 1 :
                    f.grads[3].el[j] = Sum([i \in 0..Rows(f.outputs[1]) - 1 |->
                                               GradOutput(1, f.outputs[1].dims).el[i * out + j]])
=============================================================================
