-------------------------- MODULE PipelineSchedule --------------------------
(***************************************************************************)
(* The pure part of nn/parallel/pp/pipeline_schedule.cc: which stage runs  *)
(* which task in which order.  Micro-batches, chunks and stages count from *)
(* 0, as in the code.  A task is one chunk's forward or backward for one   *)
(* micro-batch; the default layout deals the chunks out to the stages      *)
(* round robin (PipelineLayout::BuildDefault).                             *)
(***************************************************************************)
EXTENDS Integers, Sequences, FiniteSets, SequencesExt

(* The elements of a finite set in the order of a strict total order.      *)
InOrder(S, Precedes(_, _)) ==
    [i \in 1..Cardinality(S) |->
        CHOOSE x \in S : Cardinality({y \in S : Precedes(y, x)}) = i - 1]

StageOf(chunk, stages) == chunk % stages
LocalOf(chunk, stages) == chunk \div stages

(* CreateTask.                                                             *)
Task(step, mb, chunk, forward, stages) ==
    [step |-> step, mb |-> mb, chunk |-> chunk, forward |-> forward,
     stage |-> StageOf(chunk, stages), local |-> LocalOf(chunk, stages)]

BackwardChunkUnmirrored(totalSteps, step, mb) == step - mb

(* The chunk whose backward is due for micro-batch mb at a backward step:  *)
(* the wave of the forward pass, run back from its last step.              *)
BackwardChunk(totalSteps, step, mb) == (totalSteps - 1 - step) - mb

GPipeTasks(n, stages, vpp) ==
    LET chunks == stages * vpp
        total  == n + chunks - 1
        waves  == (0..(total - 1)) \X (0..(n - 1))
    IN  {Task(w[1], w[2], w[1] - w[2], TRUE, stages) :
             w \in {v \in waves : v[1] - v[2] \in 0..(chunks - 1)}}
        \cup
        {Task(w[1] + total, w[2], BackwardChunk(total, w[1], w[2]), FALSE, stages) :
             w \in {v \in waves : BackwardChunk(total, v[1], v[2]) \in 0..(chunks - 1)}}

(* std::sort by (step, local_chunk_idx).  Two tasks of one stage never     *)
(* compare equal, so the order within a stage does not depend on the sort. *)
Before(a, b) == a.step < b.step \/ (a.step = b.step /\ a.local < b.local)

(* What StepMicroBatches runs on one stage, in the order Before:           *)
(* GenerateGPipeSchedule without the tasks of the other stages.            *)
GPipeProgram(n, stages, vpp, stage) ==
    {t \in GPipeTasks(n, stages, vpp) : t.stage = stage}

(* The whole schedule, with micro-batches in turn where Before is silent.  *)
GPipeSchedule(n, stages, vpp) ==
    InOrder(GPipeTasks(n, stages, vpp),
        LAMBDA a, b : Before(a, b) \/ (~Before(b, a) /\ a.mb < b.mb))

(***************************************************************************)
(* GenerateInterleaved1F1BSchedule, which is not sorted: within a step the *)
(* micro-batches in turn, forward before backward.                         *)
(***************************************************************************)
OneForwardOneBackwardTasks(n, stages, vpp) ==
    LET chunks == stages * vpp
        warmup == chunks - 1
        waves  == (0..(2 * warmup + n - 1)) \X (0..(n - 1))
        back(v) == (chunks - 1) - (v[1] - warmup - v[2])
    IN  {Task(w[1], w[2], w[1] - w[2], TRUE, stages) :
             w \in {v \in waves : v[1] < warmup + n /\ v[1] - v[2] \in 0..(chunks - 1)}}
        \cup
        {Task(w[1], w[2], back(w), FALSE, stages) :
             w \in {v \in waves : v[1] >= warmup /\ back(v) \in 0..(chunks - 1)}}

OneForwardOneBackwardSchedule(n, stages, vpp) ==
    InOrder(OneForwardOneBackwardTasks(n, stages, vpp),
        LAMBDA a, b : \/ a.step < b.step
                      \/ a.step = b.step /\ a.mb < b.mb
                      \/ a.step = b.step /\ a.mb = b.mb /\ a.forward /\ ~b.forward)

-----------------------------------------------------------------------------
(* The task whose output a task needs: the previous chunk's forward, the   *)
(* next chunk's backward, or the forward of the last chunk.                *)
HasProducer(t) == ~t.forward \/ t.chunk > 0
IsProducer(p, t, chunks) ==
    /\ p.mb = t.mb
    /\ IF t.forward THEN p.forward /\ p.chunk = t.chunk - 1
       ELSE IF t.chunk = chunks - 1 THEN p.forward /\ p.chunk = t.chunk
       ELSE ~p.forward /\ p.chunk = t.chunk + 1

(* A schedule runs every chunk of every micro-batch once in each direction *)
(* and no task before the one it needs.                                    *)
IsSchedule(tasks, n, chunks) ==
    /\ \A mb \in 0..(n - 1) : \A c \in 0..(chunks - 1) : \A f \in BOOLEAN :
           Cardinality({i \in DOMAIN tasks :
               tasks[i].mb = mb /\ tasks[i].chunk = c /\ tasks[i].forward = f}) = 1
    /\ Len(tasks) = 2 * n * chunks
    /\ \A i \in DOMAIN tasks : HasProducer(tasks[i]) =>
           \E j \in 1..(i - 1) : IsProducer(tasks[j], tasks[i], chunks)
=============================================================================
