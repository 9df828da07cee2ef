------------------------------ MODULE Pipeline ------------------------------
(***************************************************************************)
(* Pipeline-parallel training steps: PipelineSchedule::Step and            *)
(* StepMicroBatches (nn/parallel/pp/pipeline_schedule.cc) on every stage,  *)
(* with the point-to-point transfers of send_recv.cc and ProcessGroup.     *)
(*                                                                         *)
(* All sends and receives of a stage are enqueued on one communication     *)
(* stream and its compute stream waits for each of them                    *)
(* (WaitNonBlocking), so a stage is one sequential program on its device.  *)
(* A transfer carries no tag: a receive takes whatever the peer sends      *)
(* next.  How much a send may run ahead of its receive is up to the        *)
(* transport: capacity messages, 0 for a rendezvous.                       *)
(***************************************************************************)
EXTENDS PipelineSchedule

CONSTANTS
    Confs,       \* the configurations to run
    Iterations   \* bound: training steps

ASSUME PipelineAssumption ==
    /\ Confs \subseteq [stages : Nat \ {0, 1}, vpp : Nat \ {0}, mbs : Nat \ {0},
                        capacity : Nat]
    /\ Iterations \in Nat \ {0}

VARIABLES
    conf,  \* pipeline size, chunks per stage, micro-batches, transport capacity
    iter,  \* each stage's training step
    ops,   \* what the stage still has to do in this step
    chan,  \* messages sent and not yet received, by sender and receiver
    ran    \* tasks that have run, with the message each was run on
vars == <<conf, iter, ops, chan, ran>>

Chunks == conf.stages * conf.vpp
Stages == 0..(conf.stages - 1)

NextStage(s) == IF s = conf.stages - 1 THEN 0 ELSE s + 1   \* IsLastStage: peer 0
PrevStage(s) == IF s = 0 THEN conf.stages - 1 ELSE s - 1   \* IsFirstStage: the last

(* Whether a task starts with a receive and ends with a send.  A backward  *)
(* receives in ISend's Backward and sends in IRecv's.                      *)
Receives(c, t) == IF t.forward THEN t.chunk > 0 ELSE t.chunk < c.stages * c.vpp - 1
SendsLastToo(c, t) == IF t.forward THEN TRUE ELSE t.chunk > 0
Sends(c, t)    == IF t.forward THEN t.chunk < c.stages * c.vpp - 1 ELSE t.chunk > 0

Source(s, t) == IF t.forward THEN PrevStage(s) ELSE NextStage(s)
Target(s, t) == IF t.forward THEN NextStage(s) ELSE PrevStage(s)

(***************************************************************************)
(* The loop of StepMicroBatches over the schedule, on one stage: what the  *)
(* stage does, and which of two operations comes first.  A task sends its  *)
(* result before the next task.                                            *)
(***************************************************************************)
OpsOfStage(c, s) ==
    LET program == GPipeProgram(c.mbs, c.stages, c.vpp, s)
    IN  {[op |-> "run", task |-> t] : t \in program}
        \cup {[op |-> "send", task |-> t] : t \in {u \in program : Sends(c, u)}}

PrecedesSendFirst(a, b) ==
    Before(a.task, b.task) \/ (a.task = b.task /\ a.op = "send" /\ b.op = "run")

Precedes(a, b) ==
    Before(a.task, b.task) \/ (a.task = b.task /\ a.op = "run" /\ b.op = "send")

Id(s, t) == <<iter[s], t.forward, t.mb, t.chunk>>
NoMessage == <<>>

Init ==
    /\ conf \in Confs
    /\ iter = [s \in Stages |-> 1]
    /\ ops  = [s \in Stages |-> OpsOfStage(conf, s)]
    /\ chan = [s \in Stages |-> [d \in Stages |-> <<>>]]
    /\ ran  = {}

-----------------------------------------------------------------------------
NextOp(s) == CHOOSE o \in ops[s] : \A q \in ops[s] \ {o} : Precedes(o, q)
ToRun(s)  == ops[s] # {} /\ NextOp(s).op = "run"
ToSend(s) == ops[s] # {} /\ NextOp(s).op = "send"

Rest(s) == ops[s] \ {NextOp(s)}
Advanced(s) == [ops EXCEPT ![s] = Rest(s)]

(* A task that needs nothing from another stage.                           *)
RunLocal(s) ==
    /\ ToRun(s)
    /\ ~Receives(conf, NextOp(s).task)
    /\ ran' = ran \cup {<<Id(s, NextOp(s).task), NoMessage>>}
    /\ ops' = Advanced(s)
    /\ UNCHANGED <<conf, iter, chan>>

RoomForOneMore(s, d) == Len(chan[s][d]) <= conf.capacity

(* The transport takes messages up to its capacity.                        *)
Room(s, d) == Len(chan[s][d]) < conf.capacity

(* ProcessGroup::Send completes once the transport has taken the message.  *)
Send(s) ==
    LET t == NextOp(s).task
        d == Target(s, t)
    IN
    /\ ToSend(s)
    /\ Room(s, d)
    /\ chan' = [chan EXCEPT ![s][d] = Append(@, Id(s, t))]
    /\ ops'  = Advanced(s)
    /\ UNCHANGED <<conf, iter, ran>>

(* ProcessGroup::Recv, then the task on what came.                         *)
ReceiveAndRun(s) ==
    LET t == NextOp(s).task
        p == Source(s, t)
    IN
    /\ ToRun(s)
    /\ Receives(conf, t)
    /\ chan[p][s] # <<>>
    /\ ran'  = ran \cup {<<Id(s, t), Head(chan[p][s])>>}
    /\ chan' = [chan EXCEPT ![p][s] = Tail(@)]
    /\ ops'  = Advanced(s)
    /\ UNCHANGED <<conf, iter>>

(* Without buffering a send and its receive complete together.             *)
Rendezvous(s, d) ==
    LET sent == NextOp(s).task
        t    == NextOp(d).task
    IN
    /\ conf.capacity = 0
    /\ ToSend(s) /\ ToRun(d)
    /\ Receives(conf, t)
    /\ Target(s, sent) = d /\ Source(d, t) = s
    /\ ran' = ran \cup {<<Id(d, t), Id(s, sent)>>}
    /\ ops' = [ops EXCEPT ![s] = Rest(s), ![d] = Rest(d)]
    /\ UNCHANGED <<conf, iter, chan>>

(* Step is over: the optimizer runs and the next step starts.              *)
StartStep(s) ==
    /\ ops[s] = {}
    /\ iter[s] < Iterations
    /\ iter' = [iter EXCEPT ![s] = @ + 1]
    /\ ops'  = [ops EXCEPT ![s] = OpsOfStage(conf, s)]
    /\ UNCHANGED <<conf, chan, ran>>

AllDone == \A s \in Stages : iter[s] = Iterations /\ ops[s] = {}
Terminated == AllDone /\ UNCHANGED vars

StageStep(s) ==
    \/ RunLocal(s)
    \/ Send(s)
    \/ ReceiveAndRun(s)
    \/ \E d \in Stages : Rendezvous(s, d)
    \/ StartStep(s)

Next == (\E s \in Stages : StageStep(s)) \/ Terminated

(* A stage goes on while its device has something it can do.               *)
Spec == Init /\ [][Next]_vars /\ WF_vars(\E s \in Stages : StageStep(s))

-----------------------------------------------------------------------------
Ids == (1..Iterations) \X BOOLEAN \X Nat \X Nat

(* Type invariant.                                                         *)
TypeOK ==
    /\ conf \in Confs
    /\ iter \in [Stages -> 1..Iterations]
    /\ DOMAIN ops = Stages
    /\ \A s \in Stages : ops[s] \subseteq OpsOfStage(conf, s)
    /\ chan \in [Stages -> [Stages -> Seq(Ids)]]
    /\ \A s, d \in Stages : Len(chan[s][d]) <= conf.capacity
    /\ ran \subseteq Ids \X (Ids \cup {NoMessage})

(* What a task has to be run on.                                           *)
Wanted(id) ==
    LET i == id[1] mb == id[3] c == id[4] IN
    IF id[2] THEN IF c = 0 THEN NoMessage ELSE <<i, TRUE, mb, c - 1>>
    ELSE IF c = Chunks - 1 THEN NoMessage ELSE <<i, FALSE, mb, c + 1>>

(* IRecv/ISend: transfers are matched by order alone, and with virtual     *)
(* stages a pair of stages exchanges activations and gradients of several  *)
(* chunks both ways; every task still gets the activation or gradient of   *)
(* its own micro-batch and chunk, and of its own training step.            *)
InputsMatch == \A e \in ran : e[2] = Wanted(e[1])

(* Every message sent is received: none is left in a channel for the first *)
(* receive of a later training step to take.                               *)
NothingLeftOver ==
    (\A s, d \in Stages : ops[s] = {} /\ iter[s] = iter[d]) =>
        \A s, d \in Stages : chan[s][d] = <<>>

Flow == INSTANCE PipelineDataflow WITH
            shape <- [chunks |-> Chunks, mbs |-> conf.mbs],
            ran   <- {e[1] : e \in ran}

(* The stages together implement the dataflow of the model: GPipe order,   *)
(* layout and transport never run a chunk before its input exists, nor     *)
(* twice.                                                                  *)
ImplementsDataflow == Flow!Spec

(* A training step finishes on every stage with all tasks run: no cycle of *)
(* stages in which everyone waits for the next.                            *)
StepsFinish ==
    <>(/\ AllDone
       /\ Cardinality(ran) = Iterations * 2 * Chunks * conf.mbs)
=============================================================================
