---------------------------- MODULE ProcessGroups ----------------------------
(***************************************************************************)
(* A run of the launcher (tools/infini_run) from fork to the last wait:    *)
(* it starts the processes of its node, every process runs its threads,    *)
(* every thread gets the process groups it belongs to from the factory of  *)
(* its process, and the processes of a group meet over a file with the     *)
(* communicator's unique id and then in the communicator's initialisation. *)
(* Any process may be killed at any moment.                                *)
(*                                                                         *)
(* The file system is shared by all nodes; runs before this one may have   *)
(* left files in it.  Training itself is one collective over all ranks.    *)
(***************************************************************************)
EXTENDS Integers, Sequences, FiniteSets, SequencesExt, RankLayout

CONSTANTS
    Configs,    \* [nodes, procs per node, threads per process, tp, pp, valid]
    MaxFaults,  \* bound: processes killed and forks that fail
    StaleRuns   \* ids of earlier runs that left files behind

ASSUME ProcessGroupsAssumption ==
    /\ \A c \in Configs :
          /\ {c.nodes, c.procs, c.threads, c.tp, c.pp} \subseteq Nat \ {0}
          /\ (c.nodes * c.procs * c.threads) % (c.tp * c.pp) = 0
          /\ c.valid \in BOOLEAN
    /\ MaxFaults \in Nat
    /\ "this" \notin StaleRuns

VARIABLES
    config,
    launcher, \* node -> "fork", "wait" or "exited"
    forked,   \* node -> children started so far
    code,     \* node -> exit_code
    proc,     \* process -> "unborn", "running", "exited" or "reaped"
    status,   \* process -> its exit status
    dying,    \* processes that SIGTERM was sent to
    pc,       \* rank -> where its thread is
    at,       \* rank -> which of its groups it is getting
    groups,   \* process -> name_to_group_: name -> Pending or a communicator
    files,    \* path -> content
    given,    \* name -> process -> what it passed to CommInitRank
    faults

vars == <<config, launcher, forked, code, proc, status, dying, pc, at,
          groups, files, given, faults>>

launchVars == <<launcher, forked, code>>
procVars   == <<proc, status, dying, faults>>

Nodes     == 0..config.nodes - 1
Processes == 0..config.nodes * config.procs - 1
Ranks     == 0..config.nodes * config.procs * config.threads - 1
NodeOf(p)    == p \div config.procs
ProcessOf(r) == r \div config.threads
ThreadsOf(p) == {r \in Ranks : ProcessOf(r) = p}

-----------------------------------------------------------------------------
(***************************************************************************)
(* The groups a thread gets, in order: the factory's constructor makes the *)
(* default one, over all ranks, and Train asks for those of its axes.      *)
(***************************************************************************)
Default == [axis |-> "default", id |-> 0]

GroupsIn(c) ==
    LET world == c.nodes * c.procs * c.threads
        sizes == LayoutSizes(world, c.tp, c.pp)
        along(r, axis) ==
            [name  |-> [axis |-> axis, id |-> GroupId(sizes, axis, CoordOf(sizes, r))],
             ranks |-> GroupRanks(sizes, axis, CoordOf(sizes, r))]
        asked(r, axis) == IF sizes[axis] > 1 THEN <<along(r, axis)>> ELSE <<>>
    IN  [r \in 0..world - 1 |->
            <<[name |-> Default, ranks |-> [i \in 1..world |-> i - 1]]>>
            \o asked(r, "DP") \o asked(r, "TP") \o asked(r, "PP")]

GroupTable == [c \in Configs |-> GroupsIn(c)]

GroupsOf(r) == GroupTable[config][r]
Name(r)     == GroupsOf(r)[at[r]].name
Members(r)  == GroupsOf(r)[at[r]].ranks

(* Several processes meet over files; one process alone does not. *)
SingleProcess == config.nodes = 1 /\ config.procs = 1

(* is_main_process_: the one that holds the group's smallest rank. *)
IsMain(r) == ProcessOf(Min(ToSet(Members(r)))) = ProcessOf(r)

(* ccl_utils.cc: INFINI_RUN_ID is part of the file's name. *)
FileNameOfAnyRun(run, name) == [run |-> "any", name |-> name, type |-> "bin"]
UniqueIdFileName(run, name)    == [run |-> run, name |-> name, type |-> "bin"]
UniqueIdTmpFileName(run, name) == [run |-> run, name |-> name, type |-> "tmp"]

(* GetUniqueId: another one for every call. *)
UniqueId(r) == [run |-> "this", by |-> ProcessOf(r), name |-> Name(r)]
StaleId   == [run |-> "old", by |-> 0, name |-> Default]
Truncated == [run |-> "none", by |-> 0, name |-> Default]

Pending == [ranks |-> <<>>]

Put(f, k, v) == [x \in DOMAIN f \cup {k} |-> IF x = k THEN v ELSE f[x]]
Without(f, S) == [x \in DOMAIN f \ S |-> f[x]]

Init ==
    /\ config \in Configs
    /\ launcher = [n \in Nodes |-> "fork"]
    /\ forked = [n \in Nodes |-> 0] /\ code = [n \in Nodes |-> 0]
    /\ proc = [p \in Processes |-> "unborn"] /\ status = [p \in Processes |-> 0]
    /\ dying = {}
    /\ pc = [r \in Ranks |-> "get"] /\ at = [r \in Ranks |-> 1]
    /\ groups = [p \in Processes |-> [n \in {} |-> Pending]]
    /\ \E left \in SUBSET {UniqueIdFileName(run, Default) : run \in StaleRuns} :
          files = [f \in left |-> StaleId]
    /\ given = [n \in {} |-> <<>>]
    /\ faults = 0

-----------------------------------------------------------------------------
(***************************************************************************)
(* A thread.  GetOrCreate leaves a placeholder under the mutex, makes the  *)
(* group without it and puts it in; whoever finds the placeholder waits.   *)
(* For the default group the factory's own mutex does the same.            *)
(***************************************************************************)
Live(r) == proc[ProcessOf(r)] = "running"

Found(r) == Name(r) \in DOMAIN groups[ProcessOf(r)]

NextGroup(r) ==
    IF at[r] < Len(GroupsOf(r))
    THEN pc' = [pc EXCEPT ![r] = "get"] /\ at' = [at EXCEPT ![r] = @ + 1]
    ELSE pc' = [pc EXCEPT ![r] = "train"] /\ UNCHANGED at

GetsGroup(r) ==
    /\ Live(r) /\ pc[r] = "get" /\ Found(r)
    /\ groups[ProcessOf(r)][Name(r)] # Pending
    /\ NextGroup(r)
    /\ UNCHANGED <<config, launchVars, procVars, groups, files, given>>

CreatesGroup(r) ==
    /\ Live(r) /\ pc[r] = "get" /\ ~Found(r)
    /\ groups' = [groups EXCEPT ![ProcessOf(r)] = Put(@, Name(r), Pending)]
    /\ pc' = [pc EXCEPT ![r] = IF SingleProcess THEN "publish"
                               ELSE IF IsMain(r) THEN "write" ELSE "poll"]
    /\ UNCHANGED <<config, launchVars, procVars, at, files, given>>

(* WriteUniqueIdFile: written under another name, then renamed. *)
WriteTmpFile(r) ==
    /\ Live(r) /\ pc[r] = "write"
    /\ files' = Put(files, UniqueIdTmpFileName("this", Name(r)), Truncated)
    /\ pc' = [pc EXCEPT ![r] = "rename"]
    /\ UNCHANGED <<config, launchVars, procVars, at, groups, given>>

CommInitRank(r, uid) ==
    LET name == Name(r)
        old  == IF name \in DOMAIN given THEN given[name] ELSE <<>>
    IN  given' = Put(given, name, Put(old, ProcessOf(r), [uid |-> uid, ranks |-> Members(r)]))

RenameTmpFile(r) ==
    /\ Live(r) /\ pc[r] = "rename"
    /\ files' = Put(Without(files, {UniqueIdTmpFileName("this", Name(r))}),
                    UniqueIdFileName("this", Name(r)), UniqueId(r))
    /\ CommInitRank(r, UniqueId(r))
    /\ pc' = [pc EXCEPT ![r] = "init"]
    /\ UNCHANGED <<config, launchVars, procVars, at, groups>>

(* ReadUniqueIdFile polls for the file, then opens and reads it.  A CHECK  *)
(* that fails ends the process.                                            *)
PollFile(r) ==
    /\ Live(r) /\ pc[r] = "poll"
    /\ UniqueIdFileName("this", Name(r)) \in DOMAIN files
    /\ pc' = [pc EXCEPT ![r] = "read"]
    /\ UNCHANGED <<config, launchVars, procVars, at, groups, files, given>>

Readable(path) == path \in DOMAIN files /\ files[path] # Truncated

ReadFile(r) ==
    LET path == UniqueIdFileName("this", Name(r)) IN
    /\ Live(r) /\ pc[r] = "read"
    /\ \/ /\ Readable(path)
          /\ CommInitRank(r, files[path])
          /\ pc' = [pc EXCEPT ![r] = "init"]
          /\ UNCHANGED <<proc, status>>
       \/ /\ ~Readable(path)
          /\ pc' = [pc EXCEPT ![r] = "aborted"]
          /\ proc' = [proc EXCEPT ![ProcessOf(r)] = "exited"]
          /\ status' = [status EXCEPT ![ProcessOf(r)] = 134]
          /\ UNCHANGED given
    /\ UNCHANGED <<config, launchVars, dying, faults, at, groups, files>>

(* CommInitRank returns once all ranks of the group have called it with    *)
(* the same id.                                                            *)
Initialised(name, p) ==
    \A r \in ToSet(given[name][p].ranks) :
        /\ ProcessOf(r) \in DOMAIN given[name]
        /\ given[name][ProcessOf(r)].uid = given[name][p].uid

CommunicatorReady(r) ==
    /\ Live(r) /\ pc[r] = "init"
    /\ Initialised(Name(r), ProcessOf(r))
    /\ pc' = [pc EXCEPT ![r] = "publish"]
    /\ UNCHANGED <<config, launchVars, procVars, at, groups, files, given>>

(* The end of GetOrCreate, in the thread that created the group. *)
PublishGroup(r) ==
    /\ Live(r) /\ pc[r] = "publish"
    /\ groups' = [groups EXCEPT ![ProcessOf(r)] =
                      [@ EXCEPT ![Name(r)] = [ranks |-> Members(r)]]]
    /\ NextGroup(r)
    /\ UNCHANGED <<config, launchVars, procVars, files, given>>

(* Train with its collectives, which wait for every rank; or the layout is *)
(* refused, by every rank alike.                                           *)
Train(r) ==
    /\ Live(r) /\ pc[r] = "train"
    /\ pc' = [pc EXCEPT ![r] = IF config.valid THEN "collective" ELSE "done"]
    /\ UNCHANGED <<config, launchVars, procVars, at, groups, files, given>>

Trained(r) ==
    /\ Live(r) /\ pc[r] = "collective"
    /\ \A q \in Ranks : pc[q] \in {"collective", "done"}
    /\ pc' = [pc EXCEPT ![r] = "done"]
    /\ UNCHANGED <<config, launchVars, procVars, at, groups, files, given>>

(* main joins its threads and returns; the groups are destroyed with the   *)
(* factory, and the main process of a group removes its files.             *)
OwnFiles(p) ==
    {f \in DOMAIN files : /\ f.name \in DOMAIN groups[p]
                          /\ f \in {UniqueIdFileName("this", f.name),
                                     UniqueIdTmpFileName("this", f.name)}
                          /\ ProcessOf(Min(ToSet(groups[p][f.name].ranks))) = p}

Exit(p) ==
    /\ proc[p] = "running"
    /\ \A r \in ThreadsOf(p) : pc[r] = "done"
    /\ files' = IF SingleProcess THEN files ELSE Without(files, OwnFiles(p))
    /\ proc' = [proc EXCEPT ![p] = "exited"]
    /\ status' = [status EXCEPT ![p] = IF config.valid THEN 0 ELSE 2]
    /\ UNCHANGED <<config, launchVars, dying, faults, pc, at, groups, given>>

-----------------------------------------------------------------------------
(***************************************************************************)
(* The launcher of a node: it forks its children, then waits for each; the *)
(* first one that fails has it send SIGTERM to the rest.                   *)
(***************************************************************************)
Children(n) == {p \in Processes : NodeOf(p) = n /\ proc[p] \in {"running", "exited"}}

Fork(n) ==
    /\ launcher[n] = "fork"
    /\ forked[n] < config.procs
    /\ proc' = [proc EXCEPT ![n * config.procs + forked[n]] = "running"]
    /\ forked' = [forked EXCEPT ![n] = @ + 1]
    /\ UNCHANGED <<config, launcher, code, status, dying, faults, pc, at, groups, files, given>>

AllForked(n) ==
    /\ launcher[n] = "fork" /\ forked[n] = config.procs
    /\ launcher' = [launcher EXCEPT ![n] = "wait"]
    /\ UNCHANGED <<config, forked, code, procVars, pc, at, groups, files, given>>

ForkFails(n) ==
    /\ launcher[n] = "fork" /\ forked[n] < config.procs
    /\ faults < MaxFaults /\ faults' = faults + 1
    /\ code' = [code EXCEPT ![n] = 1]
    /\ dying' = dying \cup Children(n)
    /\ launcher' = [launcher EXCEPT ![n] = "wait"]
    /\ UNCHANGED <<config, forked, proc, status, pc, at, groups, files, given>>

(* The children TerminateChildren is called for after child p. *)
TerminatedNone(n, p) == {}
Terminated(n, p) ==
    IF status[p] # 0 /\ code[n] = 0 THEN Children(n) \ {p} ELSE {}

Reap(n, p) ==
    /\ launcher[n] = "wait" /\ p \in Children(n) /\ proc[p] = "exited"
    /\ proc' = [proc EXCEPT ![p] = "reaped"]
    /\ code' = [code EXCEPT ![n] = IF @ = 0 THEN status[p] ELSE @]
    /\ dying' = dying \cup Terminated(n, p)
    /\ UNCHANGED <<config, launcher, forked, status, faults, pc, at, groups, files, given>>

(* The end of main: on a single node the run's files are removed. *)
LauncherExits(n) ==
    /\ launcher[n] = "wait" /\ Children(n) = {}
    /\ launcher' = [launcher EXCEPT ![n] = "exited"]
    /\ files' = IF config.nodes = 1
                THEN Without(files, {f \in DOMAIN files : f.run = "this"}) ELSE files
    /\ UNCHANGED <<config, forked, code, procVars, pc, at, groups, given>>

(* SIGTERM arrives: no handler is set. *)
Die(p) ==
    /\ proc[p] = "running" /\ p \in dying
    /\ proc' = [proc EXCEPT ![p] = "exited"]
    /\ status' = [status EXCEPT ![p] = 143]
    /\ UNCHANGED <<config, launchVars, dying, faults, pc, at, groups, files, given>>

(* A process fails on its own at any moment: killed, or exec failed. *)
Kill(p) ==
    /\ proc[p] = "running"
    /\ faults < MaxFaults /\ faults' = faults + 1
    /\ proc' = [proc EXCEPT ![p] = "exited"]
    /\ status' = [status EXCEPT ![p] = 137]
    /\ UNCHANGED <<config, launchVars, dying, pc, at, groups, files, given>>

ThreadStep(r) ==
    \/ GetsGroup(r) \/ CreatesGroup(r) \/ WriteTmpFile(r) \/ RenameTmpFile(r)
    \/ PollFile(r) \/ ReadFile(r) \/ CommunicatorReady(r) \/ PublishGroup(r)
    \/ Train(r) \/ Trained(r)

LauncherStep(n) ==
    Fork(n) \/ AllForked(n) \/ (\E p \in Processes : Reap(n, p)) \/ LauncherExits(n)

AllExited == \A n \in Nodes : launcher[n] = "exited"

Next ==
    \/ \E r \in Ranks : ThreadStep(r)
    \/ \E p \in Processes : Exit(p) \/ Die(p) \/ Kill(p)
    \/ \E n \in Nodes : LauncherStep(n) \/ ForkFails(n)

(* Threads, launchers and signals make progress; kills and failing forks   *)
(* need not happen.                                                        *)
Progress ==
    \/ \E r \in Ranks : ThreadStep(r)
    \/ \E p \in Processes : Exit(p) \/ Die(p)
    \/ \E n \in Nodes : LauncherStep(n)

Spec == Init /\ [][Next]_vars /\ WF_vars(Progress)

-----------------------------------------------------------------------------
TypeOK ==
    /\ config \in Configs
    /\ launcher \in [Nodes -> {"fork", "wait", "exited"}]
    /\ forked \in [Nodes -> 0..config.procs]
    /\ code \in [Nodes -> {0, 1, 2, 134, 137, 143}]
    /\ proc \in [Processes -> {"unborn", "running", "exited", "reaped"}]
    /\ status \in [Processes -> {0, 2, 134, 137, 143}]
    /\ dying \subseteq Processes
    /\ pc \in [Ranks -> {"get", "write", "rename", "poll", "read", "init", "publish", "aborted",
                         "train", "collective", "done"}]
    /\ \A r \in Ranks : at[r] \in DOMAIN GroupsOf(r)
    /\ faults \in 0..MaxFaults

(* ProcessGroup's constructor and the factory: whoever is killed and       *)
(* whatever earlier runs left behind, the processes of a group pass the    *)
(* same ranks and the same id of this run to CommInitRank, and no CHECK of *)
(* ReadUniqueIdFile fails; and every rank trains in groups it belongs to,  *)
(* in which all their ranks are in one group of that name.                 *)
GroupsAgree ==
    /\ \A r \in Ranks : pc[r] # "aborted"
    /\ \A name \in DOMAIN given : \A p, q \in DOMAIN given[name] :
          /\ given[name][p] = given[name][q]
          /\ given[name][p].uid.run = "this"
    /\ \A r \in Ranks : pc[r] \in {"train", "collective", "done"} =>
          \A i \in DOMAIN GroupsOf(r) :
              LET own == GroupsOf(r)[i] IN
              /\ groups[ProcessOf(r)][own.name].ranks = own.ranks
              /\ r \in ToSet(own.ranks)
              /\ \A q \in ToSet(own.ranks) : own \in ToSet(GroupsOf(q))

ChildFailed(n)   == n \in Nodes /\ \E p \in Processes : NodeOf(p) = n /\ status[p] # 0
ReportsError(n)  == n \in Nodes /\ launcher[n] = "exited" /\ code[n] # 0
EndsAsItShould   == AllExited /\ \A n \in Nodes : (code[n] = 0) = config.valid
NothingLeft      == AllExited /\ config.nodes = 1 => \A f \in DOMAIN files : f.run # "this"

(* The launcher and what its children wait for (locks, placeholders,       *)
(* files, initialisations, collectives): without a fault every launcher    *)
(* ends and reports what training did; a launcher one of whose children    *)
(* failed ends with an error; and a single node leaves no file behind.     *)
RunEnds ==
    /\ <>(faults > 0 \/ EndsAsItShould)
    /\ \A n \in 0..1 : ChildFailed(n) ~> ReportsError(n)
    /\ []NothingLeft
=============================================================================
