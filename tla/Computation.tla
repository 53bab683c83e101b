----------------------------- MODULE Computation -----------------------------
(***************************************************************************)
(* What a logical job computes: a role that is sharded, over the parts of  *)
(* an input or a fixed number of times, its outputs reduced level by level *)
(* if it says so, and behind it a chain of roles that the planner fuses or *)
(* not.  Wherever the tasks run, and in whatever order they commit, the    *)
(* result must be the one that the roles compute when each is one task.    *)
(*                                                                         *)
(* A task that fails fails again when it is retried: the operations are    *)
(* functions of their inputs.                                              *)
(***************************************************************************)
EXTENDS Partition, Executors

CONSTANTS
    Program,    \* the jobs
    Content,    \* the bytes of each published object
    Resource,   \* where tasks run
    Near        \* pairs of resources within locality_rtt_ms of each other

ASSUME ComputationAssumption ==
    /\ Near \subseteq Resource \X Resource
    /\ \A p \in Near : <<p[2], p[1]>> \in Near

(* The inputs of a role's template that are published objects.             *)
ObjectId == {"object"} \X DOMAIN Content

(* A template.  Its artifact is a family ("builtin", "native", "wasi") and *)
(* an operation; a program of another family is taken to compute one of    *)
(* the builtin operations, which of them does not matter here.             *)
TaskTemplate ==
    [family : STRING, op : STRING, entry : STRING, effects : STRING,
     args : Seq(Nat), inputs : Seq(ObjectId)]

(* What validate_logical_job and validate_logical_job_objects have checked *)
(* of a job before it is planned.                                          *)
ASSUME ProgramAssumption ==
    \A j \in Program :
       /\ Content[j.source] \in Seq(0..(Base - 1))
       /\ j.auto \in BOOLEAN /\ j.byRecords \in BOOLEAN
       /\ j.shards \in Nat \ {0}
       /\ j.byRecords => /\ j.offsets \in Seq(Nat)
                         /\ ValidRecordOffsets(j.offsets, Len(Content[j.source]))
       /\ j.reduce # "none" => j.fanIn \in Nat /\ j.fanIn >= 2
       /\ j.chain \in Seq(TaskTemplate)

VARIABLES
    job,       \* the job, a member of Program
    phase,     \* "planning", "shards", "reducing", "chain", "done", "stopped"
    groups,    \* the inputs of each task of the current reduction level
    items,     \* the outputs of the current level's tasks, in order
    next       \* the position in the chain of the role that is next

vars == <<job, phase, groups, items, next>>

(* An object: its bytes and the resource that produced it.                 *)
Object(bytes, r) == [bytes |-> bytes, at |-> r]
Waiting == [bytes |-> <<>>, at |-> "none"]

-----------------------------------------------------------------------------
(* The planner.                                                            *)

Source(j) == Content[j.source]

Units(j) ==
    IF j.auto THEN PartitionUnits(j.byRecords, j.offsets, Len(Source(j))) ELSE j.shards

(* choose_auto_shards tries each count up to the bound and keeps the       *)
(* fastest; a fixed policy gives the count.                                *)
ShardCounts(j) == IF j.auto THEN 1..MaxCount(j.shards, Units(j)) ELSE {j.shards}

(* instantiate_shard_task: the cut of shard i, counted from 1, of count.   *)
ShardCut(j, i, count) ==
    ConcretePartition(j.byRecords, j.offsets, Len(Source(j)), i - 1, count)

(* reduction_inputs_are_local.                                             *)
Local(x, y) == x.at = y.at \/ <<x.at, y.at>> \in Near

Chunks(inputs, size) ==
    [c \in 1..((Len(inputs) + size - 1) \div size) |->
        SubSeq(inputs, (c - 1) * size + 1,
               IF c * size < Len(inputs) THEN c * size ELSE Len(inputs))]

(* A mutant: inputs are grouped by where they are, not only neighbours.    *)
MutantGroupedByPlace(inputs, fanIn) ==
    LET sorted == SelectSeq(inputs, LAMBDA x : x.at = inputs[1].at)
                  \o SelectSeq(inputs, LAMBDA x : x.at # inputs[1].at)
    IN  Chunks(sorted, fanIn)

(* The groups with x in the last one, if it is local to all that are in it *)
(* and there is room, or else in a new one.                                *)
Extended(gs, x, fanIn) ==
    LET last == Last(gs)
    IN  IF gs # <<>> /\ Len(last) < fanIn /\ \A i \in DOMAIN last : Local(last[i], x)
        THEN [gs EXCEPT ![Len(gs)] = Append(@, x)]
        ELSE Append(gs, <<x>>)

(* reduction_groups: neighbours that are all local to each other, or else, *)
(* if no two are, as many as the fan-in allows.                            *)
LocalGroups(inputs, fanIn) ==
    LET after[n \in 0..Len(inputs)] ==
          IF n = 0 THEN <<>> ELSE Extended(after[n - 1], inputs[n], fanIn)
    IN  after[Len(inputs)]

ReductionGroups(inputs, fanIn) ==
    LET local == LocalGroups(inputs, fanIn)
    IN  IF \E i \in DOMAIN local : Len(local[i]) > 1 THEN local
        ELSE Chunks(inputs, fanIn)

(* pipeline_external_bindings: the task's inputs without repetitions.      *)
AddNew(seen, x) == IF x \in Range(seen) THEN seen ELSE Append(seen, x)

Distinct(ids) ==
    LET after[n \in 0..Len(ids)] ==
          IF n = 0 THEN <<>> ELSE AddNew(after[n - 1], ids[n])
    IN  after[Len(ids)]

Binding(external, id) == External(CHOOSE i \in DOMAIN external : external[i] = id)

(* fusable_template: the planner looks at effects and family, not at the   *)
(* entrypoint.                                                             *)
FusableTemplate(t) == t.effects = "Pure" /\ t.family = "builtin"

Stage(t, inputs) ==
    [family |-> t.family, op |-> t.op, entry |-> t.entry, args |-> t.args,
     inputs |-> inputs]

PipelineTask(external, stages) ==
    [artifact |-> "plurifold:pipeline", entry |-> "run", effects |-> "Pure",
     inputs |-> external, stages |-> stages]

(* A mutant: an input is bound by its place among its stage's own inputs,  *)
(* not among the task's.                                                   *)
MutantIndexPerStage(templates, deps) ==
    LET own(i) == IF i = 1 THEN templates[1].inputs \o deps ELSE templates[i].inputs
        external == Distinct(FlattenSeq([i \in DOMAIN templates |-> own(i)]))
        bindings(i) == [k \in DOMAIN own(i) |-> External(k)]
        previous(i) == IF i = 1 THEN <<>> ELSE <<PreviousOutput>>
    IN  PipelineTask(external, [i \in DOMAIN templates |->
                                  Stage(templates[i], bindings(i) \o previous(i))])

(* fused_pipeline_task: the first stage has its template's inputs and the  *)
(* dependencies', each later one its template's and the previous output.   *)
FusedPipelineTask(templates, deps) ==
    LET own(i) == IF i = 1 THEN templates[1].inputs \o deps ELSE templates[i].inputs
        external == Distinct(FlattenSeq([i \in DOMAIN templates |-> own(i)]))
        bindings(i) == [k \in DOMAIN own(i) |-> Binding(external, own(i)[k])]
        previous(i) == IF i = 1 THEN <<>> ELSE <<PreviousOutput>>
    IN  PipelineTask(external, [i \in DOMAIN templates |->
                                  Stage(templates[i], bindings(i) \o previous(i))])

(* validate_task of a pipeline.                                            *)
ValidPipeline(task) ==
    /\ task.artifact = "plurifold:pipeline" /\ task.entry = "run"
    /\ task.effects = "Pure"
    /\ Len(task.stages) >= 2
    /\ \A i \in DOMAIN task.stages :
          LET stage == task.stages[i]
              inputs == stage.inputs
          IN  /\ stage.family = "builtin" /\ stage.entry = "run"
              /\ Cardinality({k \in DOMAIN inputs : inputs[k] = PreviousOutput})
                   = IF i = 1 THEN 0 ELSE 1
              /\ \A k \in DOMAIN inputs :
                    inputs[k] = PreviousOutput \/ inputs[k].index <= Len(task.inputs)

-----------------------------------------------------------------------------
(* Tasks.                                                                  *)

(* What shard i of count reads: its part of the source, or all of it.      *)
ShardInput(j, i, count) ==
    LET cut == ShardCut(j, i, count)
    IN  IF j.auto THEN SubSeq(Source(j), cut.offset + 1, cut.offset + cut.length)
        ELSE Source(j)

ShardOutcome(j, i, count) ==
    ExecuteBuiltin(j.op, j.args, <<ShardInput(j, i, count)>>, Shard(i - 1, count))

(* A reducer has nothing but the outputs that it reduces.                  *)
ReduceOutcome(j, inputs) == ExecuteBuiltin(j.reduce, <<>>, inputs, NoShard)

(* The bytes of the objects in a sequence.                                 *)
Bytes(s) == [i \in DOMAIN s |-> s[i].bytes]

(* The ids of the outputs that the next role depends on, and the bytes     *)
(* behind an id, which is <<"output", i>> or <<"object", name>>.           *)
Dependencies == [i \in DOMAIN items |-> <<"output", i>>]
BytesOf(id) == IF id[1] = "output" THEN items[id[2]].bytes ELSE Content[id[2]]

(* The output that a task of the chain has for the inputs ids.             *)
Separate(template, ids) ==
    ExecuteBuiltin(template.op, template.args, [i \in DOMAIN ids |-> BytesOf(ids[i])],
                   NoShard)

Fused(task) ==
    ExecutePipeline(task.stages,
                    [i \in DOMAIN task.inputs |-> BytesOf(task.inputs[i])], NoShard)

-----------------------------------------------------------------------------
(* Steps.                                                                  *)

PlanShards(count) ==
    /\ phase = "planning" /\ count \in ShardCounts(job)
    /\ phase' = "shards"
    /\ items' = [i \in 1..count |-> Waiting]
    /\ UNCHANGED <<job, groups, next>>

(* The outputs of a level are new.  When they are all there, they are      *)
(* reduced once more, a group of one carried over, or passed on.           *)
Advance(new) ==
    LET complete == Waiting \notin Range(new)
        level == ReductionGroups(new, job.fanIn)
    IN  IF complete /\ job.reduce # "none" /\ Len(new) > 1
        THEN /\ phase' = "reducing"
             /\ groups' = level
             /\ items' = [i \in DOMAIN level |->
                            IF Len(level[i]) = 1 THEN level[i][1] ELSE Waiting]
        ELSE /\ phase' = IF complete THEN "chain" ELSE phase
             /\ items' = new
             /\ UNCHANGED groups

Stop == phase' = "stopped" /\ UNCHANGED <<groups, items>>

(* Shard i runs on r and commits.                                          *)
RunShard(i, r) ==
    /\ phase = "shards" /\ i \in DOMAIN items /\ items[i] = Waiting
    /\ LET outcome == ShardOutcome(job, i, Len(items))
       IN  IF outcome.ok THEN Advance([items EXCEPT ![i] = Object(outcome.bytes, r)])
           ELSE Stop
    /\ UNCHANGED <<job, next>>

(* The reduction of group i runs on r and commits.                         *)
RunReduction(i, r) ==
    /\ phase = "reducing" /\ i \in DOMAIN items /\ items[i] = Waiting
    /\ LET outcome == ReduceOutcome(job, Bytes(groups[i]))
       IN  IF outcome.ok THEN Advance([items EXCEPT ![i] = Object(outcome.bytes, r)])
           ELSE Stop
    /\ UNCHANGED <<job, next>>

(* The planner may fuse these roles, and submit_task takes what it makes   *)
(* of them.  A pipeline that is refused changes nothing here (Jobs has     *)
(* what it does to the job).                                               *)
MayFuse(templates) == \A i \in DOMAIN templates : FusableTemplate(templates[i])

Submitted(templates) ==
    MayFuse(templates) /\ ValidPipeline(FusedPipelineTask(templates, Dependencies))

(* The next n roles of the chain, as one task if there are several, run on *)
(* r and commit.                                                           *)
RunChain(n, r) ==
    /\ phase = "chain" /\ next + n - 1 <= Len(job.chain)
    /\ n > 1 => Submitted(SubSeq(job.chain, next, next + n - 1))
    /\ LET templates == SubSeq(job.chain, next, next + n - 1)
           outcome == IF n = 1
                      THEN Separate(templates[1], templates[1].inputs \o Dependencies)
                      ELSE Fused(FusedPipelineTask(templates, Dependencies))
       IN  IF ~outcome.ok THEN Stop
           ELSE /\ items' = <<Object(outcome.bytes, r)>>
                /\ phase' = IF next + n > Len(job.chain) THEN "done" ELSE "chain"
                /\ UNCHANGED groups
    /\ next' = next + n
    /\ UNCHANGED job

Init ==
    /\ job \in Program
    /\ phase = "planning"
    /\ groups = <<>>
    /\ items = <<>>
    /\ next = 1

Next ==
    \/ \E count \in ShardCounts(job) : PlanShards(count)
    \/ \E r \in Resource :
         \/ \E i \in DOMAIN items : RunShard(i, r) \/ RunReduction(i, r)
         \/ \E n \in DOMAIN job.chain : RunChain(n, r)

Spec == Init /\ [][Next]_vars

-----------------------------------------------------------------------------
(* What a job asks for.                                                    *)

(* The outputs of the shards after lo, up to hi, of a fixed number.        *)
AllShards(j, lo, hi) ==
    LET outcome(i) == ShardOutcome(j, lo + i, j.shards)
    IN  IF \E i \in 1..(hi - lo) : ~outcome(i).ok THEN Fail
        ELSE ExecuteBuiltin("concat", <<>>, [i \in 1..(hi - lo) |-> outcome(i).bytes], NoShard)

(* The sharded role as one task; a role with a fixed number of shards has  *)
(* no such task, and there it is all shards, in order.                     *)
AsOneTask(j) ==
    IF j.auto THEN ExecuteBuiltin(j.op, j.args, <<Source(j)>>, Shard(0, 1))
    ELSE AllShards(j, 0, j.shards)

(* The job with every role one task: what is there after n of the chain.   *)
RoleOutcome(t, deps) ==
    ExecuteBuiltin(t.op, t.args, [i \in DOMAIN t.inputs |-> Content[t.inputs[i][2]]] \o deps,
                   NoShard)

(* What the role makes of the units after lo, up to hi, as one task.       *)
Position(j, unit) == IF j.byRecords THEN j.offsets[unit + 1] ELSE unit
UnitsBytes(j, lo, hi) == SubSeq(Source(j), Position(j, lo) + 1, Position(j, hi))

RangeOutcome(j, lo, hi) ==
    IF j.auto THEN ExecuteBuiltin(j.op, j.args, <<UnitsBytes(j, lo, hi)>>, Shard(0, 1))
    ELSE AllShards(j, lo, hi)

(* A shard of a role that is sharded automatically is the role over its    *)
(* part: the operation does not look at the shard's number.                *)
ShardsAreParts(j) ==
    j.auto => \A lo, hi \in 0..Units(j), count \in ShardCounts(j) :
       \A i \in 1..count :
          lo <= hi => ExecuteBuiltin(j.op, j.args, <<UnitsBytes(j, lo, hi)>>, Shard(i - 1, count))
                        = RangeOutcome(j, lo, hi)

(* What fails over a part fails over the whole.                            *)
FailsWithPart(j) ==
    \A lo, hi \in 0..Units(j) :
       lo < hi /\ ~RangeOutcome(j, lo, hi).ok => ~AsOneTask(j).ok

(* The outcomes over m ranges, where b says they begin and end.            *)
Ranges(j, b, m) == [i \in 1..m |-> RangeOutcome(j, b[i - 1], b[i])]
Succeed(j, b, m) == \A i \in 1..m : b[i - 1] < b[i] /\ RangeOutcome(j, b[i - 1], b[i]).ok

(* RoleReductionSpec: regrouping adjacent inputs may change the tree shape *)
(* but not the result, which is what the role makes of all the ranges.     *)
OrderedAssociative(j) ==
    \A m \in 2..j.fanIn : \A b \in [0..m -> 0..Units(j)] :
       Succeed(j, b, m) =>
          ReduceOutcome(j, Bytes(Ranges(j, b, m))) = RangeOutcome(j, b[0], b[m])

(* If there is no reducer, the next role takes the outputs of the shards   *)
(* for what they make together.                                            *)
ConsumerJoins(j) ==
    \A m \in ShardCounts(j) : \A b \in [0..m -> 0..Units(j)] :
       m > 1 /\ b[0] = 0 /\ b[m] = Units(j) /\ Succeed(j, b, m) =>
          RoleOutcome(j.chain[1], Bytes(Ranges(j, b, m)))
            = IF AsOneTask(j).ok THEN RoleOutcome(j.chain[1], <<AsOneTask(j).bytes>>)
              ELSE Fail

(* What whoever writes a job promises, and the code cannot check: that the *)
(* input is partitionable, the reducer ordered-associative, and that a     *)
(* consumer of many outputs wants them put together.                       *)
ASSUME DivisibleAssumption ==
    \A j \in Program :
       /\ ShardsAreParts(j) /\ FailsWithPart(j)
       /\ j.reduce # "none" => OrderedAssociative(j)
       /\ j.reduce = "none" /\ j.chain # <<>> => ConsumerJoins(j)

-----------------------------------------------------------------------------
(* Properties.                                                             *)

AsWritten(j) ==
    LET after[n \in 0..Len(j.chain)] ==
          IF n = 0 THEN AsOneTask(j)
          ELSE LET prev == after[n - 1]
               IN  IF prev.ok THEN RoleOutcome(j.chain[n], <<prev.bytes>>) ELSE Fail
    IN  after[Len(j.chain)]

(* A job that completes has the result of its roles as written: cutting    *)
(* the input, the order in which shards and reductions commit, the groups  *)
(* that locality makes and fusing the chain change nothing.                *)
ResultAsWritten == phase = "done" => Ok(items[1].bytes) = AsWritten(job)

(* A job whose tasks keep failing would fail as written too: sharding,     *)
(* reducing and fusing add no failure.                                     *)
FailsOnlyAsWritten == phase = "stopped" => ~AsWritten(job).ok

(* What the planner makes is not seen by validate_task until it is         *)
(* submitted, and a refused task ends the pass that submits it with an     *)
(* error.  The cut of every shard is admitted, and so is the pipeline of   *)
(* every run of fusable roles, however they share inputs, unless the       *)
(* entrypoint of one of them is not "run": that check alone is missing     *)
(* from fusable_template.                                                  *)
OnlyEntrypointRefused ==
    /\ (phase = "shards" /\ job.auto) =>
          \A i \in DOMAIN items : ValidCut(ShardCut(job, i, Len(items)), Len(Source(job)))
    /\ phase = "chain" =>
          \A n \in next..Len(job.chain) :
             LET templates == SubSeq(job.chain, next, n)
             IN  n > next /\ MayFuse(templates) =>
                   (ValidPipeline(FusedPipelineTask(templates, Dependencies))
                      <=> \A i \in DOMAIN templates : templates[i].entry = "run")

=============================================================================
