# Plurifold: TLA+ models, checks and proofs

Plurifold runs tasks on resources that join and leave at any time. A coordinator
keeps all state in memory behind one mutex; agents register, poll for work over
HTTP, execute it, and exchange objects directly with each other. This directory
models the coordinator's state machine, the agents' worker loop and data plane,
and what a job computes; it checks them with TLC on small instances and proves
the central promises with TLAPS for instances of any size.

## Inventory

| Component | State | Operations | Hard part |
|---|---|---|---|
| Membership (`plurifold-runtime` `Fabric`, coordinator) | `resources` with epoch and deadline, `data_endpoints` | register, heartbeat, expiry by the maintenance loop | deadlines against a wall clock; the loop reads the clock before it has the mutex; agents re-register after any failed heartbeat |
| Execution leases (`Fabric`) | `tasks` with `Pending`, `Running(lease)`, `Completed`, `Uncertain` | submit, poll (schedule and begin), renew, complete, reap | lost, late and repeated requests; attempts that outlive their membership; Exclusive work |
| Object directory (`Fabric`) | `objects` with identity and locations | publish, register replica, publish on completion, prune on expiry, resolve inputs | conflicting publications; replicas that leave |
| Role engine (`Fabric`) | `jobs` with role states, `task_roles`, active reductions | submit job, materialize ready roles, shard, fuse, reduce, mark uncertain, refresh on poll | roles advance from commits in any order, and are looked at again on every poll |
| Planner and scheduler | none | select implementation, resource, shard count, fused prefix, reduction groups | floating-point costs; partition arithmetic |
| Topology (coordinator, `core`) | `links`, `manual_links` | set by hand, report a measurement, prune on expiry | a late measurement against a manual override |
| Agent worker loop | membership lease, busy flag, renewal task | heartbeat, poll, execute, commit, probe | several timers and spawned tasks share one lease |
| Agent data plane, object store | content-addressed files | materialize input, serve ranges, put, get | falling over to another replica; a crash between write and rename |
| Executors | none that outlives a call | builtin operations, pipelines of them, native and WASI programs | results must not depend on how a role is cut, reduced or fused; sums overflow |
| CLI, protocol types | none | one request; serialize | I/O only |

Handlers lock the mutex for their whole body, so each one is atomic. What is
concurrent is everything outside: requests that overlap, responses that never
arrive, agents that stop or answer late, the clock, and the maintenance loop,
which holds no lock between reading the time and using it.

What makes the parts correct: Exclusive work is attempted once; the result of a
task is the one of its newest attempt; an attempt that lost its task stays out;
a resource is not given a second task while it runs one; published objects
never change; lost work is found again; a role starts once, on complete inputs,
keeps shard order, and a job whose tasks commit or are given up ends in a result
or in an explicit `Uncertain`; a completed task has the output it reported;
an agent that lost touch joins again; a fetch returns the right bytes or fails;
a recorded location really has the object; and the result of a job is the one
its roles compute when each of them is a single task.

## Modules

* `TaskLedger`: the promise made to whoever submits a task. Attempts are
  granted one at a time, abandoned or committed; nothing else happens.
* `Fabric`: membership, execution leases and the object directory, one action
  per handler of `plurifold-coordinator/src/lib.rs` together with the `Fabric`
  methods it calls. `INSTANCE TaskLedger` with a refinement mapping.
* `Jobs`: the role engine, one action per kind of commit and one for the
  refresh that opens every poll. A job is submitted only if
  `validate_role_graph` accepts it.
* `Topology`: the link graph and the discovery passes that agents run beside
  their other work.
* `Agents`: the composition of worker loops, renewal loops and the coordinator's
  handlers over a network that loses and delays requests. It has its own, clock-
  less version of the handlers, and implements `TaskLedger` too.
* `DataPlane`: stores, blob servers and `materialize_input`, under faults.
* `Partition`: how the planner cuts an input, as operators.
* `Executors`: the builtin operations and pipelines, as operators on bytes.
* `Computation`: extends the last two to the life of one job, from the cutting
  of its input to its result, and states what a job must promise for that.
* `FabricProofs`, `JobsProofs`, `TopologyProofs`, `AgentsProofs`,
  `DataPlaneProofs`, `ComputationProofs`: the theorems about the module of that
  name (the last one's also about `Partition` and `Executors`); `StoreProofs` and
  `FetchProofs` continue `DataPlaneProofs`.
* `MCFabric`, `MCJobs`, `MCTopology`, `MCAgents`, `MCDataPlane`, `MCComputation`:
  values of the constants for TLC.

Definitions whose name starts with `Mutant` are wrong variants of the
definition after them. They are used by no specification; a property is only
kept if replacing some definition by such a variant makes TLC refute it.

### Fabric and the code

| Model | Code |
|---|---|
| `now`, `ClockStep` | `now_unix_ms`; the clock jumps forward by any amount and, with `ClockStepsBack`, back |
| `sampled`, `MaintenanceSample`, `MaintenanceTick` | `maintenance_tick`: clock read, then both passes under the mutex, every 250 ms from `main.rs` |
| `resources`, `endpoints` | `Fabric::resources` (epoch 0 stands for no entry), `data_endpoints` |
| `status`, `lease`, `output` | `TaskStatus` and its payloads |
| `ident`, `locations` | `ObjectMetadata`: what `same_object_identity` compares, and the locations |
| `AttemptCurrent` | the checks at the head of `renew_execution` and `complete_execution` |
| `issued` (auxiliary) | every lease ever handed out; any of them may be presented at any time, repeatedly or never |
| `winner`, `reported`, `incarnation` (auxiliary) | which attempt committed, and with what contents; how often a resource registered |

ExecutionIds are random in the code and counted in the model, so that attempts
have an order. Scheduler costs are data: any resource that satisfies the
requirements may win. Deadlines saturate at the top of `u64` in the code; the
model's clock never comes near it. The tasks of `Fabric` belong to no job, so
the role engine does nothing for them; a completion carries one output, as the
agent's always does (a request with two outputs of one id and different contents
would leave a Completed task whose second publication was refused; it is not
modelled). `TypeOK` is used by the proofs only: that a task has a lease exactly
while it is Running is what the Rust enum enforces. Handlers that only read are
left out.

### Jobs and the code

A role record holds `CooperativeRoleStatus` and, while it is reducing, its
`ActiveReduction`. A task is named `<<role, level, index>>`, where level 0 is
the role's own work; `Pending` and `Running` are one status, because no role
tells them apart. What the planner computes is a choice among everything it may
answer (`RolePlans`, `ReductionPlans`), the answer "no resource can run it now"
included. `failed` records that a handler returned an error after it had
changed state. Of the jobs submitted, the role graph is validated
(`ValidRoleGraph`); the other shape checks of `validate_logical_job` are assumed.
`leaves` is the order of the shards whose bytes an object holds. A plan for a
reduction lists the positions where its groups end. Handlers work in stages
(record the commit, then materialize a level or the ready roles), and the
operators of the later stages take the role states and tasks that the earlier
ones leave (`Materialize`, `ReducedRoles`, `WithReductions`).

### Topology and the code

`links` and `manual` are `TopologySnapshot::links` and `manual_links`; a link
has no direction, an entry of `manual_links` has. Deadlines are not needed to
the millisecond here, so a membership is active, lapsed (past its deadline, but
not yet expired) or absent. A pass (`discover_topology`) keeps the epoch it
started with, lists the peers once and then measures and reports one peer after
the other; any error ends it. A report in flight may be lost, or handled after
its sender has timed out. Any probe may fail; that the probes of a pair fail for
good is a premise of `UnreachableLinkWithdrawn`. `override` is auxiliary: what an
operator last set for a pair neither end of which has expired since. `budget` is
auxiliary too: the registrations and overrides that the instance still allows.

### Agents and the code

| Model | Code |
|---|---|
| `member`, `status`, `lease`, `winner`, `holders`, `links` | the `Fabric` tables, as far as worker loops see them |
| `Reachable`, `MeasureLink` | `score_candidate`, which refuses a candidate without a link to a holder of an input; what measurements and operators do to the link graph, at any time (`Topology` has how) |
| `HeartbeatTick`, `Rejoin`, `PollTick`, `Stop` | the branches of `tokio::select!` in `run_worker`; while a registration is tried again the loop does nothing else |
| `FetchInput`, `Execute`, `Report` | `execute_and_commit`, a spawned task: it goes on during heartbeats and registrations |
| `RenewTick` | `renew_execution_loop`, a second spawned task, aborted when the work ends |
| `agent[r].busy`, `.renewing`, `.work`, `.blobs` | the busy flag, the renewal task, the assignment, the store |
| `Accepted`, `Handle` | the errors and the effects of the six handlers that agents call |
| `wire`, `Fails`, `DeliverLate` | a request that failed for its sender and that the coordinator may still handle |

Deadlines are Booleans here: a membership or lease is fresh until it lapses.
What a live agent renews lapses only by a fault, because it renews after a third
of the remaining time and beats several times per lifetime; what nobody renews
lapses in the end. Faults are counted and bounded by `MaxFaults`. The scheduler
places a task on its cheapest candidate, and a poll stops at the first pending
task placed on the poller, in an order given by `Order` (a hash order in the
code). An agent's ResourceId is drawn by its process, so a process that starts
again is another agent. The outputs of two attempts are different objects, which
go by the ExecutionId. They are drawn in order, where the code draws random
UUIDs; `Execution` is the set the ledger takes them from, and since faults bound
the attempts (`AttemptsBoundedByFaults`) a finite one is enough for TLC. Execution
itself may end in an error, which is a fault.

### DataPlane and the code

`files` are the blobs of each store, `temps` the temporary files; a put goes
through `write`, `writing` and `rename`, and one of the worker and one of the
blob server may be under way in the same store. `fetch` is the position in
`materialize_input`, for a range or for the whole object. SHA-256 is taken to be
injective: the digest of bytes is the bytes, tagged. A write that is cut short
leaves a prefix; a damaged file has its length and other bytes. `known` are the
locations that `resolve_inputs` turns into URLs, and an assignment carries a copy
of them that may be stale when it is used. A store that is started again keeps
its files and announces none of them. A damaged file in an agent's own store
fails every fetch there (`put` trusts it and `get` refuses it); the model has
that, and no property promises more than that the bytes are never used.

### Computation and the code

A job is one sharded role, optionally reduced, and a chain of roles behind it.
A template has the fields that `fusable_template` and `validate_task` look at
(family of the artifact, entrypoint, effects); a program of another family than
`builtin:` is taken to compute one of the builtin operations. Several roles run as
one task only if the planner may fuse them and `validate_task` admits the result;
a refused pipeline changes nothing here, and what the refusal does to the job is
in `Jobs`.
Objects are sequences of bytes, words have two bytes instead of eight so that
sums overflow, and a text is made of digits and ends of lines: the errors of
`sum-records-u64` over bytes that are not decimal records are left out. An
object is where it was made; `Near` are the pairs of resources within the
reduction's `locality_rtt_ms`. `ShardCounts` is every count `choose_auto_shards`
may settle on, and placement is free. The reference, `AsWritten`, runs each role
as a single task on the whole input. What the code does in a loop (the groups of
a level, the inputs of a pipeline without repetitions, the stages of one) is a
recursive function, which both TLC and the proofs can unfold.

Two assumptions say which jobs these are; TLC evaluates both for the jobs of the
run.

* `ProgramAssumption` is what `validate_logical_job` and
  `validate_logical_job_objects` refuse otherwise: record offsets that start at
  0, increase and end at the size of the object, and a fan-in of at least two.
* `DivisibleAssumption` is what the code leaves to the author of the job and
  cannot check. `docs/programming-model.md` has an auto policy declare its input
  partitionable: an operation over a part does not look at the number of its
  shard (`ShardsAreParts`), and one that fails over a part fails over the whole
  (`FailsWithPart`). `RoleReductionSpec` in `core` asks for a reducer for which
  "regrouping adjacent inputs may change the tree shape but not the
  application-visible result" (`OrderedAssociative`, which also says what that
  result is: what the role makes of the parts together). It need not commute.
  Without a reducer, the consumer gets all outputs and must take them for what
  they make together (`ConsumerJoins`). The assumption speaks of single
  operations on neighbouring parts only: nothing in it is about the planner's
  cuts, groups, levels or pipelines.

## Runs

| Run | Instance | Properties |
|---|---|---|
| `fabric_leases` | 2 resources, an Exclusive and a replay-safe task that reads an object with 2 possible contents, 3 leases, 2 registrations each, clock to 4 | `OutputAsReported`, `ExclusiveAttemptedOnce`, `OneLiveLeasePerResource`, `EndpointsMatchMembership`, `FencedForever`, `ObjectsImmutable` |
| `fabric_clock` | 1 resource, 2 tasks, 4 leases, clock to 3 and back | `LatestAttemptWins`, `AttemptInvariant`, `ImplementsLedger` |
| `fabric_liveness` | 1 resource, 1 task, with fairness | `LapsedLeaseReaped`, `SilentResourceLeaves` |
| `fabric_epochs` | 1 resource, 1 task | refutes `StaleAttemptsCannotCommit` |
| `topology` | 2 resources with 2 registrations each and an override, or 3 with 1 registration each; 2 reports of an agent in flight, with fairness | `TypeOK`, `OneLinkPerPair`, `ManualLinkStands`, `AutomaticLinksAmongMembers`, `UnreachableLinkWithdrawn` |
| `jobs_fusion` | 6 roles: a fusable chain that branches, 1, 2 or 5 shards, fan-in 3 | `TypeOK`, `LaunchedOnResults`, `LaunchedOnce`, `ShardOrderPreserved`, `SettledTasksStay` |
| `jobs_mixed` | a cooperative and a logical job with Exclusive roles, 1 or 3 shards, fan-in 2, and a job with a cycle, with fairness | `NoLostWakeup`, `LostWorkIsUncertain`, `SettledRolesStay`, `JobsSettle` |
| `jobs_entrypoint` | as `jobs_fusion`, one role with another entrypoint | refutes `SelectedPrefixIsSubmitted` |
| `agents_recovery` | 2 agents, a link that comes and goes, an Exclusive producer and its replay-safe consumer, 2 faults, with fairness | `TypeOK`, `ExclusiveRunsAlone`, `HoldersHaveBytes`, `AttemptsBoundedByFaults`, `AgentsRejoin`, `WorkGetsDone`, `ImplementsLedger` |
| `agents_blocked` | 2 agents, 3 tasks, an empty intermediate object, 1 fault, with fairness | refutes `OthersContinue` |
| `data_plane` | 3 agents, 2 of them fetching, uploads to 2 stores, 5 ranges of a three-byte object, 1 fault | `NeverWrongBytes`, `FilesAreWhole`, `LocationsHoldObject`, `FallsOver`, `NoFaultNoFailure` |
| `computation` | 3 resources, 8 jobs | `ResultAsWritten`, `FailsOnlyAsWritten`, `OnlyEntrypointRefused` |

Deadlock is checked in every run but `computation`, where a job ends.

**Bounds.** A wrong commit needs a grant, an expiry, a second grant and a late
request: two leases for one task, and a third so that the other task takes part.
The lifetimes are chosen so that memberships and leases run out in either order
(`MembershipTTL < ExecutionTTL`), as an agent that stops or restarts makes them.
The clock needs to pass two deadlines in sequence. Resources are symmetric and
may be permuted where no liveness is checked. In `Jobs` five shards with fan-in
three give up to three levels with carried items at the front, in the middle and
at the end; the chain of three with a branch behind it has every reason for
which `fusion_chain` stops except a declared inner output. In `Agents` two
faults are the least that combine two kinds of them: a lost heartbeat and the
late request, a stopped agent and a lost report. Three agents, or a third fault,
are past the time limit. `WorkGetsDone` was also checked with the constants of
`Agents_blocked.cfg`, where an empty object can block polls. In `Topology` a
resource that leaves and comes back needs two registrations; a pass with a peer
behind another one needs three members, which then join once. In `DataPlane` one
fault at any of its steps, among three agents, has a second replica to fall over
to; the ranges are the whole object, both ends, an empty one and one that is a
byte too long. In `Computation` seven bytes and five records are cut into every
number of parts up to the limit, so most counts do not divide; the jobs have an
empty input, a sum that overflows, inputs used twice by one stage and by
several, a fused chain of three, reductions over near and distant resources, and
a chain in which one role has another entrypoint than `run`, one is not Pure and
one is no builtin.

**Fairness.** `Fabric!FairSpec` assumes that time passes and that the
maintenance loop runs: `main.rs` spawns it for the life of the process, and the
tokio mutex is granted in order. Nothing is assumed of agents or clients.
`Jobs!FairSpec` assumes that some open task commits again and again until it is
given up, and that a poll at which the planner finds resources happens again and
again. The first is an assumption about the environment, not something the code
provides: polling and reaping hand a task out again, but one that fails every
time, or whose input left with its last holder, never commits, and its job stays
Running. `JobsSettle` says that the role engine itself loses no work.
`Agents!FairSpec` assumes the maintenance loop, that what nobody renews lapses,
that the timers of a running agent keep firing (`tokio::select!` takes a random
one of those due), and that requests and executions end, with an answer or an
error. Nothing is assumed of late requests, of the starting of agents or of
clients. Requests carry no timeout in the code, and a poll or heartbeat is awaited
inside its branch of `select!`, so that one that is not answered holds up all
timers; that it ends is what TCP gives. `WorkGetsDone` has its conditions in its
premise: the input is somewhere, a supporting agent can get it, no task fails the
polls of the others (`agents_blocked`), and the link graph settles.
`Topology!FairSpec` assumes that an agent's probe timer keeps firing, that its
pass goes on (tokio timers and tasks), and that a report in flight is handled or
lost. All of it is weak fairness. `UnreachableLinkWithdrawn` supposes besides that
memberships settle and that the probing agent's requests are answered from some
time on: any refused or lost report ends a pass, and passes that always end early
may never come to the peers listed behind. The code does nothing about that.

### Disagreements found

* `fabric_epochs`: `docs/protocol.md` says that re-registering increments the
  epoch and that attempts from previous incarnations cannot commit.
  `register_resource` only increments while the old entry is still there. After
  the membership expired the epoch starts at 1 again, while the execution lease
  (60 s against 15 s by default) is still valid, so the old attempt commits.
* `agents_blocked`: `docs/failure-model.md` says of an abrupt leave that other
  resources continue. `poll_work` returns the error of `resolve_inputs` for the
  first task it would hand out. The scheduler asks for no replica of an input
  that has no bytes, so a task whose empty input left with its only holder is
  still placed, and every poll that comes to it ends in that error. Tasks behind
  it in the order of `pending_task_ids` wait for ever. (An input with bytes makes
  the scheduler pass the task over, and only that task waits.)
* `jobs_entrypoint`: `fusable_template` does not look at the entrypoint, but
  `validate_task` refuses a pipeline stage whose entrypoint is not `run`. The
  builtin tasks ignore their entrypoint, so the same job would run unfused. The
  refused submission ends `materialize_ready_roles` with an error on every poll
  of every agent for as long as the planner prefers that prefix.

## Proofs

The theorems of `FabricProofs` hold for any sets of resources, tasks and
objects, any lifetimes and any bounds.

* `TypeCorrect`: `TypeOK`.
* `AttemptsSound`: the inductive invariant `AttemptSafety`, which is
  `AttemptInvariant` together with `ExclusiveAttemptedOnce` and
  `LatestAttemptWins`. The latter two are not inductive: that an Exclusive task
  is not handed out again needs that a pending one never was; that the newest
  attempt wins needs that the record of a Running task names the newest, which
  needs that ids are fresh. `ExclusiveOnce`, `LatestWins` and
  `AttemptInvariantHolds` follow.
* `Fencing`: `FencedForever`, from the freshness of ids.
* `OneLiveLease`: under `~ClockStepsBack`. With a clock set back it is false: a
  lapsed lease becomes live again beside its successor.
* `EndpointsInStep` and `Immutability`.
* `OutputsReported`: `OutputAsReported`, which is inductive once it says that what
  was reported is an identity (`OutputsKnown`), so that the object stays as it is.
* `FabricImplementsLedger`: every step of `Fabric` is a step of `TaskLedger`
  under the mapping of `Attempts` and `Holder`, or changes none of its state.

Those of `TopologyProofs` hold for any set of resources and any bounds: type
correctness; `UniqueLinks`, which is inductive by itself; `ManualAuthority`,
through the invariant that what an operator set is also remembered in
`manual_links` (without it a report could be applied to the pair); and
`AutomaticLinks`.

`DataPlaneProofs!BytesNeverWrong` is `NeverWrongBytes` for any contents, uploads,
ranges, agents and number of faults. The invariant behind it says, besides the
shape of a fetch, that the digest in the reply to a range request is the one of
the requested slice, and that only a whole object with the right digest is about
to be registered; garbled bodies fail one comparison or the other. Nothing is
needed of the stores: `get` verifies, so damage is harmless to this property.

`StoreProofs` is about what the stores keep. `WholeFiles` (`FilesAreWhole`) and
`TrueLocations` (`LocationsHoldObject`) are inductive only together with
`PutSound`, which ties a put that is about to rename to the content of its own
temporary file, and `FetchBacked`: a whole object that is being read has the
right bytes, and an agent that is about to announce a replica has its file.

`FetchProofs` shows when a fetch may fail. `FallsOverHolds` (a fetch that ran out
of replicas met a fault at each of them) and `NoFaultNoFailureHolds` rest on an
account kept for each fetch: the replicas asked so far, plus the replicas still
on the list that are down or damaged, never exceed the faults so far (by one
while an answer is being read). It needs `StoreInv`: a replica on the list has
the file, so it can only be passed over for a fault.

The theorems of `AgentsProofs` are about agents, network and coordinator
together, for any number of agents, tasks and faults. The inductive invariant
`AgentsInv` has four parts: `TypeInv`; `GrantInv`, that the ExecutionIds drawn
are 1 to n, that a lease was granted for its task and that an Exclusive task has
one attempt at most; `WorkInv`, that agents work on granted attempts and no two
on the same; and `BytesInv`, that what an agent reports, or has on the wire, or
is recorded for, is in its store. From it follow `AgentsTypeCorrect`,
`ExclusiveHolds` (`ExclusiveRunsAlone`), `HoldersHold` (`HoldersHaveBytes`) and,
step by step, `AgentsImplementLedger`. The refinement assumes that every positive
number is in `Execution`: the ledger can grant another attempt at any time, which
random UUIDs justify, while a finite supply would show only on the side of
`Agents`. A request that is handled late maps to a step of the ledger or to none,
because `Accepted` compares its ExecutionId with the lease.

`AttemptsBounded` (`AttemptsBoundedByFaults`) needs an account across agents,
network and coordinator. `Claims(t)` is the number of attempts that t may still be
granted if no fault and no late request comes: none while its attempt is on track
(`OnTrack`: the holder is up, in step with the coordinator, renews or is about to
report, and has its input or a living replica), one while it waits, and one more
while an agent that has stopped is still a member, since as the only holder of the
input it can fail one attempt. Before another one can fail, `maintenance_tick` has
dropped that member, as the membership lapses before the lease (`Untended`).
`BudgetInv` says that attempts granted, claims and requests on the wire together
are at most 1 + 2 * faults. Each step is `Quiet` (no fault, attempts and claims do
not grow), `Faulty` (one fault, at most one more claim and one more request on the
wire) or `Late` (one request fewer on the wire, at most one more claim or attempt).

An earlier form of the property, one attempt for each fault, holds in the small
instance and is false in general: the attempt to prove it led to a behaviour of
five agents and six faults in which a heartbeat that fails makes its agent
register again, which costs the attempt it runs, and much later, handled after
all, keeps an agent listed that has stopped, which costs another one. Hence two
for each fault, of which one is still due while the request is on the wire.

`JobsProofs` is about the role engine, for any role graphs, shard counts, fan-ins
and plans. A handler's stages each see role states and tasks that no state of the
system ever has, so the invariant `Inv(rs, ts)` is stated of any `rs` and `ts`,
and one lemma per stage preserves it: recording (`SubmitRecorded`,
`ShardCommitted`, `ReductionCommitted`, `RoleTaskRecorded`), `ReduceSound` for
the levels and `LaunchSound` for the ready roles. It says

* of a role (`RoleInv`): it has been launched exactly if it is past `Ready`, and
  the roles of a job are submitted together (`LaunchInv`); a role that completed
  without an object is inside a pipeline and nobody outside needs it
  (`ResultInv`); what it waits for is open, and its count is the number of
  committed shards, fewer than all (`WaitInv`); the items of its level name
  reductions of that level, and not all of them have committed (`LevelInv`);
* of a task (`TaskInv`): its level is one its role has reached, so its name is
  never used again; an open one belongs to a role that still waits for it; the
  roles of a pipeline form a chain each link of which has one consumer
  (`ChainInv`).

`LaunchedOnceHolds` and `LaunchedOnResultsHolds` need that chains of different
ready roles have no role in common (`ChainsDisjoint`, by the least position of a
common role) and that a chain's inner roles are not ready themselves
(`InsideChain`). `NoLostWakeupHolds` turns the counts of positions into counts of
tasks. `JobsTypeCorrect`, `LostWorkHolds`, `SettledRolesHold` and
`SettledTasksHold` follow from the invariant and from what each stage leaves
alone (`RolesStay`, `TasksStay`).

`ShardOrderHolds` (`ShardOrderPreserved`) adds `Ordered` to that invariant: the
objects of a level carry runs of consecutive shards, laid end to end from the
first shard to the last (`Tiled`). Shards are runs of one; the group that ends at
one position and starts after the previous is again a run (`GroupLeaves`), and a
carried item keeps its own (`LevelTiled`). Each stage of each handler keeps this
(`OrderStays`), whether or not a level finds resources. Only at the end is it
turned into a statement about `FlattenSeq`, whose value on runs laid end to end
is one run (`RunsFlatten`, by induction).

`ComputationProofs` is about what a job computes, for all sizes, counts, fan-ins,
resources and chains.

* Cutting: `PartsTile` (neighbouring parts meet, the first starts at 0, the last
  ends at the total), `EveryPartHasUnits` (no shard is empty while there are no
  more shards than units), `RecordCutsTile`, `EstimatesAddUp` for the declared
  output sizes; `ByteCutAdmitted` and `RecordCutAdmitted`: `validate_task` accepts
  what the planner cuts. They rest on lemmas about integer division, which the
  SMT backend knows only by its defining inequality, and on `OffsetsIncrease`.
* Grouping: `GroupsInOrder` (a level's groups are its inputs cut into runs, in
  order, none empty or larger than the fan-in) and `LevelsShrink` (there are fewer
  groups than inputs), which is the progress that `docs/scheduler.md` promises.
* Fusing: `PipelineAdmission` (of fusable roles `validate_task` admits exactly the
  pipelines whose roles all have the entrypoint `run`: every other check of it is
  met by construction) and `FusedAsSeparate`. Each stage finds its own
  inputs, wherever `Distinct` has left them, and the previous output behind them
  (`StageInputFacts`, `StageGiven`), so a fused task goes through the outcomes of
  its roles in turn.
* The whole job: `OnlyEntrypointRefusedHolds`, `ResultHolds` and `FailuresHold`, the
  three properties of the run. `OnlyEntrypointRefused` needs only `Levels`: the
  outputs of a level are a sequence. `ResultAsWritten` and `FailsOnlyAsWritten`
  need `Sound`. In it the tasks of a level have ranges of units that tile the
  input (`Tiled`): those that have committed made what the role makes of their
  range, and the others will. Shards start it (`ShardsTile`, from the boundaries
  of `partition_bounds`), a complete level hands it to the next (`NewLevel`, with
  the group ends as new boundaries), and once the chain runs, the next role takes
  what is there for what `AsWritten` has at that point (`PassedOn`, `ChainRuns`).
  A failure of one range is a failure of the whole, and lasts to the end
  (`FailureLasts`).

* The contract: `ConcatKeepsContract` shows that the builtin `shard-sleep-input`
  with the reducer `concat` keeps `ShardsAreParts`, `FailsWithPart` and
  `OrderedAssociative` for every input, so those are not empty promises; the
  reducer does not commute, and the theorem is where the order of the parts
  matters.

Induction over numbers is proved from the least number principle of
`WellFoundedInduction` and stated about a set (`Induction`), in which form the
provers can use it; that recursive functions have values for which their
equations hold follows from it (`Recursion`, `PipelineRecurs`, `WrittenFacts`).

The assumptions are `FabricAssumption`, `JobsAssumption`, `TopologyAssumption`,
`AgentsAssumption`, `NoLeaseAssumption`, `DataPlaneAssumption`,
`ComputationAssumption` and `ExecutorsAssumption`: the types of the constants, that
the null values differ from real ones, and in `Jobs` the shape of a job that
`validate_logical_job` enforces; and the two about jobs that are described with
`Computation`, of which only `ResultHolds` and `FailuresHold` use
`DivisibleAssumption`.

Only model-checked: liveness (`LapsedLeaseReaped`, `SilentResourceLeaves`,
`UnreachableLinkWithdrawn`, `JobsSettle`, `AgentsRejoin`, `WorkGetsDone`), which
needs fairness and `ENABLED`; and that sums of records keep `DivisibleAssumption`
(folds over texts and words), which TLC evaluates for the jobs of the run.
Every invariant and every action property of a passing run is a theorem.

## Not modelled

* Costs: the floating-point arithmetic of scheduler and planner only chooses
  among answers, and the models allow every answer (in `Agents`, the cheapest by
  a given order). The preview `POST /v1/jobs/plan` changes no state.
* Native and WASI executors: sub-processes, files and time limits of the
  operating system, with no state kept from task to task.
* CLI, protocol types and serialization: I/O; the protobuf sketch is not compiled.
* Objects of fewer than two bytes in `DataPlane` (`DataPlaneAssumption`): a write
  cut short leaves a shorter, non-empty file there. What empty objects do to
  scheduling is in `Agents`.
* `unregister_resource`: no handler calls it. Completions with several outputs:
  no agent sends them.
* `validate_logical_job` beyond the role graph: checks of single fields.
* The epochs of peers are not part of a measurement report, so a measurement of
  an earlier incarnation of the peer counts for the next one; nothing in the code
  or the docs forbids it.

## Plan

1. Done: `TaskLedger`, `Fabric`, `Jobs`, `Topology`, `Agents`, `DataPlane`,
   `Partition`, `Executors`, `Computation`, and the eight proof modules.
2. That `sum-records-u64` with the reducer `sum-u64` keeps `DivisibleAssumption`
   for every text cut at its lines, which needs `FoldLeft` of concatenations.
