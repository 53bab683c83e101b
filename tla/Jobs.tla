-------------------------------- MODULE Jobs --------------------------------
(***************************************************************************)
(* The role engine of the Fabric: cooperative and logical jobs, whose      *)
(* roles are turned into tasks when their dependencies are complete, as    *)
(* one task, as several shards followed by levels of ordered reductions,   *)
(* or fused with the roles behind them into one pipeline task.             *)
(*                                                                         *)
(* Tasks are seen as TaskLedger presents them; Pending and Running are one *)
(* status here ("Open"), because no role reads the difference, so a retry  *)
(* of replay-safe work is invisible.  What the planner computes from costs *)
(* and topology is a choice among everything it may answer.                *)
(*                                                                         *)
(* A task is named <<role, level, index>>: level 0 is the role's own work, *)
(* level l > 0 the reductions made from level l - 1.  A task that commits  *)
(* publishes one object, which goes by the task's name.                    *)
(***************************************************************************)
EXTENDS Naturals, FiniteSets, Sequences, SequencesExt, Functions

CONSTANTS
    Job,          \* job identities
    Role,         \* role identities of all jobs; < is the order of declaration
    JobOf,        \* the job of each role
    Cooperative,  \* the jobs submitted with fixed tasks; the others are logical
    DependsOn,    \* the sequence of roles each role depends on
    OutputRoles,  \* the roles declared as outputs of their job
    FansOut,      \* the roles whose ShardPolicy::may_fan_out
    ShardCounts,  \* the shard counts each role's policy may end up with
    FanIn,        \* reduction.max_fan_in of each role, 0 if it has no reduction
    Exclusive,    \* the roles whose tasks are not automatically retryable
    Fusable,      \* the roles whose templates are all Pure and builtin
    RunEntry      \* the roles whose templates have the entrypoint "run"

ASSUME JobsAssumption ==
    /\ Role \subseteq Nat \ {0}
    /\ IsFiniteSet(Role)
    /\ JobOf \in [Role -> Job]
    /\ Cooperative \subseteq Job
    /\ DependsOn \in [Role -> Seq(Role)]
    /\ \A n \in Role : \A i \in DOMAIN DependsOn[n] :
          JobOf[DependsOn[n][i]] = JobOf[n]
    /\ OutputRoles \subseteq Role /\ FansOut \subseteq Role
    /\ ShardCounts \in [Role -> SUBSET (Nat \ {0})]
    /\ FanIn \in [Role -> Nat]
    /\ \A n \in Role : FanIn[n] # 0 => FanIn[n] > 1 /\ n \in FansOut
    /\ Exclusive \subseteq Role /\ Fusable \subseteq Role \ Exclusive
    /\ RunEntry \subseteq Role
    /\ \A n \in Role : JobOf[n] \in Cooperative => n \notin FansOut

VARIABLES
    roles,    \* the state of each role: CooperativeRoleStatus, RoleSelection
              \* and ActiveReduction
    tasks,    \* the submitted tasks and their TaskRoleBinding
    failed    \* auxiliary: a handler returned an error after changing state

vars == <<roles, tasks, failed>>

-----------------------------------------------------------------------------
(* The definitions of the jobs.                                            *)

RolesOf(j) == {n \in Role : JobOf[n] = j}

Consumers(n) == {m \in Role : n \in Range(DependsOn[m])}

(* A role of a job that was not submitted, or that waits: nothing of the   *)
(* other fields is in use.                                                 *)
Idle(s) == [status |-> s, by |-> 0, shards |-> 0, completed |-> 0,
            outputs |-> <<>>, level |-> 0, inputs |-> <<>>, items |-> <<>>,
            launches |-> 0]

Submitted(j) == \A n \in RolesOf(j) : roles[n].status # "Absent"

Init ==
    /\ roles = [n \in Role |-> Idle("Absent")]
    /\ tasks = <<>>
    /\ failed = FALSE

-----------------------------------------------------------------------------
(* Plans: what the planner may answer for a ready role or a reduction.     *)

(* The parts of a plan: the shard count, the fused roles, or the positions *)
(* where the groups of a reduction end.                                    *)
Plan(kind, parts) == [kind |-> kind, parts |-> parts]
NoPlan == Plan("none", <<>>)

(* A mutant: other consumers of m are not looked for.                      *)
MutantContinuesShared(rs, m, c) ==
    /\ m \notin OutputRoles
    /\ c \in Consumers(m) \ FansOut
    /\ DependsOn[c] = <<m>>
    /\ rs[c].status = "Waiting"

(* fusion_chain: c continues the chain after m.                            *)
Continues(rs, m, c) ==
    /\ m \notin OutputRoles
    /\ Consumers(m) = {c}
    /\ c \notin FansOut
    /\ DependsOn[c] = <<m>>
    /\ rs[c].status = "Waiting"

(* select_ready_fusion: a prefix of the chain from n, of at least two      *)
(* roles, all fusable.                                                     *)
FusionPrefixes(rs, n) ==
    {s \in SeqOf(Fusable, Cardinality(Fusable)) :
        /\ Len(s) >= 2
        /\ s[1] = n
        /\ \A i \in DOMAIN s : i < Len(s) => Continues(rs, s[i], s[i + 1])}

(* select_ready_shards: the shard count is fixed by the policy or, if the  *)
(* policy is automatic, found by comparing costs; no plan if no resource   *)
(* can run some shard.                                                     *)
ShardPlans(n) == {NoPlan} \cup {Plan("shards", <<k>>) : k \in ShardCounts[n]}

(* The answers for a ready role.  A cooperative role needs no plan; any    *)
(* other that does not fan out is fused or selected alone.                 *)
RolePlans(rs, n) ==
    IF JobOf[n] \in Cooperative THEN {Plan("single", <<>>)}
    ELSE IF n \in FansOut THEN ShardPlans(n)
    ELSE {NoPlan, Plan("single", <<>>)}
            \cup {Plan("fuse", s) : s \in FusionPrefixes(rs, n)}

GroupStart(ends, i) == IF i = 1 THEN 0 ELSE ends[i - 1]

(* reduction_groups: contiguous groups of at most max_fan_in inputs, at    *)
(* least one of them of two or more.  Locality decides which.              *)
ReductionPlans(rs, n) ==
    LET m == Len(rs[n].inputs)
        groups == {e \in SeqOf(1..m, m - 1) :
                     /\ e # <<>> /\ e[Len(e)] = m
                     /\ \A i \in DOMAIN e : /\ GroupStart(e, i) < e[i]
                                            /\ e[i] <= GroupStart(e, i) + FanIn[n]}
    IN  {NoPlan} \cup {Plan("reduce", e) : e \in groups}

(* The combined answers for the ready roles R and the reductions D.        *)
Plans(rs, R, D) ==
    LET answers(n) == IF n \in R THEN RolePlans(rs, n) ELSE ReductionPlans(rs, n)
    IN  {p \in [R \cup D -> UNION {answers(n) : n \in R \cup D}] :
            \A n \in R \cup D : p[n] \in answers(n)}

-----------------------------------------------------------------------------
(* materialize_ready_roles.                                                *)

(* A mutant: roles that were materialized already are not skipped.         *)
MutantReadyAgain(rs, j) ==
    {n \in RolesOf(j) :
        \A d \in Range(DependsOn[n]) : rs[d].status = "Completed"}

(* A mutant: a role that found no resource is not looked at again.         *)
MutantReadyOnce(rs, j) ==
    {n \in RolesOf(j) :
        /\ rs[n].status = "Waiting"
        /\ \A d \in Range(DependsOn[n]) : rs[d].status = "Completed"}

(* The roles that may be materialized: dependency_outputs is Some.         *)
ReadyRoles(rs, j) ==
    {n \in RolesOf(j) :
        /\ rs[n].status = "Waiting" \/ (rs[n].status = "Ready" /\ j \notin Cooperative)
        /\ \A d \in Range(DependsOn[n]) : rs[d].status = "Completed"}

(* validate_task refuses a pipeline with a stage whose entrypoint is not   *)
(* "run"; the planner did not look at entrypoints.                         *)
Rejected(p) == p.kind = "fuse" /\ ~(Range(p.parts) \subseteq RunEntry)

(* The ready roles are taken in declaration order and the first rejected   *)
(* submission ends the pass.                                               *)
Launched(R, plan) ==
    {n \in R : \A m \in R : (JobOf[m] = JobOf[n] /\ Rejected(plan[m])) => n < m}

MaterializedRole(rs, L, plan, n) ==
    IF n \in L
    THEN CASE plan[n].kind = "none" -> [rs[n] EXCEPT !.status = "Ready"]
           [] plan[n].kind = "shards" ->
                [rs[n] EXCEPT !.status = "Sharded", !.shards = plan[n].parts[1],
                              !.completed = 0, !.launches = @ + 1]
           [] OTHER -> [rs[n] EXCEPT !.status = "Submitted", !.by = n,
                                     !.launches = @ + 1]
    ELSE LET heads == {m \in L : plan[m].kind = "fuse"
                                 /\ n \in Range(plan[m].parts)}
         IN  IF heads = {} THEN rs[n]
             ELSE [rs[n] EXCEPT !.status = "Submitted",
                                !.by = CHOOSE m \in heads : TRUE,
                                !.launches = @ + 1]

NewTask(binding, rs, leaves) ==
    [status |-> "Open", binding |-> binding, roles |-> rs, leaves |-> leaves]

(* A mutant: the partition loop ends one shard early.                      *)
MutantOneShardShort(L, plan) ==
    LET sharded == {n \in L : plan[n].kind = "shards"}
        single == {n \in L : plan[n].kind \in {"single", "fuse"}}
        ids == UNION {{<<n, 0, k>> : k \in 1..(plan[n].parts[1] - 1)} : n \in sharded}
    IN  [t \in ids \cup {<<n, 0, 1>> : n \in single} |->
            IF t \in ids THEN NewTask("Shard", <<t[1]>>, <<t[3]>>)
            ELSE NewTask("Role", IF plan[t[1]].kind = "fuse" THEN plan[t[1]].parts
                                 ELSE <<t[1]>>, <<t[3]>>)]

(* The number of tasks a plan asks for.                                    *)
TaskCount(p) ==
    CASE p.kind = "none" -> 0
      [] p.kind = "shards" -> p.parts[1]
      [] OTHER -> 1

(* The tasks submitted for the launched roles, with their bindings.  The   *)
(* leaves of an object are the shards its bytes come from, in order.       *)
RoleTasks(L, plan) ==
    [t \in UNION {{<<n, 0, k>> : k \in 1..TaskCount(plan[n])} : n \in L} |->
        LET n == t[1] IN
        CASE plan[n].kind = "shards" -> NewTask("Shard", <<n>>, <<t[3]>>)
          [] plan[n].kind = "fuse" -> NewTask("Role", plan[n].parts, <<t[3]>>)
          [] OTHER -> NewTask("Role", <<n>>, <<t[3]>>)]

With(ts, new) ==
    [t \in DOMAIN ts \cup DOMAIN new |->
        IF t \in DOMAIN new THEN new[t] ELSE ts[t]]

(* The effect of materialize_ready_roles on the ready roles R, from the    *)
(* intermediate role states rs and tasks ts of the handler that calls it.  *)
Materialize(rs, ts, R, plan) ==
    LET L == Launched(R, plan)
    IN  /\ roles' = [n \in Role |-> MaterializedRole(rs, L, plan, n)]
        /\ tasks' = With(ts, RoleTasks(L, plan))
        /\ failed' = (failed \/ \E n \in R : Rejected(plan[n]))

-----------------------------------------------------------------------------
(* Reductions.                                                             *)

(* select_reduction_level's groups of the inputs.                          *)
Groups(inputs, ends) ==
    [i \in DOMAIN ends |-> SubSeq(inputs, GroupStart(ends, i) + 1, ends[i])]

(* A mutant: the carried inputs are left out of the level.                 *)
MutantCarryDropped(role, n, p) ==
    LET groups == Groups(role.inputs, p.parts)
        all == [i \in DOMAIN groups |->
                    [carry |-> Len(groups[i]) = 1, id |-> <<n, role.level + 1, i>>]]
    IN  [role EXCEPT !.status = "Reducing", !.completed = 0,
                     !.items = SelectSeq(all, LAMBDA x : ~x.carry)]

(* materialize_reduction_level for a role with two inputs or more: a group *)
(* of one is carried, any other becomes a task; with no feasible resource  *)
(* the level has no items and is retried by refresh_reductions.            *)
ReducedRole(role, n, p) ==
    LET groups == Groups(role.inputs, p.parts)
    IN  [role EXCEPT !.status = "Reducing", !.completed = 0,
                     !.items = [i \in DOMAIN groups |->
                        IF Len(groups[i]) = 1
                        THEN [carry |-> TRUE, id |-> groups[i][1]]
                        ELSE [carry |-> FALSE, id |-> <<n, role.level + 1, i>>]]]

ReductionTasks(role, n, p, ts) ==
    LET groups == Groups(role.inputs, p.parts)
        leaves(g) == FlattenSeq([x \in DOMAIN g |-> ts[g[x]].leaves])
    IN  [t \in {<<n, role.level + 1, i>> : i \in {k \in DOMAIN groups :
                                                  Len(groups[k]) > 1}} |->
            NewTask("Reduction", <<n>>, leaves(groups[t[3]]))]

(* The levels of the roles D are materialized.                             *)
ReducedRoles(rs, D, plan) ==
    [n \in Role |-> IF n \in D THEN ReducedRole(rs[n], n, plan[n]) ELSE rs[n]]

WithReductions(rs, ts, D, plan) ==
    LET new == [n \in D |-> ReductionTasks(rs[n], n, plan[n], ts)]
    IN  With(ts, [t \in UNION {DOMAIN new[n] : n \in D} |-> new[t[1]][t]])

ShardTasks(role, n) == [k \in 1..role.shards |-> <<n, 0, k>>]

-----------------------------------------------------------------------------
(* Handlers.                                                               *)

(* The loop of validate_role_graph: the roles resolved after each pass.    *)
Resolved(j) ==
    LET pass[k \in 0..Cardinality(RolesOf(j))] ==
          IF k = 0 THEN {}
          ELSE {n \in RolesOf(j) : Range(DependsOn[n]) \subseteq pass[k - 1]}
    IN  pass[Cardinality(RolesOf(j))]

(* A mutant: cycles are not looked for.                                    *)
MutantCyclesAdmitted(j) ==
    \A n \in RolesOf(j) : IsInjective(DependsOn[n])

(* validate_role_graph: there is an output, no dependency is listed twice  *)
(* and the graph has no cycle.                                             *)
ValidRoleGraph(j) ==
    /\ OutputRoles \cap RolesOf(j) # {}
    /\ \A n \in RolesOf(j) : IsInjective(DependsOn[n])
    /\ Resolved(j) = RolesOf(j)

(* submit_cooperative and submit_logical.                                  *)
SubmitJob(j) ==
    /\ ~Submitted(j)
    /\ ValidRoleGraph(j)
    /\ LET rs == [n \in Role |-> IF JobOf[n] = j THEN Idle("Waiting") ELSE roles[n]]
           R == ReadyRoles(rs, j)
       IN  \E plan \in Plans(rs, R, {}) : Materialize(rs, tasks, R, plan)

(* complete_execution commits task t.  The three actions below are its     *)
(* continuation complete_cooperative_role, one per kind of binding.        *)
Commits(t) == [tasks EXCEPT ![t].status = "Completed"]

(* Single and FusedChain: the last role gets the output, the others of the *)
(* chain complete with none.                                               *)
CompleteRoleTask(t) ==
    /\ tasks[t].status = "Open" /\ tasks[t].binding = "Role"
    /\ LET chain == tasks[t].roles
           rs == [n \in Role |->
                    IF n \notin Range(chain) THEN roles[n]
                    ELSE [roles[n] EXCEPT
                            !.status = "Completed",
                            !.outputs = IF n = chain[Len(chain)] THEN <<t>>
                                        ELSE <<>>]]
           R == ReadyRoles(rs, JobOf[t[1]])
       IN  \E plan \in Plans(rs, R, {}) : Materialize(rs, Commits(t), R, plan)

(* A mutant: the statuses are read before the commit is recorded.          *)
MutantStaleShardCount(n, ts) ==
    {k \in 1..roles[n].shards : tasks[<<n, 0, k>>].status = "Completed"}

(* The shards of role n that have committed, counted anew at every commit. *)
CommittedShards(n, ts) ==
    {k \in 1..roles[n].shards : ts[<<n, 0, k>>].status = "Completed"}

(* A mutant: the early return is missing.                                  *)
MutantShardCounted(n) == FALSE

(* A shard of a role that has become Uncertain is not counted any more.    *)
ShardIgnored(n) == roles[n].status = "Uncertain"

(* Shard: count the completed shards; the last one completes the role with *)
(* all outputs in shard order, or starts the reduction of two or more.     *)
CompleteShard(t) ==
    /\ tasks[t].status = "Open" /\ tasks[t].binding = "Shard"
    /\ LET n == t[1]
           ts == Commits(t)
           all == ShardTasks(roles[n], n)
           done == CommittedShards(n, ts)
           last == done = DOMAIN all
       IN  \/ /\ ShardIgnored(n)
              /\ tasks' = ts
              /\ UNCHANGED <<roles, failed>>
           \/ /\ ~ShardIgnored(n)
              /\ last /\ FanIn[n] # 0 /\ Len(all) > 1
              /\ LET rs == [roles EXCEPT ![n] = [@ EXCEPT !.status = "Reducing",
                                                          !.completed = 0, !.level = 0,
                                                          !.inputs = all]]
                 IN  \E plan \in Plans(rs, {}, {n}) :
                       /\ roles' = ReducedRoles(rs, {n}, plan)
                       /\ tasks' = WithReductions(rs, ts, {n}, plan)
                       /\ UNCHANGED failed
           \/ /\ ~ShardIgnored(n)
              /\ ~(last /\ FanIn[n] # 0 /\ Len(all) > 1)
              /\ LET rs == [roles EXCEPT ![n] =
                              IF last THEN [@ EXCEPT !.status = "Completed",
                                                     !.outputs = all]
                              ELSE [@ EXCEPT !.status = "Sharded",
                                             !.completed = Cardinality(done)]]
                     R == ReadyRoles(rs, JobOf[n])
                 IN  \E plan \in Plans(rs, R, {}) : Materialize(rs, ts, R, plan)

(* Reduction: advance_reduction_level.  When the level is complete its     *)
(* results are the next level's inputs, in order; a single one is the      *)
(* role's output.                                                          *)
CompleteReduction(t) ==
    /\ tasks[t].status = "Open" /\ tasks[t].binding = "Reduction"
    /\ LET n == t[1]
           ts == Commits(t)
           items == roles[n].items
           work == {i \in DOMAIN items : ~items[i].carry}
           done == {i \in work : ts[items[i].id].status = "Completed"}
           next == [i \in DOMAIN items |-> items[i].id]
           rs == [roles EXCEPT ![n] = [@ EXCEPT !.level = roles[n].level + 1,
                                                !.inputs = next, !.items = <<>>]]
       IN  \/ /\ done # work
              /\ roles' = [roles EXCEPT ![n].completed = Cardinality(done)]
              /\ tasks' = ts
              /\ UNCHANGED failed
           \/ /\ done = work /\ Len(next) > 1
              /\ \E plan \in Plans(rs, {}, {n}) :
                    /\ roles' = ReducedRoles(rs, {n}, plan)
                    /\ tasks' = WithReductions(rs, ts, {n}, plan)
                    /\ UNCHANGED failed
           \/ /\ done = work /\ Len(next) = 1
              /\ LET final == [rs EXCEPT ![n] = [@ EXCEPT !.status = "Completed",
                                                          !.outputs = next]]
                     R == ReadyRoles(final, JobOf[n])
                 IN  \E plan \in Plans(final, R, {}) : Materialize(final, ts, R, plan)

(* Reduction tasks are Pure whatever the role's effects are.               *)
OpenExclusive == {t \in DOMAIN tasks : /\ tasks[t].status = "Open"
                                       /\ t[1] \in Exclusive
                                       /\ tasks[t].binding # "Reduction"}

(* reap_expired_executions_at gives up the Exclusive tasks S: their roles  *)
(* become Uncertain (mark_cooperative_role_uncertain).                     *)
LoseTasks(S) ==
    /\ S # {}
    /\ tasks' = [t \in DOMAIN tasks |->
                    IF t \in S THEN [tasks[t] EXCEPT !.status = "Uncertain"]
                    ELSE tasks[t]]
    /\ roles' = [n \in Role |->
                    IF \E t \in S : n \in Range(tasks[t].roles)
                    THEN [roles[n] EXCEPT !.status = "Uncertain"] ELSE roles[n]]
    /\ UNCHANGED failed

(* A mutant: reductions whose level is under way are not skipped.          *)
MutantReductionsAgain == {n \in Role : roles[n].status = "Reducing"}

(* refresh_reductions: the reductions that found no resource so far.       *)
StalledReductions ==
    {n \in Role : roles[n].status = "Reducing" /\ roles[n].items = <<>>}

(* refresh_ready_roles, at the head of every poll: first the stalled       *)
(* reductions, then every submitted job in hash order, until one fails.    *)
(* The jobs P are the ones the pass reaches.                               *)
RefreshWith(P, plan) ==
    LET reached == UNION {ReadyRoles(roles, j) : j \in P}
        failing == {JobOf[n] : n \in {m \in reached : Rejected(plan[m])}}
        rs == ReducedRoles(roles, StalledReductions, plan)
        ts == WithReductions(roles, tasks, StalledReductions, plan)
    IN  /\ IF failing = {} THEN P = {j \in Job : Submitted(j)}
           ELSE Cardinality(failing) = 1
        /\ Materialize(rs, ts, reached, plan)

Refresh ==
    \E P \in SUBSET {j \in Job : Submitted(j)} :
        \E plan \in Plans(roles, UNION {ReadyRoles(roles, j) : j \in P},
                           StalledReductions) :
            RefreshWith(P, plan)

Next ==
    \/ \E j \in Job : SubmitJob(j)
    \/ \E t \in DOMAIN tasks : CompleteRoleTask(t)
    \/ \E t \in DOMAIN tasks : CompleteShard(t)
    \/ \E t \in DOMAIN tasks : CompleteReduction(t)
    \/ \E S \in SUBSET OpenExclusive : LoseTasks(S)
    \/ Refresh

Spec == Init /\ [][Next]_vars

(* Tasks are attempted until they commit or are given up (the leases of    *)
(* Fabric), agents keep polling, and a role or reduction for which no      *)
(* resource is feasible now finds one at a later poll.                     *)
CompleteTask == \E t \in DOMAIN tasks :
    CompleteRoleTask(t) \/ CompleteShard(t) \/ CompleteReduction(t)

RefreshFindsResources ==
    \E plan \in Plans(roles, UNION {ReadyRoles(roles, j) : j \in Job},
                       StalledReductions) :
        /\ \A n \in DOMAIN plan : plan[n] # NoPlan
        /\ RefreshWith({j \in Job : Submitted(j)}, plan)

(* That open tasks commit in the end is an assumption about agents, inputs *)
(* and programs; polls come from the agents' timers.                       *)
FairSpec == Spec /\ WF_vars(CompleteTask) /\ WF_vars(RefreshFindsResources)

-----------------------------------------------------------------------------
(* Properties.                                                             *)

RoleState == {"Absent", "Waiting", "Ready", "Submitted", "Sharded",
              "Reducing", "Completed", "Uncertain"}

(* Roles are in a status CooperativeRoleStatus has, and everything they    *)
(* refer to (outputs, shards, reduction inputs and items) was submitted:   *)
(* cooperative_role_views may `expect' it.                                 *)
TypeOK ==
    /\ \A n \in Role :
          /\ roles[n].status \in RoleState
          /\ Range(roles[n].outputs) \subseteq DOMAIN tasks
          /\ Range(ShardTasks(roles[n], n)) \subseteq DOMAIN tasks
          /\ Range(roles[n].inputs) \subseteq DOMAIN tasks
          /\ \A i \in DOMAIN roles[n].items : roles[n].items[i].id \in DOMAIN tasks
    /\ \A t \in DOMAIN tasks : tasks[t].status \in {"Open", "Completed", "Uncertain"}
    /\ failed \in BOOLEAN

(* A role is launched on results: when its own tasks are submitted every   *)
(* dependency is complete and has output objects, and no declared output   *)
(* of a job is without one.  Fusing roles leaves the inner ones complete   *)
(* with no object, so fusion_chain must stop wherever someone would miss   *)
(* it.                                                                     *)
LaunchedOnResults ==
    \A n \in Role :
        /\ roles[n].launches > 0 /\ roles[n].by \in {0, n} =>
              \A d \in Range(DependsOn[n]) :
                  roles[d].status = "Completed" /\ roles[d].outputs # <<>>
        /\ n \in OutputRoles /\ roles[n].status = "Completed" =>
              roles[n].outputs # <<>>

(* A role is launched at most once, although materialize_ready_roles runs  *)
(* on every commit and every poll.                                         *)
LaunchedOnce == \A n \in Role : roles[n].launches <= 1

LeavesOf(s) == FlattenSeq([i \in DOMAIN s |-> tasks[s[i]].leaves])

(* The bytes of the shards reach the role's consumers in shard order, each *)
(* once, through every level of carried and reduced items; with a          *)
(* reduction exactly one object remains.                                   *)
ShardOrderPreserved ==
    \A n \in Role :
        LET order == [k \in 1..roles[n].shards |-> k]
        IN  /\ roles[n].status = "Reducing" =>
                  /\ LeavesOf(roles[n].inputs) = order
                  /\ roles[n].items # <<>> =>
                       LeavesOf([i \in DOMAIN roles[n].items |->
                                    roles[n].items[i].id]) = order
            /\ roles[n].status = "Completed" /\ roles[n].shards > 0 =>
                  /\ LeavesOf(roles[n].outputs) = order
                  /\ FanIn[n] # 0 => Len(roles[n].outputs) = 1

CompletedIn(S) == Cardinality({t \in S : tasks[t].status = "Completed"})

(* No wake-up is lost: a role that waits for tasks waits for at least one  *)
(* that has not committed, and the count it shows is the number that have. *)
NoLostWakeup ==
    \A n \in Role :
        LET role == roles[n]
            level == {role.items[i].id : i \in {k \in DOMAIN role.items :
                                                  ~role.items[k].carry}}
        IN  /\ role.status = "Submitted" =>
                  tasks[<<role.by, 0, 1>>].status = "Open"
            /\ role.status = "Sharded" =>
                  /\ role.completed = CompletedIn(Range(ShardTasks(role, n)))
                  /\ role.completed < role.shards
            /\ role.status = "Reducing" /\ role.items # <<>> =>
                  /\ role.completed = CompletedIn(level)
                  /\ role.completed < Cardinality(level)

(* Work that may have happened is never reported as done: a role with a    *)
(* lost task is Uncertain, whatever its other shards do.                   *)
LostWorkIsUncertain ==
    \A t \in DOMAIN tasks : tasks[t].status = "Uncertain" =>
        \A n \in Range(tasks[t].roles) : roles[n].status = "Uncertain"

(* A settled role stays settled: consumers may have copied its outputs.    *)
SettledRolesStay ==
    [][\A n \in Role : roles[n].status \in {"Completed", "Uncertain"} =>
          roles'[n].status = roles[n].status
          /\ roles'[n].outputs = roles[n].outputs]_vars

(* A settled task is not submitted again, at any level.                    *)
SettledTasksStay ==
    [][\A t \in DOMAIN tasks : tasks[t].status # "Open" =>
          t \in DOMAIN tasks' /\ tasks'[t] = tasks[t]]_vars

(* cooperative_job_status.                                                 *)
JobStatus(j) ==
    IF \E n \in RolesOf(j) : roles[n].status = "Uncertain" THEN "Uncertain"
    ELSE IF \A n \in RolesOf(j) : roles[n].status = "Completed" THEN "Completed"
    ELSE "Running"

(* If open tasks keep committing or are given up, and polls find resources *)
(* (FairSpec), every accepted job ends: all its roles complete, or it is   *)
(* Uncertain.  No role is left waiting by the engine itself.  (A task that *)
(* fails every time, or whose input is lost, never commits, and its job    *)
(* stays Running.)                                                         *)
JobsSettle ==
    \A j \in Job : Submitted(j) ~> JobStatus(j) \in {"Completed", "Uncertain"}

(* docs/programming-model.md: "A selected prefix becomes one multi-stage   *)
(* TaskPipeline".  False: the planner selects prefixes that validate_task  *)
(* refuses, and then materialize_ready_roles, and with it every poll, ends *)
(* with an error.                                                          *)
SelectedPrefixIsSubmitted == ~failed

=============================================================================
