------------------------------- MODULE Fabric -------------------------------
(***************************************************************************)
(* The control plane's state machine for resources, tasks and objects: the *)
(* Fabric of plurifold-runtime, driven by the coordinator's handlers.      *)
(* Every handler runs under the coordinator's one mutex, so a handler is   *)
(* one action; the maintenance loop reads the clock BEFORE it takes the    *)
(* mutex, so it is two.                                                    *)
(*                                                                         *)
(* The network is the set `issued' of the execution leases handed out by   *)
(* poll_work.  Whoever received a lease may present it at any later time,  *)
(* any number of times, or never: that covers lost, delayed, duplicated    *)
(* and reordered renew and complete requests, lost responses, and agents   *)
(* that stop.  A handler that returns an error changes nothing, so a       *)
(* rejected request is a stuttering step.                                  *)
(*                                                                         *)
(* The tasks here are those of POST /v1/tasks, which belong to no role: to *)
(* them complete_cooperative_role and refresh_ready_roles do nothing.      *)
(* Module Jobs models what those two do for the tasks of jobs.             *)
(***************************************************************************)
EXTENDS Naturals

CONSTANTS
    Resource,          \* resource identities (ResourceId)
    Task,              \* task identities (TaskId)
    Exclusive,         \* the tasks whose effects are not automatically retryable
    Object,            \* object identities (ObjectId)
    Ident,             \* object contents: size, digest, encoding and producer
    NoObject,          \* no output
    NoIdent,           \* the identity of an object that was never published
    NoLease,           \* the lease of a task that is not running
    Inputs,            \* the input objects of each task
    Supports,          \* the pairs <<r, t>> with r.supports(t.requirements)
    MembershipTTL,     \* membership_ttl_ms
    ExecutionTTL,      \* execution_ttl_ms
    ClockStepsBack,    \* may SystemTime be set back?
    MaxTime,           \* bound: the clock
    MaxExecution,      \* bound: leases handed out
    MaxRegistrations   \* bound: registrations of one resource

ASSUME FabricAssumption ==
    /\ Exclusive \subseteq Task
    /\ NoObject \notin Object
    /\ NoIdent \notin Ident
    /\ Inputs \in [Task -> SUBSET Object]
    /\ Supports \subseteq Resource \X Task
    /\ MembershipTTL \in Nat \ {0}
    /\ ExecutionTTL \in Nat \ {0}
    /\ ClockStepsBack \in BOOLEAN
    /\ MaxTime \in Nat /\ MaxExecution \in Nat /\ MaxRegistrations \in Nat

(* A lease as the coordinator keeps it in TaskStatus::Running.             *)
Lease == [exec : Nat \ {0}, resource : Resource, epoch : Nat, expires : Nat]

ASSUME NoLeaseAssumption == NoLease \notin Lease

VARIABLES
    now,          \* the coordinator's SystemTime, in ms; positive
    sampled,      \* the time the maintenance loop has read, 0 between ticks
    resources,    \* epoch and expiry of each registration; epoch 0 is absent
    endpoints,    \* the resources with an entry in data_endpoints
    status,       \* the status of each task
    lease,        \* the payload of TaskStatus::Running
    output,       \* the payload of TaskStatus::Completed
    ident,        \* the metadata of each object that publish_object compares
    locations,    \* the resources recorded as holding each object
    nextExec      \* the next fresh ExecutionId

(* Auxiliary variables, read by no handler.                                *)
VARIABLES
    issued,       \* the leases that were handed out: the agents' copies
    winner,       \* the attempt that completed each task
    reported,     \* the contents that attempt reported for its output
    incarnation   \* the registrations of each resource so far

vars == <<now, sampled, resources, endpoints, status, lease, output, ident,
          locations, nextExec, issued, winner, reported, incarnation>>

resourceVars == <<resources, endpoints, incarnation>>
taskVars == <<status, lease, output, winner, reported, issued, nextExec>>
objectVars == <<ident, locations>>

-----------------------------------------------------------------------------

Absent == [epoch |-> 0, expires |-> 0]

Registered(r) == resources[r].epoch > 0

(* The filter `expires_at_unix_ms > now' of resource_epoch, begin_, renew_ *)
(* and complete_execution.                                                 *)
Active(r) == Registered(r) /\ resources[r].expires > now

Live(t) == status[t] = "Running" /\ lease[t].expires > now

(* schedulable_resources: active, and holding no live execution lease.     *)
Schedulable(r) ==
    /\ Active(r)
    /\ \A t \in Task : Live(t) => lease[t].resource # r

(* The scheduler may choose r for t.  Costs decide among several           *)
(* candidates; they are data, so any candidate may be chosen.              *)
Candidate(r, t) ==
    /\ <<r, t>> \in Supports
    /\ \A o \in Inputs[t] : ident[o] # NoIdent

(* resolve_inputs: each input has a replica whose data endpoint is known.  *)
InputsResolve(t) ==
    \A o \in Inputs[t] : \E r \in locations[o] : r \in endpoints

(* A mutant: the recorded lease may have run out.                          *)
MutantLateAttempt(l) ==
    /\ Active(l.resource)
    /\ resources[l.resource].epoch = l.epoch
    /\ status[l.task] = "Running"
    /\ lease[l.task].exec = l.exec

(* A mutant: the recorded lease is matched by its holder only.             *)
MutantAnyAttempt(l) ==
    /\ Active(l.resource)
    /\ status[l.task] = "Running"
    /\ lease[l.task].expires > now
    /\ lease[l.task].resource = l.resource
    /\ lease[l.task].epoch = l.epoch

(* The checks shared by renew_execution and complete_execution.  The       *)
(* presented copy's own expiry is not looked at: the record's is.          *)
AttemptCurrent(l) ==
    /\ Active(l.resource)
    /\ resources[l.resource].epoch = l.epoch
    /\ status[l.task] = "Running"
    /\ lease[l.task].exec = l.exec
    /\ lease[l.task].expires > now
    /\ lease[l.task].resource = l.resource
    /\ lease[l.task].epoch = l.epoch

-----------------------------------------------------------------------------

Init ==
    /\ now = 1
    /\ sampled = 0
    /\ resources = [r \in Resource |-> Absent]
    /\ endpoints = {}
    /\ status = [t \in Task |-> "Unsubmitted"]
    /\ lease = [t \in Task |-> NoLease]
    /\ output = [t \in Task |-> NoObject]
    /\ ident = [o \in Object |-> NoIdent]
    /\ locations = [o \in Object |-> {}]
    /\ nextExec = 1
    /\ issued = {}
    /\ winner = [t \in Task |-> 0]
    /\ reported = [t \in Task |-> NoIdent]
    /\ incarnation = [r \in Resource |-> 0]

(* Wall-clock time: it jumps forward by any amount, and may be set back.   *)
ClockStep ==
    /\ \E t \in 1..MaxTime :
          /\ t > now \/ ClockStepsBack
          /\ now' = t
    /\ UNCHANGED <<sampled, resourceVars, taskVars, objectVars>>

(* An agent starts, or its heartbeat failed for whatever reason.  A        *)
(* resource that is still known gets the next epoch; one that is not gets  *)
(* max(descriptor.epoch, 1), and agents always send epoch 0.               *)
RegisterResource(r) ==
    /\ incarnation[r] < MaxRegistrations
    /\ resources' = [resources EXCEPT ![r] =
                        [epoch |-> @.epoch + 1,
                         expires |-> now + MembershipTTL]]
    /\ endpoints' = endpoints \cup {r}
    /\ incarnation' = [incarnation EXCEPT ![r] = @ + 1]
    /\ UNCHANGED <<now, sampled, taskVars, objectVars>>

(* A heartbeat with the current epoch extends the membership, also when    *)
(* its deadline has passed and no maintenance tick has run since.          *)
Heartbeat(r) ==
    /\ Registered(r)
    /\ resources' = [resources EXCEPT ![r].expires = now + MembershipTTL]
    /\ UNCHANGED <<now, sampled, endpoints, incarnation, taskVars, objectVars>>

(* maintenance_tick, first half: the clock is read, then the loop waits    *)
(* for the mutex while handlers run.                                       *)
MaintenanceSample ==
    /\ sampled = 0
    /\ sampled' = now
    /\ UNCHANGED <<now, resourceVars, taskVars, objectVars>>

(* A mutant: the coordinator keeps the data endpoints.                     *)
MutantEndpointsKept(unix_ms) ==
    LET gone == {r \in Resource : Registered(r)
                                  /\ resources[r].expires <= unix_ms}
    IN  /\ resources' = [r \in Resource |->
                            IF r \in gone THEN Absent ELSE resources[r]]
        /\ locations' = [o \in Object |-> locations[o] \ gone]
        /\ UNCHANGED endpoints

(* A mutant: the replicas of a resource outlive it.                        *)
MutantReplicasKept(unix_ms) ==
    LET gone == {r \in Resource : Registered(r)
                                  /\ resources[r].expires <= unix_ms}
    IN  /\ resources' = [r \in Resource |->
                            IF r \in gone THEN Absent ELSE resources[r]]
        /\ endpoints' = endpoints \ gone
        /\ UNCHANGED locations

(* expire_resources_at and the coordinator's clean-up after it.            *)
ExpireResources(unix_ms) ==
    LET gone == {r \in Resource : Registered(r)
                                  /\ resources[r].expires <= unix_ms}
    IN  /\ resources' = [r \in Resource |->
                            IF r \in gone THEN Absent ELSE resources[r]]
        /\ locations' = [o \in Object |-> locations[o] \ gone]
        /\ endpoints' = endpoints \ gone

Lapsed(unix_ms) == {t \in Task : status[t] = "Running"
                                  /\ lease[t].expires <= unix_ms}

(* A mutant: the effects of the task are not asked for.                    *)
MutantRetryAll(unix_ms) ==
    LET lapsed == Lapsed(unix_ms)
    IN  /\ status' = [t \in Task |-> IF t \in lapsed THEN "Pending" ELSE status[t]]
        /\ lease' = [t \in Task |-> IF t \in lapsed THEN NoLease ELSE lease[t]]

(* A mutant: only the work of resources that have left is reaped.          *)
MutantReapDeparted(unix_ms) ==
    LET lapsed == {t \in Lapsed(unix_ms) : ~Active(lease[t].resource)}
    IN  /\ status' = [t \in Task |-> IF t \in lapsed THEN "Pending" ELSE status[t]]
        /\ lease' = [t \in Task |-> IF t \in lapsed THEN NoLease ELSE lease[t]]

(* reap_expired_executions_at: replay-safe work becomes pending, Exclusive *)
(* work uncertain.                                                         *)
ReapExecutions(unix_ms) ==
    LET lapsed == Lapsed(unix_ms)
    IN  /\ status' = [t \in Task |->
                        IF t \notin lapsed THEN status[t]
                        ELSE IF t \in Exclusive THEN "Uncertain" ELSE "Pending"]
        /\ lease' = [t \in Task |-> IF t \in lapsed THEN NoLease ELSE lease[t]]

(* maintenance_tick, second half, under the mutex: the sampled time is     *)
(* used for both passes.                                                   *)
MaintenanceTick ==
    /\ sampled # 0
    /\ ExpireResources(sampled)
    /\ ReapExecutions(sampled)
    /\ sampled' = 0
    /\ UNCHANGED <<now, incarnation, output, winner, reported, issued, nextExec,
                   ident>>

(* same_object_identity, or an object that is not known yet.               *)
SameIdentity(o, i) == ident[o] \in {NoIdent, i}

(* A mutant: a known object is overwritten.                                *)
MutantPublishOver(o, i, L) ==
    /\ ident' = [ident EXCEPT ![o] = i]
    /\ locations' = [locations EXCEPT ![o] = @ \cup L]
    /\ UNCHANGED <<now, sampled, resourceVars, taskVars>>

(* publish_object: a known object must have the same identity, and gains   *)
(* locations.  A client may name locations that never registered.          *)
PublishObject(o, i, L) ==
    /\ SameIdentity(o, i)
    /\ ident' = [ident EXCEPT ![o] = i]
    /\ locations' = [locations EXCEPT ![o] = @ \cup L]
    /\ UNCHANGED <<now, sampled, resourceVars, taskVars>>

(* register_replica: the resource must be active; its epoch is not asked.  *)
RegisterReplica(o, r) ==
    /\ Active(r)
    /\ ident[o] # NoIdent
    /\ locations' = [locations EXCEPT ![o] = @ \cup {r}]
    /\ UNCHANGED <<now, sampled, resourceVars, taskVars, ident>>

(* A mutant: a known task is submitted over.                               *)
MutantResubmit(t) ==
    /\ status[t] # "Running"
    /\ status' = [status EXCEPT ![t] = "Pending"]
    /\ UNCHANGED <<now, sampled, resourceVars, lease, output, winner, reported,
                   issued, nextExec, objectVars>>

(* submit: the duplicate check; the validation of the task is outside.     *)
SubmitTask(t) ==
    /\ status[t] = "Unsubmitted"
    /\ status' = [status EXCEPT ![t] = "Pending"]
    /\ UNCHANGED <<now, sampled, resourceVars, lease, output, winner, reported,
                   issued, nextExec, objectVars>>

(* A mutant: an ExecutionId may be used again.                             *)
MutantSameExecutionId == UNCHANGED nextExec

(* ExecutionId::new.  Ids are drawn, never reused; here they are counted,  *)
(* so that "newest" has a meaning.                                         *)
NewExecutionId == nextExec' = nextExec + 1

(* The lease that begin_execution records.                                 *)
NewLease(r) == [exec |-> nextExec, resource |-> r,
                epoch |-> resources[r].epoch, expires |-> now + ExecutionTTL]

(* poll_work: the first pending task the scheduler places on the polling   *)
(* resource and whose inputs resolve is begun (begin_execution) with a     *)
(* fresh ExecutionId.  The order of the pending tasks is a hash order.     *)
PollWork(r, t) ==
    /\ nextExec <= MaxExecution
    /\ Schedulable(r)
    /\ status[t] = "Pending"
    /\ Candidate(r, t)
    /\ InputsResolve(t)
    /\ status' = [status EXCEPT ![t] = "Running"]
    /\ lease' = [lease EXCEPT ![t] = NewLease(r)]
    /\ issued' = issued \cup {[task |-> t,
                               exec |-> nextExec,
                               resource |-> r,
                               epoch |-> resources[r].epoch,
                               incarnation |-> incarnation[r]]}
    /\ NewExecutionId
    /\ UNCHANGED <<now, sampled, resourceVars, output, winner, reported, objectVars>>

RenewExecution(l) ==
    /\ AttemptCurrent(l)
    /\ lease' = [lease EXCEPT ![l.task].expires = now + ExecutionTTL]
    /\ UNCHANGED <<now, sampled, resourceVars, status, output, winner, reported,
                   issued, nextExec, objectVars>>

(* A mutant: the output is first looked at when it is published, after the *)
(* task was marked.                                                        *)
MutantUncheckedOutput(l, o, i) ==
    /\ AttemptCurrent(l)
    /\ status' = [status EXCEPT ![l.task] = "Completed"]
    /\ lease' = [lease EXCEPT ![l.task] = NoLease]
    /\ output' = [output EXCEPT ![l.task] = o]
    /\ winner' = [winner EXCEPT ![l.task] = l.exec]
    /\ reported' = [reported EXCEPT ![l.task] = i]
    /\ IF SameIdentity(o, i)
       THEN /\ ident' = [ident EXCEPT ![o] = i]
            /\ locations' = [locations EXCEPT ![o] = @ \cup {l.resource}]
       ELSE UNCHANGED objectVars
    /\ UNCHANGED <<now, sampled, resourceVars, issued, nextExec>>

(* complete_execution: the task is completed and its output is published   *)
(* at the resource that ran it, unless another object has that id.         *)
CompleteExecution(l, o, i) ==
    /\ AttemptCurrent(l)
    /\ SameIdentity(o, i)
    /\ status' = [status EXCEPT ![l.task] = "Completed"]
    /\ lease' = [lease EXCEPT ![l.task] = NoLease]
    /\ output' = [output EXCEPT ![l.task] = o]
    /\ winner' = [winner EXCEPT ![l.task] = l.exec]
    /\ reported' = [reported EXCEPT ![l.task] = i]
    /\ ident' = [ident EXCEPT ![o] = i]
    /\ locations' = [locations EXCEPT ![o] = @ \cup {l.resource}]
    /\ UNCHANGED <<now, sampled, resourceVars, issued, nextExec>>

Next ==
    \/ ClockStep
    \/ \E r \in Resource : RegisterResource(r)
    \/ \E r \in Resource : Heartbeat(r)
    \/ MaintenanceSample
    \/ MaintenanceTick
    \/ \E o \in Object, i \in Ident, L \in SUBSET Resource :
          PublishObject(o, i, L)
    \/ \E o \in Object, r \in Resource : RegisterReplica(o, r)
    \/ \E t \in Task : SubmitTask(t)
    \/ \E r \in Resource, t \in Task : PollWork(r, t)
    \/ \E l \in issued : RenewExecution(l)
    \/ \E l \in issued, o \in Object, i \in Ident : CompleteExecution(l, o, i)

Spec == Init /\ [][Next]_vars

(* The clock runs, and main.rs runs the maintenance loop forever; the      *)
(* mutex is a fair one, so the loop gets it.  Nothing is assumed of the    *)
(* agents.                                                                 *)
FairSpec ==
    /\ Spec
    /\ WF_vars(ClockStep)
    /\ WF_vars(MaintenanceSample)
    /\ WF_vars(MaintenanceTick)

-----------------------------------------------------------------------------
(* Properties.                                                             *)

TaskState == {"Unsubmitted", "Pending", "Running", "Completed", "Uncertain"}

IssuedLease == [task : Task, exec : Nat \ {0}, resource : Resource,
                epoch : Nat, incarnation : Nat]

(* The types of the Fabric's tables; a task has a lease exactly while it   *)
(* is Running, as TaskStatus::Running carries it.                          *)
TypeOK ==
    /\ now \in Nat /\ sampled \in Nat
    /\ resources \in [Resource -> [epoch : Nat, expires : Nat]]
    /\ endpoints \subseteq Resource
    /\ status \in [Task -> TaskState]
    /\ lease \in [Task -> Lease \cup {NoLease}]
    /\ \A t \in Task : status[t] = "Running" <=> lease[t] \in Lease
    /\ output \in [Task -> Object \cup {NoObject}]
    /\ ident \in [Object -> Ident \cup {NoIdent}]
    /\ locations \in [Object -> SUBSET Resource]
    /\ nextExec \in Nat \ {0}
    /\ issued \subseteq IssuedLease
    /\ winner \in [Task -> Nat]
    /\ reported \in [Task -> Ident \cup {NoIdent}]
    /\ incarnation \in [Resource -> Nat]

(* Work that is not replay-safe is never handed out twice, whatever        *)
(* expires, restarts or is lost: reap_expired_executions_at makes it       *)
(* Uncertain, and nothing makes an Uncertain task Pending again.           *)
ExclusiveAttemptedOnce ==
    \A l, m \in issued :
        l.task = m.task /\ l.task \in Exclusive => l = m

(* The output a task is completed with comes from the newest attempt that  *)
(* was ever handed out for it: complete_execution fences every older one,  *)
(* however late its request arrives.                                       *)
LatestAttemptWins ==
    \A t \in Task : status[t] = "Completed" =>
        \A l \in issued : l.task = t => l.exec <= winner[t]

(* A resource holds at most one unexpired execution lease: it is given     *)
(* work only when it has none (schedulable_resources), and an expired      *)
(* lease that was not reaped yet cannot be renewed (renew_execution).      *)
(* This needs a clock that is not set back: otherwise a lease that had run *)
(* out when its holder was given other work becomes unexpired again.       *)
OneLiveLeasePerResource ==
    \A t, u \in Task :
        Live(t) /\ Live(u) /\ lease[t].resource = lease[u].resource => t = u

(* resolve_inputs hands out the URL of a replica exactly when its holder   *)
(* is registered: registration and expiry keep data_endpoints and the      *)
(* Fabric's resource table in step.                                        *)
EndpointsMatchMembership == endpoints = {r \in Resource : Registered(r)}

Fenced(l) == status[l.task] # "Running" \/ lease[l.task].exec # l.exec

(* An attempt that has lost its task (reaped, completed or superseded)     *)
(* never gets it back: no renewal, heartbeat, re-registration or clock     *)
(* step makes its lease acceptable again.                                  *)
FencedForever == [][\A l \in issued : Fenced(l) => Fenced(l)']_vars

(* The identity of a published object never changes, and a committed       *)
(* output stays the committed output: publish_object and                   *)
(* complete_execution both compare before they write.                      *)
ObjectsImmutable ==
    [][/\ \A o \in Object : ident[o] # NoIdent => ident'[o] = ident[o]
       /\ \A t \in Task : status[t] = "Completed" =>
             status'[t] = "Completed" /\ output'[t] = output[t]]_vars

(* A Completed task names a known object, with the contents its winning    *)
(* attempt reported.  complete_execution marks the task before it          *)
(* publishes, so a publication refused at that point (another attempt, a   *)
(* replay or a client has used the id) would leave the task Completed with *)
(* somebody else's object.                                                 *)
OutputAsReported ==
    \A t \in Task : status[t] = "Completed" =>
        output[t] \in Object /\ ident[output[t]] = reported[t]

(* What makes the promises above inductive: ExecutionIds are used once,    *)
(* the record of a Running task names its newest attempt, a task that is   *)
(* not running has no attempt outstanding that could still be accepted,    *)
(* and an Exclusive task that may still be handed out never was.           *)
AttemptInvariant ==
    /\ nextExec <= MaxExecution + 1
    /\ \A l \in issued : l.exec < nextExec
    /\ \A l, m \in issued : l.exec = m.exec => l = m
    /\ \A t \in Task : status[t] = "Running" =>
          /\ \E l \in issued : l.task = t /\ l.exec = lease[t].exec
          /\ \A l \in issued : l.task = t => l.exec <= lease[t].exec
    /\ \A t \in Task : status[t] # "Completed" => winner[t] = 0
    /\ \A t \in Exclusive : status[t] \in {"Unsubmitted", "Pending"} =>
          \A l \in issued : l.task # t

(* docs/protocol.md: "old execution attempts from previous incarnations    *)
(* cannot commit".  False: register_resource restarts at epoch 1 once the  *)
(* resource was expired, while its execution lease may still run.          *)
StaleAttemptsCannotCommit ==
    \A l \in issued :
        AttemptCurrent(l) => l.incarnation = incarnation[l.resource]

(* A lease that is not renewed is reaped: a task does not stay with one    *)
(* expiry time past that time forever, although the maintenance loop uses  *)
(* a clock reading that may be stale by the time it has the mutex.         *)
LapsedLeaseReaped ==
    \A t \in Task, x \in 1..MaxTime :
        (status[t] = "Running" /\ lease[t].expires = x)
            ~> ~(status[t] = "Running" /\ lease[t].expires = x)

(* A resource that stops sending heartbeats leaves the table, the list of  *)
(* endpoints and every object's locations (expire_resources_at).           *)
SilentResourceLeaves ==
    \A r \in Resource, x \in 1..MaxTime :
        (Registered(r) /\ resources[r].expires = x)
            ~> \/ resources[r].expires > x
               \/ /\ ~Registered(r)
                  /\ r \notin endpoints
                  /\ \A o \in Object : r \notin locations[o]

-----------------------------------------------------------------------------
(* The Fabric implements the ledger of attempts.  An attempt is identified *)
(* by its ExecutionId; it holds the task while its lease is recorded.      *)

Attempts == [t \in Task |-> {l.exec : l \in {k \in issued : k.task = t}}]

Holder == [t \in Task |-> IF status[t] = "Running" THEN lease[t].exec
                          ELSE winner[t]]

Ledger == INSTANCE TaskLedger WITH
            Attempt <- 1..MaxExecution, NoAttempt <- 0,
            attempts <- Attempts, holder <- Holder, result <- output

(* Every step of the control plane is a step the ledger allows, or none.   *)
ImplementsLedger == Ledger!Spec

=============================================================================
