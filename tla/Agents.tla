------------------------------- MODULE Agents -------------------------------
(***************************************************************************)
(* Agents and coordinator together: the worker loop of plurifold-agent     *)
(* (heartbeat, re-registration, poll), the work it spawns with its renewal *)
(* loop, and the coordinator's handlers they call.                         *)
(*                                                                         *)
(* Each request is one await of its sender.  It is answered, or it fails:  *)
(* then the sender sees an error while the request stays on the wire, to   *)
(* be handled later or never.  That is a lost request, a lost response and *)
(* a late request in one.                                                  *)
(*                                                                         *)
(* Deadlines are Booleans: a membership or lease is fresh until it lapses, *)
(* and a renewal makes it fresh again (Fabric has the clock).  Agents      *)
(* renew well before the deadline, so what a living agent renews lapses    *)
(* only by a fault.  Faults (failed requests, slow or stopped agents, work *)
(* that ends in an error) are counted and bounded.                         *)
(***************************************************************************)
EXTENDS Naturals, FiniteSets

CONSTANTS
    Resource,     \* agent processes: each draws its own ResourceId
    Task,         \* task identities; the output of a task goes by its name
    Exclusive,    \* the tasks whose effects are not automatically retryable
    NoTask,       \* no task
    Input,        \* the task whose output each task reads, or NoTask
    Empty,        \* the tasks whose output has no bytes
    Supports,     \* the pairs <<r, t>> with r.supports(t.requirements)
    Cost,         \* the placement cost of each task on each resource
    Order,        \* the place of each task in the order of pending_task_ids
    NoLease,      \* the lease of a task that is not running
    NoWork,       \* the work of an idle agent
    Execution,    \* the ExecutionIds, 1, 2, ... in the order they are drawn
    MaxFaults     \* bound: faults

WorkType == [task : Task, exec : Nat, epoch : Nat, replicas : SUBSET Resource,
             stage : {"fetch", "run", "report"}]

LeaseType == [exec : Nat, resource : Resource, epoch : Nat, fresh : BOOLEAN]

ASSUME AgentsAssumption ==
    /\ Exclusive \subseteq Task /\ Empty \subseteq Task
    /\ NoTask \notin Task
    /\ Input \in [Task -> Task \cup {NoTask}]
    /\ Supports \subseteq Resource \X Task
    /\ Cost \in [Task -> [Resource -> Nat]]
    /\ Order \in [Task -> Nat]
    /\ \A t, u \in Task : Order[t] = Order[u] => t = u
    /\ NoLease \notin LeaseType /\ NoWork \notin WorkType
    /\ Execution \subseteq Nat
    /\ MaxFaults \in Nat

VARIABLES
    member,    \* the coordinator's registrations; epoch 0 is absent
    status,    \* the status of each task
    lease,     \* the payload of TaskStatus::Running
    winner,    \* the attempt whose output the task is completed with, or 0
    holders,   \* the locations of each task's output
    links,     \* the pairs of resources that TopologySnapshot has a link for
    agent,     \* the agent processes
    wire,      \* the requests whose senders have given up on them
    faults     \* the faults so far

(* Auxiliary: the attempts that begin_execution has granted.               *)
VARIABLE granted

coordVars == <<member, status, lease, winner, holders, links, granted>>
vars == <<member, status, lease, winner, holders, links, granted, agent, wire,
          faults>>

-----------------------------------------------------------------------------
(* The coordinator.                                                        *)

Absent == [epoch |-> 0, fresh |-> FALSE]

Active(r) == member[r].epoch > 0 /\ member[r].fresh

(* schedulable_resources.                                                  *)
Schedulable(r) ==
    /\ Active(r)
    /\ \A t \in Task : status[t] = "Running" /\ lease[t].fresh =>
                          lease[t].resource # r

(* score_candidate: an input is local, has no bytes, or has a replica with *)
(* a link to transfer it over.                                             *)
Reachable(t, r) ==
    Input[t] # NoTask =>
        /\ status[Input[t]] = "Completed"
        /\ \/ Input[t] \in Empty
           \/ \E h \in holders[Input[t]] : h = r \/ {h, r} \in links

Candidates(t) == {r \in Resource : /\ <<r, t>> \in Supports
                                   /\ Schedulable(r) /\ Reachable(t, r)}

(* choose: the cheapest candidate.                                         *)
Placed(t, r) ==
    /\ r \in Candidates(t)
    /\ r = CHOOSE c \in Candidates(t) :
              \A d \in Candidates(t) : Cost[t][c] <= Cost[t][d]

(* The task a poll of r stops at: the first pending one placed on r.       *)
Offered(r) == {t \in Task : status[t] = "Pending" /\ Placed(t, r)}
First(r) == CHOOSE t \in Offered(r) : \A u \in Offered(r) : Order[t] <= Order[u]

(* resolve_inputs.  Registration and expiry keep data_endpoints and the    *)
(* members in step (Fabric!EndpointsMatchMembership).                      *)
Resolves(t) == Input[t] # NoTask => holders[Input[t]] # {}

(* A mutant: the ExecutionId is not compared.                              *)
MutantAnyAttempt(m) ==
    /\ Active(m.resource)
    /\ member[m.resource].epoch = m.epoch
    /\ status[m.task] = "Running"
    /\ lease[m.task].fresh

(* The checks of renew_execution and complete_execution.                   *)
AttemptCurrent(m) ==
    /\ Active(m.resource)
    /\ member[m.resource].epoch = m.epoch
    /\ status[m.task] = "Running"
    /\ lease[m.task].exec = m.exec
    /\ lease[m.task].fresh
    /\ lease[m.task].resource = m.resource
    /\ lease[m.task].epoch = m.epoch

(* A mutant: the epoch of a heartbeat is not compared.                     *)
MutantHeartbeatAnyEpoch(m) == member[m.resource].epoch > 0

HeartbeatAccepted(m) == member[m.resource].epoch = m.epoch

(* Does the handler of request m answer with success?                      *)
Accepted(m) ==
    CASE m.kind = "register"  -> TRUE
      [] m.kind = "heartbeat" -> HeartbeatAccepted(m)
      [] m.kind = "poll"      -> /\ Active(m.resource)
                                 /\ member[m.resource].epoch = m.epoch
                                 /\ Offered(m.resource) # {} =>
                                       Resolves(First(m.resource))
      [] m.kind = "renew"     -> AttemptCurrent(m)
      [] m.kind = "complete"  -> AttemptCurrent(m)
      [] m.kind = "replica"   -> /\ Active(m.resource)
                                 /\ status[m.task] = "Completed"

Register(r) ==
    /\ member' = [member EXCEPT ![r] = [epoch |-> @.epoch + 1, fresh |-> TRUE]]
    /\ UNCHANGED <<status, lease, winner, holders, links, granted>>

Heartbeat(r) ==
    /\ member' = [member EXCEPT ![r].fresh = TRUE]
    /\ UNCHANGED <<status, lease, winner, holders, links, granted>>

NewExec == Cardinality(UNION {granted[t] : t \in Task}) + 1

BeginExecution(t, r) ==
    /\ status' = [status EXCEPT ![t] = "Running"]
    /\ lease' = [lease EXCEPT ![t] = [exec |-> NewExec, resource |-> r,
                                      epoch |-> member[r].epoch, fresh |-> TRUE]]
    /\ granted' = [granted EXCEPT ![t] = @ \cup {NewExec}]
    /\ UNCHANGED <<member, winner, holders, links>>

RenewExecution(t) ==
    /\ lease' = [lease EXCEPT ![t].fresh = TRUE]
    /\ UNCHANGED <<member, status, winner, holders, links, granted>>

(* The output is an object of its own, published at its maker.             *)
CompleteExecution(m) ==
    /\ status' = [status EXCEPT ![m.task] = "Completed"]
    /\ winner' = [winner EXCEPT ![m.task] = m.exec]
    /\ lease' = [lease EXCEPT ![m.task] = NoLease]
    /\ holders' = [holders EXCEPT ![m.task] = {m.resource}]
    /\ UNCHANGED <<member, links, granted>>

RegisterReplica(t, r) ==
    /\ holders' = [holders EXCEPT ![t] = @ \cup {r}]
    /\ UNCHANGED <<member, status, lease, winner, links, granted>>

(* What the handler of an accepted request does.                           *)
Handle(m) ==
    \/ m.kind = "register" /\ Register(m.resource)
    \/ m.kind = "heartbeat" /\ Heartbeat(m.resource)
    \/ /\ m.kind = "poll"
       /\ IF Offered(m.resource) = {} THEN UNCHANGED coordVars
          ELSE BeginExecution(First(m.resource), m.resource)
    \/ m.kind = "renew" /\ RenewExecution(m.task)
    \/ m.kind = "complete" /\ CompleteExecution(m)
    \/ m.kind = "replica" /\ RegisterReplica(m.task, m.resource)

SubmitTask(t) ==
    /\ status[t] = "Unsubmitted"
    /\ Input[t] # NoTask => status[Input[t]] = "Completed"
    /\ status' = [status EXCEPT ![t] = "Pending"]
    /\ UNCHANGED <<member, lease, winner, holders, links, granted, agent, wire,
                   faults>>

Lapsed == {t \in Task : status[t] = "Running" /\ ~lease[t].fresh}

(* A mutant: the effects of the task are not asked for.                    *)
MutantReapAll ==
    status' = [t \in Task |-> IF t \in Lapsed THEN "Pending" ELSE status[t]]

Reap ==
    status' = [t \in Task |-> IF t \notin Lapsed THEN status[t]
                              ELSE IF t \in Exclusive THEN "Uncertain"
                              ELSE "Pending"]

(* maintenance_tick: members and leases that have lapsed are given up.     *)
MaintenanceTick ==
    /\ LET gone == {r \in Resource : member[r].epoch > 0 /\ ~member[r].fresh}
       IN  /\ member' = [r \in Resource |-> IF r \in gone THEN Absent ELSE member[r]]
           /\ holders' = [t \in Task |-> holders[t] \ gone]
           /\ links' = {p \in links : p \cap gone = {}}
    /\ Reap
    /\ lease' = [t \in Task |-> IF t \in Lapsed THEN NoLease ELSE lease[t]]
    /\ UNCHANGED <<winner, granted, agent, wire, faults>>

(* A link between two members is measured, or found unreachable and        *)
(* withdrawn.  Topology has the detail.                                    *)
MeasureLink(r, s) ==
    /\ Active(r) /\ Active(s) /\ r # s
    /\ links' \in {links \cup {{r, s}}, links \ {{r, s}}}
    /\ UNCHANGED <<member, status, lease, winner, holders, granted, agent, wire,
                   faults>>

-----------------------------------------------------------------------------
(* The network, and time.                                                  *)

Fault == faults < MaxFaults /\ faults' = faults + 1

(* A request that its sender sees fail.                                    *)
Fails(m) == Fault /\ wire' = wire \cup {m} /\ UNCHANGED coordVars

NoFault == UNCHANGED <<wire, faults>>

(* The coordinator gets to a request after its sender has given up.        *)
DeliverLate(m) ==
    /\ wire' = wire \ {m}
    /\ \/ Accepted(m) /\ Handle(m)
       \/ ~Accepted(m) /\ UNCHANGED coordVars
    /\ UNCHANGED <<agent, faults>>

Alive(r) == agent[r].state \in {"up", "rejoin"}

(* Agent r still works on the attempt recorded for t, and renews it or is  *)
(* about to report.                                                        *)
Tended(t) ==
    LET a == agent[lease[t].resource]
    IN  /\ a.work # NoWork
        /\ a.work.exec = lease[t].exec
        /\ a.renewing \/ a.work.stage = "report"

(* The membership of a stopped agent runs out, or heartbeats came late.    *)
LapseMember(r) ==
    /\ Active(r)
    /\ member' = [member EXCEPT ![r].fresh = FALSE]
    /\ UNCHANGED <<status, lease, winner, holders, links, granted, agent, wire>>

MembershipEnds(r) == ~Alive(r) /\ LapseMember(r) /\ UNCHANGED faults
MembershipMissed(r) == Alive(r) /\ LapseMember(r) /\ Fault

(* A lease that nobody renews runs out, or renewals came late.  Without a  *)
(* fault the memberships of stopped agents lapse before the leases do: the *)
(* membership TTL is the shorter one.                                      *)
LapseLease(t) ==
    /\ status[t] = "Running" /\ lease[t].fresh
    /\ lease' = [lease EXCEPT ![t].fresh = FALSE]
    /\ UNCHANGED <<member, status, winner, holders, links, granted, agent, wire>>

Untended(t) == ~Tended(t) /\ \A r \in Resource : Active(r) => Alive(r)

LeaseEnds(t) == LapseLease(t) /\ Untended(t) /\ UNCHANGED faults
LeaseMissed(t) == LapseLease(t) /\ ~Untended(t) /\ Fault

-----------------------------------------------------------------------------
(* The agents.                                                             *)

(* A process before it has joined, or after its end.                       *)
Process(s) == [state |-> s, epoch |-> 0, busy |-> FALSE, renewing |-> FALSE,
               work |-> NoWork, blobs |-> {}]

Request(kind, r) ==
    [kind |-> kind, resource |-> r, epoch |-> agent[r].epoch, task |-> NoTask,
     exec |-> 0]

(* renew and complete present the lease of the attempt, not of the agent.  *)
LeaseRequest(kind, r) ==
    LET w == agent[r].work
    IN  [kind |-> kind, resource |-> r, epoch |-> w.epoch, task |-> w.task,
         exec |-> w.exec]

ReplicaRequest(r) ==
    [kind |-> "replica", resource |-> r, epoch |-> 0,
     task |-> Input[agent[r].work.task], exec |-> 0]

(* run_worker begins with a registration; if it fails the process ends.    *)
Start(r) ==
    /\ agent[r].state = "new"
    /\ LET m == Request("register", r)
       IN  \/ /\ Handle(m) /\ NoFault
              /\ agent' = [agent EXCEPT ![r].state = "up",
                                        ![r].epoch = member[r].epoch + 1]
           \/ Fails(m) /\ agent' = [agent EXCEPT ![r].state = "gone"]

(* The heartbeat timer: any error, from the coordinator or the network,    *)
(* leads to a registration.                                                *)
HeartbeatTick(r) ==
    /\ agent[r].state = "up"
    /\ LET m == Request("heartbeat", r)
       IN  \/ Accepted(m) /\ Handle(m) /\ NoFault /\ UNCHANGED agent
           \/ /\ \/ ~Accepted(m) /\ UNCHANGED coordVars /\ NoFault
                 \/ Fails(m)
              /\ agent' = [agent EXCEPT ![r].state = "rejoin"]

(* The registration that follows; the old lease is kept when it fails.     *)
Rejoin(r) ==
    /\ agent[r].state = "rejoin"
    /\ LET m == Request("register", r)
       IN  \/ /\ Handle(m) /\ NoFault
              /\ agent' = [agent EXCEPT ![r].state = "up",
                                        ![r].epoch = member[r].epoch + 1]
           \/ Fails(m) /\ agent' = [agent EXCEPT ![r].state = "up"]

(* A mutant: no renewal loop is started.                                   *)
MutantWorkUnrenewed(r, t) ==
    [agent[r] EXCEPT !.busy = TRUE, !.renewing = FALSE,
                     !.work = [task |-> t, exec |-> NewExec,
                               epoch |-> member[r].epoch, stage |-> "fetch",
                               replicas |-> IF Input[t] = NoTask THEN {}
                                            ELSE holders[Input[t]]]]

(* The agent with the assignment: busy is set and execute_and_commit       *)
(* spawned, which spawns the renewal loop.                                 *)
WithWork(r, t) ==
    [agent[r] EXCEPT !.busy = TRUE, !.renewing = TRUE,
                     !.work = [task |-> t, exec |-> NewExec,
                               epoch |-> member[r].epoch, stage |-> "fetch",
                               replicas |-> IF Input[t] = NoTask THEN {}
                                            ELSE holders[Input[t]]]]

(* The poll timer, while not busy.  An error is only logged.               *)
PollTick(r) ==
    /\ agent[r].state = "up" /\ ~agent[r].busy
    /\ LET m == Request("poll", r)
       IN  \/ /\ Accepted(m) /\ Handle(m) /\ NoFault
              /\ IF Offered(r) = {} THEN UNCHANGED agent
                 ELSE agent' = [agent EXCEPT ![r] = WithWork(r, First(r))]
           \/ ~Accepted(m) /\ UNCHANGED coordVars /\ NoFault /\ UNCHANGED agent
           \/ Fails(m) /\ UNCHANGED agent

(* A mutant: work_result is unwrapped before renewal.abort.                *)
MutantRenewalLeaks(a) == [a EXCEPT !.work = NoWork, !.busy = FALSE]

(* A mutant: the busy flag is cleared on success only.                     *)
MutantStaysBusy(a) == [a EXCEPT !.work = NoWork, !.renewing = FALSE,
                                !.busy = a.work.stage # "report"]

(* execute_and_commit has returned, with an error or not: the renewal was  *)
(* aborted before, and the agent is not busy any more.                     *)
Freed(a) == [a EXCEPT !.work = NoWork, !.busy = FALSE, !.renewing = FALSE]

GiveUp(r) == agent' = [agent EXCEPT ![r] = Freed(agent[r])]

Working(r, stage) ==
    Alive(r) /\ agent[r].work # NoWork /\ agent[r].work.stage = stage

(* The blob that holds the input of t: outputs differ between attempts.    *)
InputBlob(t) == winner[Input[t]]

(* A mutant: the bytes are used, but not kept.                             *)
MutantFetchedUnstored(r) == [agent[r] EXCEPT !.work.stage = "run"]

(* The agent after materialize_input has put the bytes in its store.       *)
Fetched(r) ==
    [agent[r] EXCEPT !.work.stage = "run",
                     !.blobs = @ \cup {InputBlob(agent[r].work.task)}]

(* materialize_input: an input that is not in the store is fetched from a  *)
(* living replica, and this agent registers as another one; without a      *)
(* replica, or without that registration, the work fails.  DataPlane has   *)
(* the detail.                                                             *)
FetchInput(r) ==
    /\ Working(r, "fetch")
    /\ LET w == agent[r].work
           local == Input[w.task] # NoTask => InputBlob(w.task) \in agent[r].blobs
           m == ReplicaRequest(r)
       IN  \/ /\ local
              /\ agent' = [agent EXCEPT ![r].work.stage = "run"]
              /\ NoFault /\ UNCHANGED coordVars
           \/ /\ ~local
              /\ \E h \in w.replicas : Alive(h)
              /\ \/ /\ Accepted(m) /\ Handle(m) /\ NoFault
                    /\ agent' = [agent EXCEPT ![r] = Fetched(r)]
                 \/ /\ \/ ~Accepted(m) /\ UNCHANGED coordVars /\ NoFault
                       \/ Fails(m)
                    /\ agent' = [agent EXCEPT ![r] = Freed(Fetched(r))]
           \/ /\ ~local /\ \A h \in w.replicas : ~Alive(h)
              /\ NoFault /\ UNCHANGED coordVars /\ GiveUp(r)

(* The task runs to its end: its output is in the store and the renewal    *)
(* is aborted; or it ends in an error.                                     *)
Execute(r) ==
    /\ Working(r, "run")
    /\ UNCHANGED <<coordVars, wire>>
    /\ \/ /\ agent' = [agent EXCEPT ![r].work.stage = "report",
                                    ![r].renewing = FALSE,
                                    ![r].blobs = @ \cup {agent[r].work.exec}]
          /\ UNCHANGED faults
       \/ Fault /\ GiveUp(r)

(* The completion is sent once; whatever the answer, the agent is free.    *)
Report(r) ==
    /\ Working(r, "report")
    /\ LET m == LeaseRequest("complete", r)
       IN  \/ Accepted(m) /\ Handle(m) /\ NoFault
           \/ ~Accepted(m) /\ UNCHANGED coordVars /\ NoFault
           \/ Fails(m)
    /\ GiveUp(r)

(* renew_execution_loop: a failed request is tried again later, a refused  *)
(* one and an unreadable answer end the loop while the work goes on.       *)
RenewTick(r) ==
    /\ Alive(r) /\ agent[r].renewing
    /\ LET m == LeaseRequest("renew", r)
           stop == agent' = [agent EXCEPT ![r].renewing = FALSE]
       IN  \/ Accepted(m) /\ Handle(m) /\ NoFault /\ UNCHANGED agent
           \/ ~Accepted(m) /\ UNCHANGED coordVars /\ NoFault /\ stop
           \/ Fails(m) /\ (stop \/ UNCHANGED agent)

(* ctrl_c, or a crash: the process and its renewal loop are gone, and so   *)
(* is its store to the other agents.                                       *)
Stop(r) ==
    /\ Alive(r)
    /\ Fault
    /\ agent' = [agent EXCEPT ![r] = Process("gone")]
    /\ UNCHANGED <<coordVars, wire>>

-----------------------------------------------------------------------------

Init ==
    /\ member = [r \in Resource |-> Absent]
    /\ status = [t \in Task |-> "Unsubmitted"]
    /\ lease = [t \in Task |-> NoLease]
    /\ winner = [t \in Task |-> 0]
    /\ holders = [t \in Task |-> {}]
    /\ links = {}
    /\ granted = [t \in Task |-> {}]
    /\ agent = [r \in Resource |-> Process("new")]
    /\ wire = {}
    /\ faults = 0

AgentStep(r) ==
    \/ HeartbeatTick(r) \/ Rejoin(r) \/ PollTick(r)
    \/ FetchInput(r) \/ Execute(r) \/ Report(r) \/ RenewTick(r)

Next ==
    \/ \E t \in Task : SubmitTask(t) \/ LeaseEnds(t) \/ LeaseMissed(t)
    \/ \E r \in Resource : \/ Start(r) \/ Stop(r) \/ AgentStep(r)
                           \/ MembershipEnds(r) \/ MembershipMissed(r)
    \/ \E m \in wire : DeliverLate(m)
    \/ \E r, s \in Resource : MeasureLink(r, s)
    \/ MaintenanceTick

Spec == Init /\ [][Next]_vars

(* The maintenance loop runs, what nobody renews lapses, and the loop and  *)
(* the work of an agent that is up get on: tokio::select! takes each timer *)
(* that is due sooner or later, requests end, and executions end.  Nothing *)
(* is assumed of late requests, probes, clients or the starting of agents. *)
FairSpec ==
    /\ Spec
    /\ WF_vars(MaintenanceTick)
    /\ \A t \in Task : WF_vars(LeaseEnds(t))
    /\ \A r \in Resource :
          /\ WF_vars(MembershipEnds(r))
          /\ WF_vars(HeartbeatTick(r)) /\ WF_vars(Rejoin(r)) /\ WF_vars(PollTick(r))
          /\ WF_vars(FetchInput(r)) /\ WF_vars(Execute(r)) /\ WF_vars(Report(r))
          /\ WF_vars(RenewTick(r))

-----------------------------------------------------------------------------
(* Properties.                                                             *)

(* The busy flag and the renewal loop never outlive the work they belong   *)
(* to, and a task has a lease exactly while it is Running.                 *)
TypeOK ==
    /\ member \in [Resource -> [epoch : Nat, fresh : BOOLEAN]]
    /\ \A t \in Task : status[t] = "Running" <=> lease[t] # NoLease
    /\ holders \in [Task -> SUBSET Resource]
    /\ faults \in 0..MaxFaults
    /\ \A r \in Resource :
          /\ agent[r].state \in {"new", "up", "rejoin", "gone"}
          /\ agent[r].work \in WorkType \cup {NoWork}
          /\ agent[r].busy <=> agent[r].work # NoWork
          /\ agent[r].renewing => agent[r].work # NoWork

(* An Exclusive task is never run by two agents at once, although an agent *)
(* whose lease has lapsed or whose epoch is stale keeps running: the       *)
(* coordinator does not hand out again what reap_expired_executions_at     *)
(* made Uncertain.                                                         *)
ExclusiveRunsAlone ==
    \A r, s \in {a \in Resource : agent[a].work # NoWork} :
        agent[r].work.task = agent[s].work.task /\ r # s =>
            agent[r].work.task \notin Exclusive

(* The directory is truthful: an agent that runs and is recorded as holder *)
(* of an object has its bytes.  complete and replica are sent after put,   *)
(* may arrive late, and race with the end of other attempts.               *)
HoldersHaveBytes ==
    \A t \in Task : \A h \in holders[t] :
        Alive(h) => winner[t] \in agent[h].blobs

(* Attempts are not wasted: only a fault costs a task an attempt, at most  *)
(* one when it happens and one more when the request it left on the wire   *)
(* is handled after all, however the answers of heartbeats, registrations  *)
(* and polls are lost.  (One per fault is not enough: a lost heartbeat     *)
(* makes its agent register again, which fences its work, and may much     *)
(* later keep an agent listed that has stopped.)  In particular the work   *)
(* of an agent that renews is not given away.                              *)
AttemptsBoundedByFaults ==
    \A t \in Task : Cardinality(granted[t]) + Cardinality(wire) <= 1 + 2 * faults

(* An agent that stays up ends up as a member with its own epoch, whatever *)
(* heartbeats and registrations were lost or came late.                    *)
InStep(r) == agent[r].epoch = member[r].epoch /\ Active(r)

AgentsRejoin ==
    \A r \in Resource : <>[](agent[r].state \in {"new", "gone"} \/ InStep(r))

Submitted(t) == status[t] # "Unsubmitted"
Settled(t) == status[t] \in {"Completed", "Uncertain"}

(* A pending task that fails every poll it is placed in (OthersContinue).  *)
FailsPolls(t) == status[t] = "Pending" /\ Input[t] \in Empty /\ ~Resolves(t)

(* A submitted task is settled if, from some time on, an agent that        *)
(* supports it is up and has its input or a link to a holder of it, no     *)
(* task fails the polls of the others, and the link graph does not change. *)
(* Lost answers, agents that fence their own attempts by registering again *)
(* and leases nobody works on only delay it.  What may keep it Pending is  *)
(* in the premise: an input that left with its last holder (the producer   *)
(* is Completed and is not run again), an input no supporting agent can    *)
(* transfer, and the blocked polls of OthersContinue.                      *)
WorkGetsDone ==
    \A t \in Task, r \in Resource :
        (/\ <>[](/\ Submitted(t) /\ Alive(r) /\ <<r, t>> \in Supports
                 /\ Reachable(t, r) /\ Resolves(t)
                 /\ \A u \in Task : ~FailsPolls(u))
         /\ <>[][UNCHANGED links]_vars)
        => <>Settled(t)

(* docs/failure-model.md: "An abrupt leave is detected by membership lease *)
(* expiry. Other resources continue without reconfiguration."  False: a    *)
(* pending task whose empty input was on the resource that left is still   *)
(* placed, its inputs do not resolve, and the error ends every poll that   *)
(* reaches it; the tasks behind it are not handed out.                     *)
OthersContinue ==
    \A t \in Task, r \in Resource :
        (Submitted(t) /\ Input[t] = NoTask /\ [](Alive(r) /\ <<r, t>> \in Supports))
            ~> Settled(t)

-----------------------------------------------------------------------------
(* Agents and coordinator implement the ledger of attempts.  The output of *)
(* an attempt goes by its ExecutionId.                                     *)

Holder == [t \in Task |-> IF status[t] = "Running" THEN lease[t].exec
                          ELSE winner[t]]

Ledger == INSTANCE TaskLedger WITH
            Attempt <- Execution, NoAttempt <- 0, Object <- Execution,
            NoObject <- 0,
            attempts <- granted, holder <- Holder, result <- winner

(* Every step of the composition is a step the ledger allows, or none.     *)
ImplementsLedger == Ledger!Spec

=============================================================================
