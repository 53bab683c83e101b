---------------------------- MODULE AgentsProofs ----------------------------
(***************************************************************************)
(* Agents and coordinator for any number of agents, tasks and faults: an   *)
(* Exclusive task is run by one agent only, the object directory is        *)
(* truthful, the composition implements the ledger of attempts, and only   *)
(* faults cost a task attempts.                                            *)
(***************************************************************************)
EXTENDS Agents, TLAPS, FiniteSetTheorems

Statuses == {"Unsubmitted", "Pending", "Running", "Completed", "Uncertain"}

States == {"new", "up", "rejoin", "gone"}

Kinds == {"register", "heartbeat", "poll", "renew", "complete", "replica"}

RequestType == [kind : Kinds, resource : Resource, epoch : Nat,
                task : Task \cup {NoTask}, exec : Nat]

ProcessType == [state : States, epoch : Nat, busy : BOOLEAN, renewing : BOOLEAN,
                work : WorkType \cup {NoWork}, blobs : SUBSET Nat]

CoordType ==
    /\ member \in [Resource -> [epoch : Nat, fresh : BOOLEAN]]
    /\ status \in [Task -> Statuses]
    /\ lease \in [Task -> LeaseType \cup {NoLease}]
    /\ winner \in [Task -> Nat]
    /\ holders \in [Task -> SUBSET Resource]
    /\ granted \in [Task -> SUBSET Nat]
    /\ \A t \in Task : status[t] = "Running" <=> lease[t] # NoLease

(* The flags of a process go with its work, and only a process that runs   *)
(* has some.                                                               *)
ProcessSound(r) ==
    /\ agent[r].busy <=> agent[r].work # NoWork
    /\ agent[r].renewing => agent[r].work # NoWork
    /\ agent[r].work # NoWork => Alive(r)

AgentType ==
    /\ agent \in [Resource -> ProcessType]
    /\ \A r \in Resource : ProcessSound(r)

(* A request about a task names one.                                       *)
WireType ==
    /\ wire \subseteq RequestType
    /\ \A m \in wire : m.kind \in {"renew", "complete", "replica"} => m.task \in Task
    /\ faults \in 0..MaxFaults

TypeInv == CoordType /\ AgentType /\ WireType

-----------------------------------------------------------------------------

(* The attempts granted so far are 1, 2, ..., n.                           *)
Drawn == UNION {granted[t] : t \in Task}

(* The coordinator's side: leases have been granted for their task, and an *)
(* Exclusive task has had at most one attempt, none before it first ran.   *)
GrantInv ==
    /\ IsFiniteSet(Drawn) /\ Drawn = 1..Cardinality(Drawn)
    /\ \A t \in Task : lease[t] # NoLease => lease[t].exec \in granted[t]
    /\ \A t \in Exclusive :
          /\ status[t] \in {"Unsubmitted", "Pending"} => granted[t] = {}
          /\ \A e, f \in granted[t] : e = f
    /\ \A t \in Task : status[t] # "Completed" => winner[t] = 0

(* The agents' side: what they work on has been granted for its task, and  *)
(* no two agents have the same attempt.                                    *)
WorkInv ==
    /\ \A r \in Resource : agent[r].work # NoWork =>
          agent[r].work.exec \in granted[agent[r].work.task]
    /\ \A r, s \in Resource :
          (agent[r].work # NoWork /\ agent[s].work # NoWork /\ r # s) =>
              agent[r].work.exec # agent[s].work.exec

(* Bytes: what an agent reports, or is recorded for, is in its store.  An  *)
(* agent that has not started is not known to anybody.                     *)
HasBlob(r, e) == agent[r].state # "new" /\ (Alive(r) => e \in agent[r].blobs)

BytesInv ==
    /\ \A t \in Task : \A h \in holders[t] : HasBlob(h, winner[t])
    /\ \A m \in wire :
          /\ m.kind = "complete" => HasBlob(m.resource, m.exec)
          /\ m.kind = "replica" => /\ status[m.task] = "Completed"
                                   /\ HasBlob(m.resource, winner[m.task])
    /\ \A r \in Resource : (agent[r].work # NoWork /\ agent[r].work.stage = "report") =>
          agent[r].work.exec \in agent[r].blobs
    /\ \A t \in Task : (status[t] # "Unsubmitted" /\ Input[t] # NoTask) =>
          status[Input[t]] = "Completed"
    /\ \A r \in Resource : agent[r].work # NoWork =>
          status[agent[r].work.task] # "Unsubmitted"

-----------------------------------------------------------------------------
(* The steps of agents, network and coordinator, and those that change no  *)
(* more than the link graph.                                               *)
ProtocolStep ==
    \/ \E t \in Task : SubmitTask(t) \/ LeaseEnds(t) \/ LeaseMissed(t)
    \/ \E r \in Resource : \/ Start(r) \/ Stop(r) \/ AgentStep(r)
                           \/ MembershipEnds(r) \/ MembershipMissed(r)
    \/ \E m \in wire : DeliverLate(m)
    \/ MaintenanceTick

OnlyLinks ==
    UNCHANGED <<member, status, lease, winner, holders, granted, agent, wire, faults>>

LEMMA NextCases == [Next]_vars => ProtocolStep \/ OnlyLinks
  BY DEF Next, ProtocolStep, OnlyLinks, vars, MeasureLink

-----------------------------------------------------------------------------
(* The coordinator.                                                        *)

LEMMA LeastNumber ==
    ASSUME NEW T \in SUBSET Nat, T # {}
    PROVE  \E x \in T : \A y \in T : x <= y
  <1> DEFINE R == OpToRel(<, Nat)
  <1>1. IsWellFoundedOn(R, Nat)
    BY NatLessThanWellFounded
  <1>2. \A x, y \in Nat : y < x => <<y, x>> \in R
    BY DEF OpToRel
  <1> HIDE DEF R
  <1>3. PICK x \in T : \A y \in T : ~(<<y, x>> \in R)
    BY <1>1, WFMin
  <1>4. ASSUME NEW y \in T PROVE x <= y
    <2>1. x \in Nat /\ y \in Nat
      OBVIOUS
    <2>2. ~(y < x)
      BY <1>2, <1>3, <2>1
    <2> QED
      BY <2>1, <2>2
  <1> QED
    BY <1>4

(* The task a poll stops at is pending and its input is to be had.         *)
LEMMA FirstIsOffered ==
    ASSUME NEW r, Offered(r) # {}
    PROVE  First(r) \in Offered(r)
  <1> DEFINE P == {Order[t] : t \in Offered(r)}
  <1>1. P \in SUBSET Nat /\ P # {}
    BY AgentsAssumption DEF Offered
  <1>2. PICK x \in P : \A y \in P : x <= y
    BY <1>1, LeastNumber
  <1>3. \E t \in Offered(r) : \A u \in Offered(r) : Order[t] <= Order[u]
    BY <1>2
  <1> QED
    BY <1>3 DEF First

LEMMA OfferedTask ==
    ASSUME NEW r, NEW t \in Offered(r)
    PROVE  t \in Task /\ status[t] = "Pending" /\ r \in Resource /\ Reachable(t, r)
  BY DEF Offered, Placed, Candidates

(* Requests as the agents make them.                                       *)
Sound(m) ==
    /\ m \in RequestType
    /\ m.kind \in {"renew", "complete", "replica"} => m.task \in Task

(* A deadline that moves.                                                  *)
LEMMA MemberFreshType ==
    ASSUME CoordType, NEW r \in Resource, NEW b \in BOOLEAN,
           member' = [member EXCEPT ![r].fresh = b]
    PROVE  member' \in [Resource -> [epoch : Nat, fresh : BOOLEAN]]
  <1> DEFINE p == [member[r] EXCEPT !.fresh = b]
  <1>1. member[r] \in [epoch : Nat, fresh : BOOLEAN]
    BY DEF CoordType
  <1>2. p \in [epoch : Nat, fresh : BOOLEAN]
    BY <1>1
  <1>3. member' = [member EXCEPT ![r] = p]
    OBVIOUS
  <1> HIDE DEF p
  <1> QED
    BY <1>2, <1>3 DEF CoordType

LEMMA LeaseFreshType ==
    ASSUME CoordType, NEW t \in Task, NEW b \in BOOLEAN, lease[t] # NoLease,
           lease' = [lease EXCEPT ![t].fresh = b]
    PROVE  /\ lease' \in [Task -> LeaseType \cup {NoLease}]
           /\ \A u \in Task : lease'[u] = NoLease <=> lease[u] = NoLease
           /\ \A u \in Task : lease[u] # NoLease => lease'[u].exec = lease[u].exec
  <1> DEFINE l == [lease[t] EXCEPT !.fresh = b]
  <1>1. lease[t] \in LeaseType
    BY DEF CoordType
  <1>2. l \in LeaseType /\ l.exec = lease[t].exec
    BY <1>1 DEF LeaseType
  <1>3. l # NoLease
    BY <1>2, AgentsAssumption
  <1>4. lease' = [lease EXCEPT ![t] = l]
    OBVIOUS
  <1> HIDE DEF l
  <1> QED
    BY <1>2, <1>3, <1>4 DEF CoordType

(* What a handler may do, with types.                                      *)
LEMMA HandleType ==
    ASSUME CoordType, NEW m, Sound(m), Accepted(m), Handle(m),
           Cardinality(Drawn) \in Nat
    PROVE  CoordType'
  <1>1. CASE m.kind = "register"
    <2>1. Register(m.resource)
      BY <1>1 DEF Handle
    <2> QED
      BY <2>1 DEF Register, CoordType, Sound, RequestType
  <1>2. CASE m.kind = "heartbeat"
    <2>1. Heartbeat(m.resource) /\ m.resource \in Resource
      BY <1>2 DEF Handle, Sound, RequestType
    <2> QED
      BY <2>1, MemberFreshType DEF Heartbeat, CoordType
  <1>3. CASE m.kind = "poll"
    <2>1. CASE Offered(m.resource) = {}
      BY <1>3, <2>1 DEF Handle, coordVars, CoordType
    <2>2. CASE Offered(m.resource) # {}
      <3> DEFINE t == First(m.resource)
                 l == [exec |-> NewExec, resource |-> m.resource,
                       epoch |-> member[m.resource].epoch, fresh |-> TRUE]
      <3>1. BeginExecution(t, m.resource)
        BY <1>3, <2>2 DEF Handle
      <3>2. t \in Task /\ m.resource \in Resource
        BY <2>2, FirstIsOffered, OfferedTask
      <3>3. NewExec \in Nat
        BY DEF NewExec, Drawn
      <3>4. l \in LeaseType /\ l # NoLease
        <4>1. member[m.resource].epoch \in Nat
          BY <3>2 DEF CoordType
        <4>2. l \in LeaseType
          BY <3>2, <3>3, <4>1 DEF LeaseType
        <4> QED
          BY <4>2, AgentsAssumption
      <3>5. /\ status' = [status EXCEPT ![t] = "Running"]
            /\ lease' = [lease EXCEPT ![t] = l]
            /\ granted' = [granted EXCEPT ![t] = @ \cup {NewExec}]
            /\ UNCHANGED <<member, winner, holders>>
        BY <3>1 DEF BeginExecution
      <3> HIDE DEF t, l
      <3>6. status' \in [Task -> Statuses] /\ lease' \in [Task -> LeaseType \cup {NoLease}]
            /\ granted' \in [Task -> SUBSET Nat]
        BY <3>2, <3>3, <3>4, <3>5 DEF CoordType, Statuses
      <3>7. \A u \in Task : status'[u] = "Running" <=> lease'[u] # NoLease
        BY <3>2, <3>4, <3>5 DEF CoordType
      <3> QED
        BY <3>5, <3>6, <3>7 DEF CoordType
    <2> QED
      BY <2>1, <2>2
  <1>4. CASE m.kind = "renew"
    <2>1. RenewExecution(m.task) /\ m.task \in Task /\ lease[m.task] # NoLease
      BY <1>4 DEF Handle, Sound, Accepted, AttemptCurrent, CoordType
    <2>2. /\ lease' \in [Task -> LeaseType \cup {NoLease}]
          /\ \A u \in Task : lease'[u] = NoLease <=> lease[u] = NoLease
          /\ UNCHANGED <<member, status, winner, holders, granted>>
      BY <2>1, LeaseFreshType DEF RenewExecution
    <2> QED
      BY <2>2 DEF CoordType
  <1>5. CASE m.kind = "complete"
    <2> DEFINE t == m.task
    <2>1. CompleteExecution(m) /\ t \in Task /\ m.resource \in Resource /\ m.exec \in Nat
      BY <1>5 DEF Handle, Sound, RequestType
    <2>2. /\ status' = [status EXCEPT ![t] = "Completed"]
          /\ winner' = [winner EXCEPT ![t] = m.exec]
          /\ lease' = [lease EXCEPT ![t] = NoLease]
          /\ holders' = [holders EXCEPT ![t] = {m.resource}]
          /\ UNCHANGED <<member, granted>>
      BY <2>1 DEF CompleteExecution
    <2> HIDE DEF t
    <2> QED
      BY <2>1, <2>2 DEF CoordType, Statuses
  <1>6. CASE m.kind = "replica"
    <2>1. RegisterReplica(m.task, m.resource)
      BY <1>6 DEF Handle
    <2> QED
      BY <1>6, <2>1 DEF RegisterReplica, CoordType, Sound, RequestType
  <1> QED
    BY <1>1, <1>2, <1>3, <1>4, <1>5, <1>6 DEF Sound, RequestType, Kinds

(* The next ExecutionId is a new one.                                      *)
LEMMA NewExecFresh ==
    ASSUME GrantInv
    PROVE  /\ NewExec \in Nat \ {0} /\ Cardinality(Drawn) \in Nat
           /\ \A t \in Task : NewExec \notin granted[t]
  <1>1. Cardinality(Drawn) \in Nat /\ NewExec = Cardinality(Drawn) + 1
    BY FS_CardinalityType DEF GrantInv, NewExec, Drawn
  <1>2. NewExec \notin Drawn
    BY <1>1 DEF GrantInv
  <1>3. NewExec \in Nat \ {0}
    BY <1>1
  <1>4. \A t \in Task : NewExec \notin granted[t]
    BY <1>2 DEF Drawn
  <1> QED
    BY <1>1, <1>3, <1>4

LEMMA BeginGrants ==
    ASSUME CoordType, GrantInv, NEW t \in Task, NEW r \in Resource,
           status[t] = "Pending", BeginExecution(t, r)
    PROVE  GrantInv'
  <1>0. NewExec \in Nat \ {0} /\ Cardinality(Drawn) \in Nat
        /\ NewExec = Cardinality(Drawn) + 1
    BY NewExecFresh DEF NewExec, Drawn
  <1>1. /\ status' = [status EXCEPT ![t] = "Running"]
        /\ granted' = [granted EXCEPT ![t] = @ \cup {NewExec}]
        /\ UNCHANGED winner
    BY DEF BeginExecution
  <1>2. lease'[t].exec = NewExec /\ \A u \in Task \ {t} : lease'[u] = lease[u]
    BY DEF BeginExecution, CoordType
  <1>3. Drawn' = Drawn \cup {NewExec}
    BY <1>1 DEF Drawn, CoordType
  <1>4. Drawn' = 1..(Cardinality(Drawn) + 1)
    BY <1>0, <1>3 DEF GrantInv
  <1>5. IsFiniteSet(Drawn)' /\ Drawn' = 1..Cardinality(Drawn')
    <2> DEFINE k == Cardinality(Drawn)
    <2> HIDE DEF k
    <2>1. k + 1 \in Nat /\ Drawn' = 1..(k + 1)
      BY <1>0, <1>4 DEF k
    <2>2. IsFiniteSet(1..(k + 1)) /\ Cardinality(1..(k + 1)) = k + 1
      BY <2>1, FS_Interval
    <2> QED
      BY <2>1, <2>2
  <1>6. \A u \in Task : lease'[u] # NoLease => lease'[u].exec \in granted'[u]
    BY <1>1, <1>2 DEF CoordType, GrantInv
  <1>7. ASSUME NEW u \in Exclusive
        PROVE  /\ status'[u] \in {"Unsubmitted", "Pending"} => granted'[u] = {}
               /\ \A e, f \in granted'[u] : e = f
    <2>1. u \in Task
      BY AgentsAssumption
    <2>2. CASE u = t
      <3>1. granted[t] = {}
        BY <2>2 DEF GrantInv
      <3> QED
        BY <1>1, <2>1, <2>2, <3>1 DEF CoordType
    <2>3. CASE u # t
      BY <1>1, <2>1, <2>3 DEF CoordType, GrantInv
    <2> QED
      BY <2>2, <2>3
  <1>8. \A u \in Task : status'[u] # "Completed" => winner'[u] = 0
    BY <1>1 DEF CoordType, GrantInv
  <1> QED
    BY <1>5, <1>6, <1>7, <1>8 DEF GrantInv

(* A step that grants nothing.                                             *)
LEMMA NothingGranted ==
    ASSUME GrantInv, UNCHANGED granted,
           \A t \in Task :
              /\ lease'[t] # NoLease => lease[t] # NoLease /\ lease'[t].exec = lease[t].exec
              /\ (t \in Exclusive /\ status'[t] \in {"Unsubmitted", "Pending"}) =>
                    status[t] \in {"Unsubmitted", "Pending"}
              /\ status'[t] # "Completed" => status[t] # "Completed" /\ winner'[t] = winner[t]
    PROVE  GrantInv'
  <1>1. Drawn' = Drawn
    BY DEF Drawn
  <1>2. \A t \in Exclusive : t \in Task
    BY AgentsAssumption
  <1> QED
    BY <1>1, <1>2 DEF GrantInv

LEMMA HandleGrants ==
    ASSUME CoordType, GrantInv, NEW m, Sound(m), Accepted(m), Handle(m)
    PROVE  GrantInv'
  <1>1. CASE \/ m.kind \in {"register", "heartbeat", "replica"}
             \/ m.kind = "poll" /\ Offered(m.resource) = {}
    <2>1. UNCHANGED <<status, lease, winner, granted>>
      BY <1>1 DEF Handle, Register, Heartbeat, RegisterReplica, coordVars
    <2> QED
      BY <2>1, NothingGranted
  <1>2. CASE m.kind = "poll" /\ Offered(m.resource) # {}
    BY <1>2, BeginGrants, FirstIsOffered, OfferedTask DEF Handle
  <1>3. CASE m.kind = "renew"
    <2>1. RenewExecution(m.task) /\ m.task \in Task /\ lease[m.task] # NoLease
      BY <1>3 DEF Handle, Sound, Accepted, AttemptCurrent, CoordType
    <2>2. /\ \A u \in Task : lease'[u] = NoLease <=> lease[u] = NoLease
          /\ \A u \in Task : lease[u] # NoLease => lease'[u].exec = lease[u].exec
          /\ UNCHANGED <<status, winner, granted>>
      BY <2>1, LeaseFreshType DEF RenewExecution
    <2> QED
      BY <2>2, NothingGranted
  <1>4. CASE m.kind = "complete"
    <2>1. CompleteExecution(m) /\ m.task \in Task
      BY <1>4 DEF Handle, Sound
    <2>2. /\ \A u \in Task \ {m.task} : /\ lease'[u] = lease[u] /\ status'[u] = status[u]
                                        /\ winner'[u] = winner[u]
          /\ lease'[m.task] = NoLease /\ status'[m.task] = "Completed"
          /\ UNCHANGED granted
      BY <2>1 DEF CompleteExecution, CoordType
    <2> QED
      BY <2>2, NothingGranted
  <1>5. m.kind \in Kinds
    BY DEF Sound, RequestType
  <1>6. \/ m.kind \in {"register", "heartbeat", "replica"}
        \/ m.kind = "poll" \/ m.kind = "renew" \/ m.kind = "complete"
    BY <1>5 DEF Kinds
  <1> QED
    BY <1>1, <1>2, <1>3, <1>4, <1>6

LEMMA RequestSound ==
    ASSUME AgentType, NEW r \in Resource
    PROVE  /\ \A k \in {"register", "heartbeat", "poll"} :
                 Sound(Request(k, r)) /\ Request(k, r).kind = k
           /\ agent[r].work # NoWork => \A k \in {"renew", "complete"} :
                 Sound(LeaseRequest(k, r)) /\ LeaseRequest(k, r).kind = k
           /\ (agent[r].work # NoWork /\ Input[agent[r].work.task] # NoTask) =>
                 Sound(ReplicaRequest(r)) /\ ReplicaRequest(r).kind = "replica"
  <1>1. agent[r] \in ProcessType /\ agent[r].epoch \in Nat
        /\ agent[r].work \in WorkType \cup {NoWork}
    BY DEF AgentType, ProcessType
  <1>2. agent[r].work # NoWork =>
           /\ agent[r].work.task \in Task /\ agent[r].work.epoch \in Nat
           /\ agent[r].work.exec \in Nat
    BY <1>1 DEF WorkType
  <1>3. ASSUME NEW k \in {"register", "heartbeat", "poll"}
        PROVE  Sound(Request(k, r)) /\ Request(k, r).kind = k
    BY <1>1 DEF Sound, RequestType, Request, Kinds
  <1>4. ASSUME agent[r].work # NoWork, NEW k \in {"renew", "complete"}
        PROVE  Sound(LeaseRequest(k, r)) /\ LeaseRequest(k, r).kind = k
    BY <1>2, <1>4 DEF Sound, RequestType, LeaseRequest, Kinds
  <1>5. ASSUME agent[r].work # NoWork, Input[agent[r].work.task] # NoTask
        PROVE  Sound(ReplicaRequest(r)) /\ ReplicaRequest(r).kind = "replica"
    <2>1. Input[agent[r].work.task] \in Task
      BY <1>2, <1>5, AgentsAssumption
    <2> QED
      BY <2>1 DEF Sound, RequestType, ReplicaRequest, Kinds
  <1> QED
    BY <1>3, <1>4, <1>5

(* The steps of the coordinator.                                           *)
LEMMA CoordSteps ==
    ASSUME AgentType, WireType, ProtocolStep
    PROVE  \/ UNCHANGED coordVars
           \/ \E m : Sound(m) /\ Accepted(m) /\ Handle(m)
           \/ \E t \in Task : SubmitTask(t) \/ LapseLease(t)
           \/ \E r \in Resource : LapseMember(r)
           \/ MaintenanceTick
  <1> DEFINE Served == \E m : Sound(m) /\ Accepted(m) /\ Handle(m)
  <1>1. ASSUME NEW r \in Resource, Start(r) \/ Rejoin(r) PROVE Served \/ UNCHANGED coordVars
    <2> DEFINE m == Request("register", r)
    <2>1. Sound(m) /\ m.kind = "register"
      BY RequestSound
    <2>2. Accepted(m)
      BY <2>1 DEF Accepted
    <2>3. Handle(m) \/ UNCHANGED coordVars
      BY <1>1 DEF Start, Rejoin, Fails
    <2> QED
      BY <2>1, <2>2, <2>3
  <1>2. ASSUME NEW r \in Resource, HeartbeatTick(r) PROVE Served \/ UNCHANGED coordVars
    BY <1>2, RequestSound DEF HeartbeatTick, Fails
  <1>3. ASSUME NEW r \in Resource, PollTick(r) PROVE Served \/ UNCHANGED coordVars
    BY <1>3, RequestSound DEF PollTick, Fails
  <1>4. ASSUME NEW r \in Resource, FetchInput(r) PROVE Served \/ UNCHANGED coordVars
    <2>1. agent[r].work # NoWork
      BY <1>4 DEF FetchInput, Working
    <2>2. \/ UNCHANGED coordVars
          \/ /\ Input[agent[r].work.task] # NoTask
             /\ Accepted(ReplicaRequest(r)) /\ Handle(ReplicaRequest(r))
      BY <1>4 DEF FetchInput, Fails
    <2> QED
      BY <2>1, <2>2, RequestSound
  <1>5. ASSUME NEW r \in Resource, Report(r) PROVE Served \/ UNCHANGED coordVars
    BY <1>5, RequestSound DEF Report, Working, Fails
  <1>6. ASSUME NEW r \in Resource, RenewTick(r) PROVE Served \/ UNCHANGED coordVars
    <2>1. agent[r].work # NoWork
      BY <1>6 DEF RenewTick, AgentType, ProcessSound
    <2> QED
      BY <1>6, <2>1, RequestSound DEF RenewTick, Fails
  <1>7. ASSUME NEW r \in Resource, Execute(r) \/ Stop(r) PROVE UNCHANGED coordVars
    BY <1>7 DEF Execute, Stop
  <1>8. ASSUME NEW m \in wire, DeliverLate(m) PROVE Served \/ UNCHANGED coordVars
    <2>1. Sound(m)
      BY DEF WireType, Sound
    <2> QED
      BY <1>8, <2>1 DEF DeliverLate
  <1>9. ASSUME NEW r \in Resource, MembershipEnds(r) \/ MembershipMissed(r)
        PROVE  LapseMember(r)
    BY <1>9 DEF MembershipEnds, MembershipMissed
  <1>10. ASSUME NEW t \in Task, LeaseEnds(t) \/ LeaseMissed(t) PROVE LapseLease(t)
    BY <1>10 DEF LeaseEnds, LeaseMissed
  <1> HIDE DEF Served
  <1>11. ASSUME NEW r \in Resource, AgentStep(r) \/ Start(r) \/ Stop(r)
         PROVE  Served \/ UNCHANGED coordVars
    BY <1>1, <1>2, <1>3, <1>4, <1>5, <1>6, <1>7, <1>11 DEF AgentStep
  <1>12. \/ Served \/ UNCHANGED coordVars
         \/ \E t \in Task : SubmitTask(t) \/ LapseLease(t)
         \/ \E r \in Resource : LapseMember(r)
         \/ MaintenanceTick
    BY <1>8, <1>9, <1>10, <1>11 DEF ProtocolStep
  <1> QED
    BY <1>12 DEF Served

LEMMA LapsedHaveLeases ==
    ASSUME CoordType, NEW t \in Lapsed
    PROVE  t \in Task /\ status[t] = "Running" /\ lease[t] # NoLease
  BY DEF CoordType, Lapsed

LEMMA MaintenanceType ==
    ASSUME CoordType, MaintenanceTick
    PROVE  CoordType'
  <1>1. member' \in [Resource -> [epoch : Nat, fresh : BOOLEAN]]
        /\ holders' \in [Task -> SUBSET Resource]
    BY DEF MaintenanceTick, CoordType, Absent
  <1>2. /\ status' \in [Task -> Statuses]
        /\ \A t \in Task : /\ t \notin Lapsed => status'[t] = status[t]
                           /\ t \in Lapsed => status'[t] \in {"Uncertain", "Pending"}
    BY DEF MaintenanceTick, Reap, CoordType, Statuses
  <1>3. /\ lease' \in [Task -> LeaseType \cup {NoLease}]
        /\ \A t \in Task : lease'[t] = IF t \in Lapsed THEN NoLease ELSE lease[t]
    BY DEF MaintenanceTick, CoordType
  <1>4. UNCHANGED <<winner, granted>>
    BY DEF MaintenanceTick
  <1>5. ASSUME NEW t \in Task PROVE status'[t] = "Running" <=> lease'[t] # NoLease
    <2>1. CASE t \in Lapsed
      <3>1. lease'[t] = NoLease /\ status'[t] \in {"Uncertain", "Pending"}
        BY <1>2, <1>3, <2>1
      <3> QED
        BY <3>1
    <2>2. CASE t \notin Lapsed
      <3>1. lease'[t] = lease[t] /\ status'[t] = status[t]
        BY <1>2, <1>3, <2>2
      <3> QED
        BY <3>1 DEF CoordType
    <2> QED
      BY <2>1, <2>2
  <1> QED
    BY <1>1, <1>2, <1>3, <1>4, <1>5 DEF CoordType

LEMMA MaintenanceGrants ==
    ASSUME CoordType, GrantInv, MaintenanceTick
    PROVE  GrantInv'
  <1>1. \A t \in Task :
          /\ t \notin Lapsed => status'[t] = status[t]
          /\ t \in Lapsed => status'[t] = IF t \in Exclusive THEN "Uncertain" ELSE "Pending"
          /\ lease'[t] = IF t \in Lapsed THEN NoLease ELSE lease[t]
    BY DEF MaintenanceTick, Reap
  <1>2. UNCHANGED <<winner, granted>>
    BY DEF MaintenanceTick
  <1>3. \A t \in Lapsed : status[t] = "Running"
    BY DEF Lapsed
  <1> QED
    BY <1>1, <1>2, <1>3, NothingGranted

LEMMA NextCoord ==
    ASSUME CoordType, GrantInv, AgentType, WireType, ProtocolStep
    PROVE  CoordType' /\ GrantInv'
  <1>1. CASE UNCHANGED coordVars
    <2>1. UNCHANGED <<member, status, lease, winner, holders, granted>>
      BY <1>1 DEF coordVars
    <2>2. CoordType'
      BY <2>1 DEF CoordType
    <2>3. GrantInv'
      BY <2>1, NothingGranted
    <2> QED
      BY <2>2, <2>3
  <1>2. ASSUME NEW m, Sound(m) /\ Accepted(m) /\ Handle(m) PROVE CoordType' /\ GrantInv'
    BY <1>2, HandleType, HandleGrants, NewExecFresh
  <1>3. ASSUME NEW t \in Task, SubmitTask(t) PROVE CoordType' /\ GrantInv'
    <2>1. /\ status' = [status EXCEPT ![t] = "Pending"] /\ status[t] = "Unsubmitted"
          /\ UNCHANGED <<member, lease, winner, holders, granted>>
      BY <1>3 DEF SubmitTask
    <2>2. CoordType'
      BY <2>1 DEF CoordType, Statuses
    <2>3. GrantInv'
      BY <2>1, NothingGranted DEF CoordType
    <2> QED
      BY <2>2, <2>3
  <1>4. ASSUME NEW t \in Task, LapseLease(t) PROVE CoordType' /\ GrantInv'
    <2>1. lease[t] # NoLease /\ UNCHANGED <<member, status, winner, holders, granted>>
      BY <1>4 DEF LapseLease, CoordType
    <2>2. /\ lease' \in [Task -> LeaseType \cup {NoLease}]
          /\ \A u \in Task : lease'[u] = NoLease <=> lease[u] = NoLease
          /\ \A u \in Task : lease[u] # NoLease => lease'[u].exec = lease[u].exec
      BY <1>4, <2>1, LeaseFreshType DEF LapseLease
    <2>3. CoordType'
      BY <2>1, <2>2 DEF CoordType
    <2>4. GrantInv'
      BY <2>1, <2>2, NothingGranted
    <2> QED
      BY <2>3, <2>4
  <1>5. ASSUME NEW r \in Resource, LapseMember(r) PROVE CoordType' /\ GrantInv'
    <2>1. UNCHANGED <<status, lease, winner, holders, granted>>
          /\ member' \in [Resource -> [epoch : Nat, fresh : BOOLEAN]]
      BY <1>5, MemberFreshType DEF LapseMember
    <2> QED
      BY <2>1, NothingGranted DEF CoordType
  <1>6. CASE MaintenanceTick
    BY <1>6, MaintenanceType, MaintenanceGrants
  <1> QED
    BY <1>1, <1>2, <1>3, <1>4, <1>5, <1>6, CoordSteps

-----------------------------------------------------------------------------
(* The agents.                                                             *)

Runs(p) == p.state \in {"up", "rejoin"}

(* Process r becomes p: it keeps its store while it runs, and it has an    *)
(* attempt to report only with its output.                                 *)
Change(r, p) ==
    /\ agent' = [agent EXCEPT ![r] = p]
    /\ p \in ProcessType
    /\ p.busy <=> p.work # NoWork
    /\ p.renewing => p.work # NoWork
    /\ p.work # NoWork => Runs(p)
    /\ p.state # "new" /\ agent[r].state # "gone"
    /\ Runs(p) => agent[r].blobs \subseteq p.blobs
    /\ (p.work # NoWork /\ p.work.stage = "report") =>
          (p.work = agent[r].work \/ p.work.exec \in p.blobs)

SameAttempt(r, p) ==
    p.work # NoWork => /\ agent[r].work # NoWork
                       /\ p.work.task = agent[r].work.task
                       /\ p.work.exec = agent[r].work.exec

NewAttempt(r, p) ==
    /\ Offered(r) # {} /\ BeginExecution(First(r), r)
    /\ p.work.task = First(r) /\ p.work.exec = NewExec

Moves(r) == \E p : Change(r, p) /\ (SameAttempt(r, p) \/ NewAttempt(r, p))

LEMMA ProcessFields ==
    ASSUME AgentType, NEW r \in Resource
    PROVE  /\ agent[r] \in ProcessType
           /\ agent[r].state \in States /\ agent[r].epoch \in Nat
           /\ agent[r].busy \in BOOLEAN /\ agent[r].renewing \in BOOLEAN
           /\ agent[r].work \in WorkType \cup {NoWork}
           /\ agent[r].blobs \in SUBSET Nat
           /\ ProcessSound(r)
  BY DEF AgentType, ProcessType

(* The loop of the worker changes its state and epoch only.                *)
LEMMA StateChange ==
    ASSUME AgentType, NEW r \in Resource, NEW st \in States \ {"new"}, NEW n \in Nat,
           agent' = [agent EXCEPT ![r] = [agent[r] EXCEPT !.state = st, !.epoch = n]],
           agent[r].state # "gone", agent[r].work # NoWork => st # "gone"
    PROVE  Moves(r)
  <1> DEFINE p == [agent[r] EXCEPT !.state = st, !.epoch = n]
  <1>1. /\ agent[r] \in ProcessType /\ agent[r].blobs \in SUBSET Nat
        /\ ProcessSound(r)
    BY ProcessFields
  <1>2. /\ p.state = st /\ p.epoch = n /\ p.busy = agent[r].busy
        /\ p.renewing = agent[r].renewing /\ p.work = agent[r].work
        /\ p.blobs = agent[r].blobs
    BY <1>1 DEF ProcessType
  <1>3. p \in ProcessType
    BY <1>1 DEF ProcessType
  <1> HIDE DEF p
  <1>4. Runs(p) \/ p.state = "gone"
    BY <1>2 DEF Runs, States
  <1>5. agent' = [agent EXCEPT ![r] = p]
    BY DEF p
  <1>6. Change(r, p)
    BY <1>1, <1>2, <1>3, <1>4, <1>5 DEF Change, ProcessSound
  <1>7. SameAttempt(r, p)
    BY <1>2 DEF SameAttempt
  <1> QED
    BY <1>6, <1>7 DEF Moves

(* The end of the work of a process, which may have fetched a blob.        *)
LEMMA FreedChange ==
    ASSUME AgentType, NEW r \in Resource, NEW a \in ProcessType, Alive(r),
           a.state = agent[r].state, agent[r].blobs \subseteq a.blobs,
           agent' = [agent EXCEPT ![r] = Freed(a)]
    PROVE  Moves(r)
  <1> DEFINE p == Freed(a)
  <1>1. p \in ProcessType
    BY DEF ProcessType, Freed
  <1>2. /\ p.state = a.state /\ p.busy = FALSE /\ p.renewing = FALSE
        /\ p.work = NoWork /\ p.blobs = a.blobs
    BY DEF ProcessType, Freed
  <1> HIDE DEF p
  <1>3. agent' = [agent EXCEPT ![r] = p]
    BY DEF p
  <1>4. Change(r, p)
    BY <1>1, <1>2, <1>3 DEF Change, Runs, Alive
  <1>5. SameAttempt(r, p)
    BY <1>2 DEF SameAttempt
  <1> QED
    BY <1>4, <1>5 DEF Moves

(* The work gets on.                                                       *)
LEMMA StageChange ==
    ASSUME AgentType, NEW r \in Resource, NEW p \in ProcessType, NEW st \in {"run", "report"},
           Alive(r), agent[r].work # NoWork,
           p.state = agent[r].state, p.busy = agent[r].busy,
           p.work = [agent[r].work EXCEPT !.stage = st],
           agent[r].blobs \subseteq p.blobs,
           st = "report" => agent[r].work.exec \in p.blobs,
           agent' = [agent EXCEPT ![r] = p]
    PROVE  Moves(r)
  <1>1. agent[r].work \in WorkType /\ ProcessSound(r)
    BY ProcessFields
  <1>2. /\ p.work \in WorkType /\ p.work.stage = st
        /\ p.work.task = agent[r].work.task /\ p.work.exec = agent[r].work.exec
    BY <1>1 DEF WorkType
  <1>3. p.work # NoWork
    BY <1>2, AgentsAssumption
  <1>4. p.busy
    BY <1>1 DEF ProcessSound
  <1>5. Change(r, p)
    BY <1>2, <1>3, <1>4 DEF Change, Runs, Alive
  <1>6. SameAttempt(r, p)
    BY <1>2 DEF SameAttempt
  <1> QED
    BY <1>5, <1>6 DEF Moves

LEMMA JoinChange ==
    ASSUME CoordType, AgentType, NEW r \in Resource, Start(r) \/ Rejoin(r)
    PROVE  Moves(r)
  <1>1. agent \in [Resource -> ProcessType] /\ agent[r] \in ProcessType
        /\ agent[r].epoch \in Nat /\ member[r].epoch \in Nat
    BY ProcessFields DEF AgentType, CoordType
  <1>2. CASE agent' = [agent EXCEPT ![r].state = "up", ![r].epoch = member[r].epoch + 1]
    <2> DEFINE n == member[r].epoch + 1
               st == "up"
    <2>1. agent' = [agent EXCEPT ![r] = [agent[r] EXCEPT !.state = st, !.epoch = n]]
      BY <1>1, <1>2
    <2>2. agent[r].state # "gone"
      BY DEF Start, Rejoin
    <2>3. n \in Nat /\ st \in States \ {"new"} /\ st # "gone"
      BY <1>1 DEF States
    <2> HIDE DEF n, st
    <2> QED
      BY <2>1, <2>2, <2>3, StateChange
  <1>3. ASSUME NEW st \in {"up", "gone"}, agent' = [agent EXCEPT ![r].state = st],
               agent[r].state # "gone", agent[r].work # NoWork => st # "gone"
        PROVE  Moves(r)
    <2>1. agent' = [agent EXCEPT ![r] = [agent[r] EXCEPT !.state = st, !.epoch = agent[r].epoch]]
      BY <1>1, <1>3 DEF ProcessType
    <2> QED
      BY <1>1, <1>3, <2>1, StateChange DEF States
  <1>4. CASE Start(r)
    <2>1. agent[r].state # "gone" /\ agent[r].work = NoWork
      BY <1>4, ProcessFields DEF Start, ProcessSound, Alive
    <2>2. \/ agent' = [agent EXCEPT ![r].state = "up", ![r].epoch = member[r].epoch + 1]
          \/ agent' = [agent EXCEPT ![r].state = "gone"]
      BY <1>4 DEF Start
    <2> QED
      BY <1>2, <1>3, <2>1, <2>2
  <1>5. CASE Rejoin(r)
    <2>1. agent[r].state # "gone"
      BY <1>5 DEF Rejoin
    <2>2. \/ agent' = [agent EXCEPT ![r].state = "up", ![r].epoch = member[r].epoch + 1]
          \/ agent' = [agent EXCEPT ![r].state = "up"]
      BY <1>5 DEF Rejoin
    <2> QED
      BY <1>2, <1>3, <2>1, <2>2
  <1> QED
    BY <1>4, <1>5

LEMMA HeartbeatChange ==
    ASSUME AgentType, NEW r \in Resource, HeartbeatTick(r)
    PROVE  UNCHANGED agent \/ Moves(r)
  <1>1. agent \in [Resource -> ProcessType] /\ agent[r] \in ProcessType
        /\ agent[r].epoch \in Nat
    BY ProcessFields DEF AgentType
  <1>2. agent[r].state # "gone"
    BY DEF HeartbeatTick
  <1>3. CASE agent' = [agent EXCEPT ![r].state = "rejoin"]
    <2> DEFINE st == "rejoin"
    <2>1. agent' = [agent EXCEPT ![r] = [agent[r] EXCEPT !.state = st,
                                                         !.epoch = agent[r].epoch]]
      BY <1>1, <1>3 DEF ProcessType
    <2>2. st \in States \ {"new"} /\ st # "gone"
      BY DEF States
    <2> HIDE DEF st
    <2> QED
      BY <1>1, <1>2, <2>1, <2>2, StateChange
  <1> QED
    BY <1>3 DEF HeartbeatTick

(* The work as the poll hands it out.                                      *)
LEMMA PollChange ==
    ASSUME CoordType, GrantInv, AgentType, NEW r \in Resource, PollTick(r)
    PROVE  UNCHANGED agent \/ Moves(r)
  <1>1. CASE agent' # agent
    <2> DEFINE t == First(r)
               w == [task |-> t, exec |-> NewExec, epoch |-> member[r].epoch,
                     stage |-> "fetch",
                     replicas |-> IF Input[t] = NoTask THEN {} ELSE holders[Input[t]]]
               p == [agent[r] EXCEPT !.busy = TRUE, !.renewing = TRUE, !.work = w]
               m == Request("poll", r)
    <2>1. /\ Offered(r) # {} /\ agent' = [agent EXCEPT ![r] = p]
          /\ Handle(m) /\ agent[r].state = "up"
      BY <1>1 DEF PollTick, WithWork
    <2>2. m.kind = "poll" /\ m.resource = r
      BY DEF Request
    <2>3. BeginExecution(t, r)
      BY <2>1, <2>2 DEF Handle
    <2>4. t \in Task
      BY <2>1, FirstIsOffered, OfferedTask
    <2>5. NewExec \in Nat /\ member[r].epoch \in Nat
      BY NewExecFresh DEF CoordType
    <2>6. (IF Input[t] = NoTask THEN {} ELSE holders[Input[t]]) \in SUBSET Resource
      BY <2>4, AgentsAssumption DEF CoordType
    <2>7. w \in WorkType /\ w.task = t /\ w.exec = NewExec /\ w.stage = "fetch"
      BY <2>4, <2>5, <2>6 DEF WorkType
    <2>8. w # NoWork
      BY <2>7, AgentsAssumption
    <2> HIDE DEF t, w, m
    <2>9. agent[r] \in ProcessType
      BY ProcessFields
    <2>10. /\ p \in ProcessType /\ p.busy = TRUE /\ p.work = w
           /\ p.state = agent[r].state /\ p.blobs = agent[r].blobs
      BY <2>7, <2>9 DEF ProcessType
    <2> HIDE DEF p
    <2>11. Change(r, p)
      BY <2>1, <2>7, <2>8, <2>10 DEF Change, Runs
    <2>12. NewAttempt(r, p)
      BY <2>1, <2>3, <2>7, <2>10 DEF NewAttempt, t
    <2> QED
      BY <2>11, <2>12 DEF Moves
  <1> QED
    BY <1>1

LEMMA FetchChange ==
    ASSUME CoordType, AgentType, NEW r \in Resource, FetchInput(r)
    PROVE  Moves(r)
  <1>1. /\ Alive(r) /\ agent[r].work # NoWork
        /\ agent \in [Resource -> ProcessType] /\ agent[r] \in ProcessType
        /\ agent[r].work \in WorkType /\ agent[r].blobs \in SUBSET Nat
    BY ProcessFields DEF FetchInput, Working, AgentType
  <1>2. agent[r].work.task \in Task
    BY <1>1 DEF WorkType
  <1> DEFINE w == [agent[r].work EXCEPT !.stage = "run"]
             f == Fetched(r)
             q == [agent[r] EXCEPT !.work = w]
  <1>3. w \in WorkType
    BY <1>1 DEF WorkType
  <1>4. /\ q \in ProcessType /\ q.state = agent[r].state /\ q.busy = agent[r].busy
        /\ q.work = w /\ q.blobs = agent[r].blobs
    BY <1>1, <1>3 DEF ProcessType
  <1>5. ASSUME Input[agent[r].work.task] # NoTask
        PROVE  /\ f \in ProcessType /\ f.state = agent[r].state /\ f.busy = agent[r].busy
               /\ f.work = w /\ agent[r].blobs \subseteq f.blobs
    <2>1. InputBlob(agent[r].work.task) \in Nat
      BY <1>2, <1>5, AgentsAssumption DEF InputBlob, CoordType
    <2> DEFINE b == agent[r].blobs \cup {InputBlob(agent[r].work.task)}
    <2>2. b \in SUBSET Nat /\ agent[r].blobs \subseteq b
      BY <1>1, <2>1
    <2>3. f = [agent[r] EXCEPT !.work = w, !.blobs = b]
      BY <1>1 DEF Fetched, ProcessType
    <2> HIDE DEF b, w, f
    <2> QED
      BY <1>1, <1>3, <2>2, <2>3 DEF ProcessType
  <1>6. CASE agent' = [agent EXCEPT ![r].work.stage = "run"]
    <2>1. agent' = [agent EXCEPT ![r] = q]
      BY <1>1, <1>6
    <2> HIDE DEF q
    <2> QED
      BY <1>1, <1>4, <2>1, StageChange
  <1> HIDE DEF f
  <1>7. CASE Input[agent[r].work.task] # NoTask /\ agent' = [agent EXCEPT ![r] = f]
    BY <1>1, <1>5, <1>7, StageChange
  <1>8. CASE Input[agent[r].work.task] # NoTask /\ agent' = [agent EXCEPT ![r] = Freed(f)]
    BY <1>1, <1>5, <1>8, FreedChange
  <1>9. CASE GiveUp(r)
    BY <1>1, <1>9, FreedChange DEF GiveUp
  <1> QED
    BY <1>6, <1>7, <1>8, <1>9 DEF FetchInput, f

LEMMA ExecuteChange ==
    ASSUME AgentType, NEW r \in Resource, Execute(r)
    PROVE  Moves(r)
  <1>1. /\ Alive(r) /\ agent[r].work # NoWork
        /\ agent \in [Resource -> ProcessType] /\ agent[r] \in ProcessType
        /\ agent[r].work \in WorkType /\ agent[r].blobs \in SUBSET Nat
    BY ProcessFields DEF Execute, Working, AgentType
  <1>2. agent[r].work.exec \in Nat
    BY <1>1 DEF WorkType
  <1> DEFINE w == [agent[r].work EXCEPT !.stage = "report"]
             b == agent[r].blobs \cup {agent[r].work.exec}
             p == [agent[r] EXCEPT !.work = w, !.renewing = FALSE, !.blobs = b]
  <1>3. w \in WorkType
    BY <1>1 DEF WorkType
  <1>4. b \in SUBSET Nat
    BY <1>1, <1>2
  <1>5. /\ p \in ProcessType /\ p.state = agent[r].state /\ p.busy = agent[r].busy
        /\ p.work = w /\ p.blobs = b
    BY <1>1, <1>3, <1>4 DEF ProcessType
  <1>6. CASE agent' = [agent EXCEPT ![r].work.stage = "report", ![r].renewing = FALSE,
                                    ![r].blobs = @ \cup {agent[r].work.exec}]
    <2>1. agent' = [agent EXCEPT ![r] = p]
      BY <1>1, <1>6 DEF ProcessType
    <2>2. agent[r].blobs \subseteq p.blobs /\ agent[r].work.exec \in p.blobs
      BY <1>5
    <2> HIDE DEF p
    <2> QED
      BY <1>1, <1>5, <2>1, <2>2, StageChange
  <1>7. CASE GiveUp(r)
    BY <1>1, <1>7, FreedChange DEF GiveUp
  <1> QED
    BY <1>6, <1>7 DEF Execute

LEMMA ReportChange ==
    ASSUME AgentType, NEW r \in Resource, Report(r)
    PROVE  Moves(r)
  BY ProcessFields, FreedChange DEF Report, Working, GiveUp

LEMMA RenewChange ==
    ASSUME AgentType, NEW r \in Resource, RenewTick(r)
    PROVE  UNCHANGED agent \/ Moves(r)
  <1>1. /\ agent \in [Resource -> ProcessType] /\ agent[r] \in ProcessType
        /\ ProcessSound(r) /\ Alive(r)
    BY ProcessFields DEF AgentType, RenewTick
  <1> DEFINE p == [agent[r] EXCEPT !.renewing = FALSE]
  <1>2. UNCHANGED agent \/ agent' = [agent EXCEPT ![r].renewing = FALSE]
    BY DEF RenewTick
  <1>3. CASE agent' = [agent EXCEPT ![r].renewing = FALSE]
    <2>1. agent' = [agent EXCEPT ![r] = p]
      BY <1>1, <1>3
    <2>2. /\ p \in ProcessType /\ p.state = agent[r].state /\ p.busy = agent[r].busy
          /\ p.work = agent[r].work /\ p.blobs = agent[r].blobs /\ p.renewing = FALSE
      BY <1>1 DEF ProcessType
    <2> HIDE DEF p
    <2>3. Change(r, p)
      BY <1>1, <2>1, <2>2 DEF Change, Runs, Alive, ProcessSound
    <2>4. SameAttempt(r, p)
      BY <2>2 DEF SameAttempt
    <2> QED
      BY <2>3, <2>4 DEF Moves
  <1> QED
    BY <1>2, <1>3

LEMMA StopChange ==
    ASSUME AgentType, NEW r \in Resource, Stop(r)
    PROVE  Moves(r)
  <1> DEFINE p == Process("gone")
  <1>1. agent' = [agent EXCEPT ![r] = p] /\ agent[r].state # "gone"
    BY DEF Stop, Alive
  <1>2. /\ p \in ProcessType /\ p.state = "gone" /\ p.work = NoWork /\ p.busy = FALSE
        /\ p.renewing = FALSE
    BY DEF Process, ProcessType, States
  <1> HIDE DEF p
  <1>3. Change(r, p)
    BY <1>1, <1>2 DEF Change, Runs
  <1>4. SameAttempt(r, p)
    BY <1>2 DEF SameAttempt
  <1> QED
    BY <1>3, <1>4 DEF Moves

LEMMA NextAgents ==
    ASSUME CoordType, GrantInv, AgentType, ProtocolStep
    PROVE  UNCHANGED agent \/ \E r \in Resource : Moves(r)
  <1>1. ASSUME NEW r \in Resource, Start(r) \/ Stop(r) \/ AgentStep(r)
        PROVE  UNCHANGED agent \/ Moves(r)
    BY <1>1, JoinChange, HeartbeatChange, PollChange, FetchChange, ExecuteChange,
       ReportChange, RenewChange, StopChange DEF AgentStep
  <1>2. ASSUME NEW t \in Task, SubmitTask(t) \/ LeaseEnds(t) \/ LeaseMissed(t)
        PROVE  UNCHANGED agent
    BY <1>2 DEF SubmitTask, LeaseEnds, LeaseMissed, LapseLease
  <1>3. ASSUME NEW r \in Resource, MembershipEnds(r) \/ MembershipMissed(r)
        PROVE  UNCHANGED agent
    BY <1>3 DEF MembershipEnds, MembershipMissed, LapseMember
  <1>4. ASSUME NEW m \in wire, DeliverLate(m) PROVE UNCHANGED agent
    BY <1>4 DEF DeliverLate
  <1>5. MaintenanceTick => UNCHANGED agent
    BY DEF MaintenanceTick
  <1> QED
    BY <1>1, <1>2, <1>3, <1>4, <1>5 DEF ProtocolStep

LEMMA ChangeType ==
    ASSUME AgentType, NEW r \in Resource, NEW p, Change(r, p)
    PROVE  AgentType'
  <1>1. agent' \in [Resource -> ProcessType]
    BY DEF Change, AgentType
  <1>2. agent'[r] = p /\ \A s \in Resource \ {r} : agent'[s] = agent[s]
    BY DEF Change, AgentType
  <1>3. ASSUME NEW s \in Resource PROVE ProcessSound(s)'
    <2>1. CASE s = r
      BY <1>2, <2>1 DEF Change, ProcessSound, Alive, Runs
    <2>2. CASE s # r
      BY <1>2, <2>2 DEF AgentType, ProcessSound, Alive
    <2> QED
      BY <2>1, <2>2
  <1> QED
    BY <1>1, <1>3 DEF AgentType

(* Attempts are never forgotten.                                           *)
LEMMA GrantsGrow ==
    ASSUME CoordType, AgentType, WireType, ProtocolStep
    PROVE  \A t \in Task : granted[t] \subseteq granted'[t]
  <1>1. ASSUME NEW m, Sound(m) /\ Accepted(m) /\ Handle(m)
        PROVE  \A t \in Task : granted[t] \subseteq granted'[t]
    <2>1. \/ UNCHANGED granted
          \/ \E u : granted' = [granted EXCEPT ![u] = @ \cup {NewExec}]
      BY <1>1 DEF Handle, Register, Heartbeat, BeginExecution, RenewExecution,
                 CompleteExecution, RegisterReplica, coordVars
    <2> QED
      BY <2>1 DEF CoordType
  <1>2. (\/ UNCHANGED coordVars
         \/ \E t \in Task : SubmitTask(t) \/ LapseLease(t)
         \/ \E r \in Resource : LapseMember(r)
         \/ MaintenanceTick) => UNCHANGED granted
    BY DEF coordVars, SubmitTask, LapseLease, LapseMember, MaintenanceTick
  <1> QED
    BY <1>1, <1>2, CoordSteps

LEMMA NextWork ==
    ASSUME CoordType, GrantInv, AgentType, WireType, WorkInv, ProtocolStep
    PROVE  AgentType' /\ WorkInv'
  <1>0. \A t \in Task : granted[t] \subseteq granted'[t]
    BY GrantsGrow
  <1>1. CASE UNCHANGED agent
    <2>1. AgentType'
      BY <1>1 DEF AgentType, ProcessSound, Alive
    <2>2. \A r \in Resource : agent[r].work # NoWork => agent[r].work.task \in Task
      BY ProcessFields DEF WorkType
    <2>3. WorkInv'
      BY <1>0, <1>1, <2>2 DEF WorkInv
    <2> QED
      BY <2>1, <2>3
  <1>2. ASSUME NEW r \in Resource, NEW p, Change(r, p), SameAttempt(r, p) \/ NewAttempt(r, p)
        PROVE  AgentType' /\ WorkInv'
    <2>1. AgentType'
      BY <1>2, ChangeType
    <2>2. agent'[r] = p /\ \A s \in Resource \ {r} : agent'[s] = agent[s]
      BY <1>2 DEF Change, AgentType
    <2>3. \A s \in Resource : agent[s].work # NoWork =>
             /\ agent[s].work.task \in Task
             /\ agent[s].work.exec \in granted[agent[s].work.task]
      BY ProcessFields DEF WorkType, WorkInv
    <2>4. ASSUME SameAttempt(r, p) PROVE WorkInv'
      BY <1>0, <2>2, <2>3, <2>4 DEF WorkInv, SameAttempt
    <2>5. ASSUME NewAttempt(r, p) PROVE WorkInv'
      <3>1. First(r) \in Task
        BY <2>5, FirstIsOffered, OfferedTask DEF NewAttempt
      <3>2. NewExec \in granted'[First(r)]
        BY <2>5, <3>1 DEF NewAttempt, BeginExecution, CoordType
      <3>3. \A s \in Resource : agent[s].work # NoWork => agent[s].work.exec # NewExec
        BY <2>3, NewExecFresh
      <3>4. p.work.task = First(r) /\ p.work.exec = NewExec
        BY <2>5 DEF NewAttempt
      <3> QED
        BY <1>0, <2>2, <2>3, <3>2, <3>3, <3>4 DEF WorkInv
    <2> QED
      BY <1>2, <2>1, <2>4, <2>5
  <1> QED
    BY <1>1, <1>2, NextAgents DEF Moves

-----------------------------------------------------------------------------
(* The bytes.                                                              *)

HasBlobNext(r, e) == agent'[r].state # "new" /\ (Runs(agent'[r]) => e \in agent'[r].blobs)

(* A store is not taken from: a running agent keeps what it has, and one   *)
(* that is gone does not come back.                                        *)
LEMMA BlobsStay ==
    ASSUME CoordType, GrantInv, AgentType, ProtocolStep, NEW s \in Resource, NEW e, HasBlob(s, e)
    PROVE  HasBlobNext(s, e)
  <1>1. CASE UNCHANGED agent
    BY <1>1 DEF HasBlob, HasBlobNext, Alive, Runs
  <1>2. ASSUME NEW r \in Resource, NEW p, Change(r, p) PROVE HasBlobNext(s, e)
    <2>1. agent'[r] = p /\ \A q \in Resource \ {r} : agent'[q] = agent[q]
      BY <1>2 DEF Change, AgentType
    <2>2. CASE s = r
      <3>1. agent[r].state \in States
        BY ProcessFields
      <3>2. Alive(r) /\ p.state # "new"
        BY <1>2, <2>2, <3>1 DEF Change, HasBlob, Alive, States
      <3> QED
        BY <1>2, <2>1, <2>2, <3>2 DEF Change, HasBlob, HasBlobNext
    <2>3. CASE s # r
      BY <2>1, <2>3 DEF HasBlob, HasBlobNext, Alive, Runs
    <2> QED
      BY <2>2, <2>3
  <1> QED
    BY <1>1, <1>2, NextAgents DEF Moves

(* A request that announces bytes is made by an agent that has them.       *)
Vouched(m) ==
    /\ m.kind = "complete" => HasBlobNext(m.resource, m.exec)
    /\ m.kind = "replica" => /\ status[m.task] = "Completed"
                             /\ HasBlobNext(m.resource, winner[m.task])

(* A step about the request m: it is answered, refused or given up.        *)
Serves(m) ==
    /\ Sound(m) /\ Vouched(m)
    /\ wire' \subseteq wire \cup {m}
    /\ UNCHANGED coordVars \/ (Accepted(m) /\ Handle(m))

LEMMA LoopServes ==
    ASSUME AgentType, NEW r \in Resource,
           Start(r) \/ Rejoin(r) \/ HeartbeatTick(r) \/ PollTick(r) \/ RenewTick(r)
    PROVE  \E m : Serves(m)
  <1>1. ASSUME NEW m, Sound(m), m.kind \notin {"complete", "replica"},
               \/ (Accepted(m) /\ Handle(m) /\ NoFault)
               \/ (UNCHANGED coordVars /\ NoFault)
               \/ Fails(m)
        PROVE  Serves(m)
    BY <1>1 DEF Serves, Vouched, NoFault, Fails
  <1>2. CASE Start(r) \/ Rejoin(r)
    <2> DEFINE m == Request("register", r)
    <2>1. Sound(m) /\ m.kind = "register"
      BY RequestSound
    <2>2. Accepted(m)
      BY <2>1 DEF Accepted
    <2>3. (Handle(m) /\ NoFault) \/ Fails(m)
      BY <1>2 DEF Start, Rejoin
    <2> HIDE DEF m
    <2> QED
      BY <1>1, <2>1, <2>2, <2>3
  <1>3. CASE HeartbeatTick(r)
    <2> DEFINE m == Request("heartbeat", r)
    <2>1. Sound(m) /\ m.kind = "heartbeat"
      BY RequestSound
    <2>2. \/ (Accepted(m) /\ Handle(m) /\ NoFault)
          \/ (UNCHANGED coordVars /\ NoFault)
          \/ Fails(m)
      BY <1>3 DEF HeartbeatTick
    <2> HIDE DEF m
    <2> QED
      BY <1>1, <2>1, <2>2
  <1>4. CASE PollTick(r)
    <2> DEFINE m == Request("poll", r)
    <2>1. Sound(m) /\ m.kind = "poll"
      BY RequestSound
    <2>2. \/ (Accepted(m) /\ Handle(m) /\ NoFault)
          \/ (UNCHANGED coordVars /\ NoFault)
          \/ Fails(m)
      BY <1>4 DEF PollTick
    <2> HIDE DEF m
    <2> QED
      BY <1>1, <2>1, <2>2
  <1>5. CASE RenewTick(r)
    <2> DEFINE m == LeaseRequest("renew", r)
    <2>1. agent[r].work # NoWork
      BY <1>5, ProcessFields DEF RenewTick, ProcessSound
    <2>2. Sound(m) /\ m.kind = "renew"
      BY <2>1, RequestSound
    <2>3. \/ (Accepted(m) /\ Handle(m) /\ NoFault)
          \/ (UNCHANGED coordVars /\ NoFault)
          \/ Fails(m)
      BY <1>5 DEF RenewTick
    <2> HIDE DEF m
    <2> QED
      BY <1>1, <2>2, <2>3
  <1> QED
    BY <1>2, <1>3, <1>4, <1>5

LEMMA ReportServes ==
    ASSUME CoordType, GrantInv, AgentType, BytesInv, ProtocolStep, NEW r \in Resource, Report(r)
    PROVE  \E m : Serves(m)
  <1> DEFINE m == LeaseRequest("complete", r)
  <1>1. /\ agent[r].work # NoWork /\ agent[r].work.stage = "report"
        /\ Alive(r) /\ agent[r].work.exec \in agent[r].blobs
    BY DEF Report, Working, BytesInv
  <1>2. Sound(m) /\ m.kind = "complete" /\ m.resource = r /\ m.exec = agent[r].work.exec
    BY <1>1, RequestSound DEF LeaseRequest
  <1>3. HasBlob(r, agent[r].work.exec)
    BY <1>1 DEF HasBlob, Alive
  <1>4. \/ (Accepted(m) /\ Handle(m) /\ NoFault)
        \/ (UNCHANGED coordVars /\ NoFault)
        \/ Fails(m)
    BY DEF Report
  <1> HIDE DEF m
  <1>5. Vouched(m)
    BY <1>2, <1>3, BlobsStay DEF Vouched
  <1>6. Serves(m)
    BY <1>2, <1>4, <1>5 DEF Serves, NoFault, Fails
  <1> QED
    BY <1>6

LEMMA FetchServes ==
    ASSUME CoordType, GrantInv, AgentType, BytesInv, NEW r \in Resource, FetchInput(r)
    PROVE  (UNCHANGED coordVars /\ UNCHANGED wire) \/ \E m : Serves(m)
  <1> DEFINE m == ReplicaRequest(r)
             t == agent[r].work.task
  <1>1. /\ agent[r].work # NoWork /\ agent[r] \in ProcessType /\ Alive(r)
        /\ agent[r].work \in WorkType /\ agent \in [Resource -> ProcessType]
    BY ProcessFields DEF FetchInput, Working, AgentType
  <1>2. t \in Task
    BY <1>1 DEF WorkType
  <1>3. CASE /\ Input[t] # NoTask
             /\ \/ (Accepted(m) /\ Handle(m) /\ NoFault)
                \/ (UNCHANGED coordVars /\ NoFault)
                \/ Fails(m)
             /\ \/ agent' = [agent EXCEPT ![r] = Fetched(r)]
                \/ agent' = [agent EXCEPT ![r] = Freed(Fetched(r))]
    <2>1. Sound(m) /\ m.kind = "replica" /\ m.resource = r /\ m.task = Input[t]
      BY <1>1, <1>3, RequestSound DEF ReplicaRequest
    <2>2. status[Input[t]] = "Completed"
      BY <1>1, <1>2, <1>3 DEF BytesInv
    <2>3. /\ Fetched(r).state = agent[r].state /\ winner[Input[t]] \in Fetched(r).blobs
          /\ Freed(Fetched(r)).state = Fetched(r).state
          /\ Freed(Fetched(r)).blobs = Fetched(r).blobs
      BY <1>1 DEF Fetched, Freed, InputBlob, ProcessType
    <2>4. HasBlobNext(r, winner[Input[t]])
      <3>1. agent'[r].state = agent[r].state /\ winner[Input[t]] \in agent'[r].blobs
        BY <1>1, <1>3, <2>3
      <3> QED
        BY <1>1, <3>1 DEF HasBlobNext, Alive
    <2> HIDE DEF m
    <2>5. Vouched(m)
      BY <2>1, <2>2, <2>4 DEF Vouched
    <2>6. Serves(m)
      BY <1>3, <2>1, <2>5 DEF Serves, NoFault, Fails
    <2> QED
      BY <2>6
  <1>4. CASE UNCHANGED coordVars /\ NoFault
    BY <1>4 DEF NoFault
  <1> QED
    BY <1>3, <1>4 DEF FetchInput

(* Time passes, or a client submits.                                       *)
Unasked ==
    \/ \E t \in Task : SubmitTask(t) \/ LapseLease(t)
    \/ \E r \in Resource : LapseMember(r)
    \/ MaintenanceTick

LEMMA NextServes ==
    ASSUME TypeInv, GrantInv, BytesInv, ProtocolStep
    PROVE  \/ \E m : Serves(m)
           \/ UNCHANGED wire /\ (UNCHANGED coordVars \/ Unasked)
  <1> USE DEF TypeInv
  <1>1. ASSUME NEW r \in Resource, AgentStep(r) \/ Start(r)
        PROVE  (\E m : Serves(m)) \/ (UNCHANGED wire /\ UNCHANGED coordVars)
    BY <1>1, LoopServes, ReportServes, FetchServes DEF AgentStep, Execute
  <1>2. ASSUME NEW r \in Resource, Stop(r) PROVE UNCHANGED wire /\ UNCHANGED coordVars
    BY <1>2 DEF Stop
  <1>3. ASSUME NEW m \in wire, DeliverLate(m) PROVE Serves(m)
    <2>1. Sound(m)
      BY DEF WireType, Sound
    <2>2. m.resource \in Resource
      BY <2>1 DEF Sound, RequestType
    <2>3. Vouched(m)
      BY <2>2, BlobsStay DEF BytesInv, Vouched
    <2> QED
      BY <1>3, <2>1, <2>3 DEF DeliverLate, Serves
  <1>4. ASSUME NEW r \in Resource, MembershipEnds(r) \/ MembershipMissed(r)
        PROVE  UNCHANGED wire /\ LapseMember(r)
    BY <1>4 DEF MembershipEnds, MembershipMissed, LapseMember
  <1>5. ASSUME NEW t \in Task, LeaseEnds(t) \/ LeaseMissed(t) PROVE UNCHANGED wire /\ LapseLease(t)
    BY <1>5 DEF LeaseEnds, LeaseMissed, LapseLease
  <1>6. ASSUME NEW t \in Task, SubmitTask(t) PROVE UNCHANGED wire
    BY <1>6 DEF SubmitTask
  <1>7. MaintenanceTick => UNCHANGED wire
    BY DEF MaintenanceTick
  <1> QED
    BY <1>1, <1>2, <1>3, <1>4, <1>5, <1>6, <1>7 DEF ProtocolStep, Unasked

(* What a step does to the record of task t.                               *)
Progress(t) ==
    /\ status[t] = "Completed" => status'[t] = "Completed" /\ winner'[t] = winner[t]
    /\ status[t] # "Unsubmitted" => status'[t] # "Unsubmitted"
    /\ (status[t] = "Unsubmitted" /\ status'[t] # "Unsubmitted" /\ Input[t] # NoTask) =>
          status[Input[t]] = "Completed"

Recorded(m, t, h) ==
    \/ h \in holders[t] /\ winner'[t] = winner[t]
    \/ m.kind = "complete" /\ h = m.resource /\ winner'[t] = m.exec
    \/ m.kind = "replica" /\ h = m.resource /\ t = m.task /\ winner'[t] = winner[t]

LEMMA HandleEffect ==
    ASSUME CoordType, NEW m, Sound(m), Accepted(m), Handle(m), NEW t \in Task
    PROVE  Progress(t) /\ \A h \in holders'[t] : Recorded(m, t, h)
  <1>1. CASE m.kind \in {"register", "heartbeat", "renew"} \/ UNCHANGED coordVars
    <2>1. UNCHANGED <<status, winner, holders>>
      BY <1>1 DEF Handle, Register, Heartbeat, RenewExecution, coordVars
    <2> QED
      BY <2>1 DEF Progress, Recorded
  <1>2. CASE m.kind = "poll" /\ Offered(m.resource) # {}
    <2> DEFINE u == First(m.resource)
    <2>1. /\ u \in Task /\ status[u] = "Pending" /\ Reachable(u, m.resource)
          /\ BeginExecution(u, m.resource)
      BY <1>2, FirstIsOffered, OfferedTask DEF Handle
    <2>2. status' = [status EXCEPT ![u] = "Running"] /\ UNCHANGED <<winner, holders>>
      BY <2>1 DEF BeginExecution
    <2> HIDE DEF u
    <2> QED
      BY <2>1, <2>2 DEF Progress, Recorded, CoordType
  <1>3. CASE m.kind = "complete"
    <2>1. CompleteExecution(m) /\ m.task \in Task /\ status[m.task] = "Running"
      BY <1>3 DEF Handle, Accepted, AttemptCurrent, Sound
    <2>2. CASE t = m.task
      <3>1. status'[t] = "Completed" /\ winner'[t] = m.exec /\ holders'[t] = {m.resource}
        BY <2>1, <2>2 DEF CompleteExecution, CoordType
      <3> QED
        BY <1>3, <2>1, <2>2, <3>1 DEF Progress, Recorded
    <2>3. CASE t # m.task
      <3>1. status'[t] = status[t] /\ winner'[t] = winner[t] /\ holders'[t] = holders[t]
        BY <2>1, <2>3 DEF CompleteExecution, CoordType
      <3> QED
        BY <3>1 DEF Progress, Recorded
    <2> QED
      BY <2>2, <2>3
  <1>4. CASE m.kind = "replica"
    <2>1. RegisterReplica(m.task, m.resource) /\ m.task \in Task
      BY <1>4 DEF Handle, Sound
    <2>2. UNCHANGED <<status, winner>>
          /\ \A h \in holders'[t] : h \in holders[t] \/ (t = m.task /\ h = m.resource)
      BY <2>1 DEF RegisterReplica, CoordType
    <2> QED
      BY <1>4, <2>2 DEF Progress, Recorded
  <1>5. m.kind \in Kinds
    BY DEF Sound, RequestType
  <1>6. CASE m.kind = "poll" /\ Offered(m.resource) = {}
    BY <1>1, <1>6 DEF Handle
  <1> QED
    BY <1>1, <1>2, <1>3, <1>4, <1>5, <1>6 DEF Kinds

LEMMA UnaskedEffect ==
    ASSUME CoordType, Unasked, NEW t \in Task
    PROVE  Progress(t) /\ winner'[t] = winner[t] /\ holders'[t] \subseteq holders[t]
  <1>1. ASSUME NEW u \in Task, SubmitTask(u)
        PROVE  Progress(t) /\ winner'[t] = winner[t] /\ holders'[t] \subseteq holders[t]
    <2>1. /\ status[u] = "Unsubmitted" /\ status' = [status EXCEPT ![u] = "Pending"]
          /\ Input[u] # NoTask => status[Input[u]] = "Completed"
          /\ UNCHANGED <<winner, holders>>
      BY <1>1 DEF SubmitTask
    <2> QED
      BY <2>1 DEF Progress, CoordType
  <1>2. CASE UNCHANGED <<status, winner, holders>>
    BY <1>2 DEF Progress
  <1>3. CASE MaintenanceTick
    <2>1. /\ UNCHANGED winner /\ holders'[t] \subseteq holders[t]
          /\ t \notin Lapsed => status'[t] = status[t]
          /\ t \in Lapsed => status'[t] \in {"Uncertain", "Pending"}
      BY <1>3 DEF MaintenanceTick, Reap
    <2>2. CASE t \in Lapsed
      <3>1. status[t] = "Running" /\ status'[t] \in {"Uncertain", "Pending"}
        BY <2>1, <2>2 DEF Lapsed
      <3> QED
        BY <2>1, <3>1 DEF Progress
    <2>3. CASE t \notin Lapsed
      BY <2>1, <2>3 DEF Progress
    <2> QED
      BY <2>1, <2>2, <2>3
  <1> QED
    BY <1>1, <1>2, <1>3 DEF Unasked, LapseLease, LapseMember

LEMMA NextBytes ==
    ASSUME TypeInv, GrantInv, BytesInv, ProtocolStep
    PROVE  BytesInv'
  <1> USE DEF TypeInv
  <1>1. \A r \in Resource : \A e : HasBlob(r, e) => HasBlobNext(r, e)
    BY BlobsStay
  <1>2. \A t \in Task : Progress(t)
    <2>1. UNCHANGED coordVars => \A t \in Task : Progress(t)
      BY DEF coordVars, Progress
    <2> QED
      BY <2>1, NextServes, HandleEffect, UnaskedEffect DEF Serves
  <1>3. ASSUME NEW t \in Task, NEW h \in holders'[t] PROVE HasBlobNext(h, winner'[t])
    <2>1. ASSUME h \in holders[t], winner'[t] = winner[t] PROVE HasBlobNext(h, winner'[t])
      <3>1. h \in Resource /\ HasBlob(h, winner[t])
        BY <2>1 DEF CoordType, BytesInv
      <3> QED
        BY <1>1, <2>1, <3>1
    <2>2. ASSUME NEW m, Serves(m) PROVE HasBlobNext(h, winner'[t])
      <3>1. UNCHANGED coordVars \/ Recorded(m, t, h)
        BY <2>2, HandleEffect DEF Serves
      <3>2. CASE UNCHANGED coordVars
        BY <2>1, <3>2 DEF coordVars
      <3>3. CASE Recorded(m, t, h)
        BY <2>1, <2>2, <3>3 DEF Recorded, Serves, Vouched
      <3> QED
        BY <3>1, <3>2, <3>3
    <2>3. CASE UNCHANGED coordVars
      BY <2>1, <2>3 DEF coordVars
    <2>4. CASE Unasked
      BY <2>1, <2>4, UnaskedEffect
    <2> QED
      BY <2>2, <2>3, <2>4, NextServes
  <1>4. ASSUME NEW m \in wire'
        PROVE  /\ m.kind = "complete" => HasBlobNext(m.resource, m.exec)
               /\ m.kind = "replica" => /\ status'[m.task] = "Completed"
                                        /\ HasBlobNext(m.resource, winner'[m.task])
    <2>1. Sound(m) /\ Vouched(m)
      <3>1. CASE m \in wire
        <4>1. Sound(m)
          BY <3>1 DEF WireType, Sound
        <4>2. m.resource \in Resource
          BY <4>1 DEF Sound, RequestType
        <4> QED
          BY <1>1, <3>1, <4>1, <4>2 DEF BytesInv, Vouched
      <3>2. CASE m \notin wire
        <4>1. PICK n : Serves(n)
          BY <3>2, NextServes
        <4>2. m = n
          BY <3>2, <4>1 DEF Serves
        <4> QED
          BY <4>1, <4>2 DEF Serves
      <3> QED
        BY <3>1, <3>2
    <2>2. m.kind = "replica" => /\ m.task \in Task /\ status[m.task] = "Completed"
                               /\ HasBlobNext(m.resource, winner[m.task])
      BY <2>1 DEF Sound, Vouched
    <2>3. m.kind = "replica" => /\ status'[m.task] = "Completed"
                               /\ winner'[m.task] = winner[m.task]
      BY <1>2, <2>2 DEF Progress
    <2> QED
      BY <2>1, <2>2, <2>3 DEF Vouched
  <1>5. ASSUME NEW r \in Resource, agent'[r].work # NoWork
        PROVE  /\ agent'[r].work.stage = "report" => agent'[r].work.exec \in agent'[r].blobs
               /\ status'[agent'[r].work.task] # "Unsubmitted"
    <2>1. CASE agent'[r] = agent[r]
      <3>1. agent[r].work # NoWork /\ agent[r].work.task \in Task
        BY <1>5, <2>1, ProcessFields DEF WorkType
      <3> QED
        BY <1>2, <2>1, <3>1 DEF BytesInv, Progress
    <2>2. ASSUME NEW p, agent'[r] = p, Change(r, p), SameAttempt(r, p) \/ NewAttempt(r, p)
          PROVE  /\ agent'[r].work.stage = "report" => agent'[r].work.exec \in agent'[r].blobs
                 /\ status'[agent'[r].work.task] # "Unsubmitted"
      <3>1. p.work # NoWork /\ Runs(p) /\ agent[r].blobs \subseteq p.blobs
        BY <1>5, <2>2 DEF Change
      <3>2. p.work.stage = "report" => p.work.exec \in p.blobs
        BY <2>2, <3>1 DEF Change, BytesInv
      <3>3. CASE SameAttempt(r, p)
        <4>1. /\ agent[r].work # NoWork /\ agent[r].work.task \in Task
              /\ p.work.task = agent[r].work.task
          BY <3>1, <3>3, ProcessFields DEF WorkType, SameAttempt
        <4>2. status'[p.work.task] # "Unsubmitted"
          BY <1>2, <4>1 DEF BytesInv, Progress
        <4> QED
          BY <2>2, <3>2, <4>2
      <3>4. CASE NewAttempt(r, p)
        <4>1. First(r) \in Task /\ p.work.task = First(r)
          BY <3>4, FirstIsOffered, OfferedTask DEF NewAttempt
        <4>2. status'[p.work.task] = "Running"
          BY <3>4, <4>1 DEF NewAttempt, BeginExecution, CoordType
        <4> QED
          BY <2>2, <3>2, <4>2
      <3> QED
        BY <2>2, <3>3, <3>4
    <2>3. ASSUME NEW q \in Resource, NEW p, Change(q, p)
          PROVE  agent'[q] = p /\ (r # q => agent'[r] = agent[r])
      BY <2>3 DEF Change, AgentType
    <2> QED
      BY <2>1, <2>2, <2>3, NextAgents DEF Moves
  <1>6. ASSUME NEW t \in Task, status'[t] # "Unsubmitted", Input[t] # NoTask
        PROVE  status'[Input[t]] = "Completed"
    <2>1. Input[t] \in Task
      BY <1>6, AgentsAssumption
    <2>2. status[Input[t]] = "Completed"
      BY <1>2, <1>6 DEF Progress, BytesInv
    <2> QED
      BY <1>2, <2>1, <2>2 DEF Progress
  <1> QED
    BY <1>3, <1>4, <1>5, <1>6 DEF BytesInv, HasBlob, HasBlobNext, Alive, Runs

LEMMA NextWire ==
    ASSUME TypeInv, GrantInv, BytesInv, ProtocolStep
    PROVE  WireType'
  <1>1. wire' \subseteq RequestType
        /\ \A m \in wire' : m.kind \in {"renew", "complete", "replica"} => m.task \in Task
    <2>1. \A m \in wire : Sound(m)
      BY DEF TypeInv, WireType, Sound
    <2>2. \A m \in wire' : Sound(m)
      BY <2>1, NextServes DEF Serves
    <2> QED
      BY <2>2 DEF Sound
  <1>2. UNCHANGED faults \/ Fault
    BY DEF ProtocolStep, SubmitTask, LeaseEnds, LeaseMissed, Start, Stop, AgentStep, HeartbeatTick,
           Rejoin, PollTick, FetchInput, Execute, Report, RenewTick, MembershipEnds,
           MembershipMissed, DeliverLate, MaintenanceTick, NoFault, Fails
  <1>3. faults' \in 0..MaxFaults
    BY <1>2, AgentsAssumption DEF TypeInv, WireType, Fault
  <1> QED
    BY <1>1, <1>3 DEF WireType

-----------------------------------------------------------------------------
(* The theorems.                                                           *)

AgentsInv == TypeInv /\ GrantInv /\ WorkInv /\ BytesInv

LEMMA InvInit == Init => AgentsInv
  <1> SUFFICES ASSUME Init PROVE AgentsInv
    OBVIOUS
  <1>1. CoordType
    BY DEF Init, CoordType, Absent, Statuses
  <1>2. Process("new") \in ProcessType
    BY DEF Process, ProcessType, States
  <1>3. \A r \in Resource : /\ agent[r] = Process("new") /\ agent[r].work = NoWork
                            /\ ~agent[r].busy /\ ~agent[r].renewing
    BY DEF Init, Process
  <1>4. AgentType
    BY <1>2, <1>3 DEF Init, AgentType, ProcessSound
  <1>5. WireType
    BY AgentsAssumption DEF Init, WireType
  <1>6. GrantInv
    <2>1. Drawn = {}
      BY DEF Init, Drawn
    <2>2. IsFiniteSet(Drawn) /\ Cardinality(Drawn) = 0
      BY <2>1, FS_EmptySet
    <2>3. Drawn = 1..Cardinality(Drawn)
      BY <2>1, <2>2
    <2> QED
      BY <2>2, <2>3, AgentsAssumption DEF Init, GrantInv
  <1>7. WorkInv
    BY <1>3 DEF WorkInv
  <1>8. BytesInv
    BY <1>3 DEF Init, BytesInv
  <1> QED
    BY <1>1, <1>4, <1>5, <1>6, <1>7, <1>8 DEF AgentsInv, TypeInv

LEMMA InvNext == AgentsInv /\ [Next]_vars => AgentsInv'
  <1> SUFFICES ASSUME AgentsInv, [Next]_vars PROVE AgentsInv'
    OBVIOUS
  <1> USE DEF AgentsInv, TypeInv
  <1>1. CASE ProtocolStep
    BY <1>1, NextCoord, NextWork, NextBytes, NextWire
  <1>2. CASE OnlyLinks
    <2>1. UNCHANGED <<member, status, lease, winner, holders, granted, agent, wire, faults>>
      BY <1>2 DEF OnlyLinks
    <2>2. CoordType'
      BY <2>1 DEF CoordType
    <2>3. AgentType'
      BY <2>1 DEF AgentType, ProcessSound, Alive
    <2>4. WireType'
      BY <2>1 DEF WireType
    <2>5. GrantInv'
      BY <2>1, NothingGranted
    <2>6. WorkInv'
      BY <2>1 DEF WorkInv
    <2>7. BytesInv'
      BY <2>1 DEF BytesInv, HasBlob, Alive
    <2> QED
      BY <2>2, <2>3, <2>4, <2>5, <2>6, <2>7
  <1> QED
    BY <1>1, <1>2, NextCases

LEMMA InvHolds == Spec => []AgentsInv
  BY InvInit, InvNext, PTL DEF Spec

(* The flags of a worker go with its work, and a task has a lease exactly  *)
(* while it is Running: run_worker, execute_and_commit and the coordinator *)
(* keep them so through every error, crash and late request.               *)
THEOREM AgentsTypeCorrect == Spec => []TypeOK
  <1>1. AgentsInv => TypeOK
    <2> SUFFICES ASSUME AgentsInv PROVE TypeOK
      OBVIOUS
    <2> USE DEF AgentsInv, TypeInv
    <2>1. ASSUME NEW r \in Resource
          PROVE  /\ agent[r].state \in {"new", "up", "rejoin", "gone"}
                 /\ agent[r].work \in WorkType \cup {NoWork}
                 /\ agent[r].busy <=> agent[r].work # NoWork
                 /\ agent[r].renewing => agent[r].work # NoWork
      BY ProcessFields DEF ProcessSound, States
    <2>2. /\ member \in [Resource -> [epoch : Nat, fresh : BOOLEAN]]
          /\ \A t \in Task : status[t] = "Running" <=> lease[t] # NoLease
          /\ holders \in [Task -> SUBSET Resource]
      BY DEF CoordType
    <2>3. faults \in 0..MaxFaults
      BY DEF WireType
    <2> QED
      BY <2>1, <2>2, <2>3 DEF TypeOK
  <1> QED
    BY <1>1, InvHolds, PTL

(* An Exclusive task is never run by two agents at once, whatever requests *)
(* are lost or late and however long an agent goes on with a lapsed lease: *)
(* an Exclusive task is granted once (reap_expired_executions_at makes it  *)
(* Uncertain), and an attempt is handed to one agent.                      *)
THEOREM ExclusiveHolds == Spec => []ExclusiveRunsAlone
  <1>1. AgentsInv => ExclusiveRunsAlone
    <2> SUFFICES ASSUME AgentsInv,
                        NEW r \in Resource, NEW s \in Resource,
                        agent[r].work # NoWork, agent[s].work # NoWork, r # s,
                        agent[r].work.task = agent[s].work.task,
                        agent[r].work.task \in Exclusive
                 PROVE  FALSE
      BY DEF ExclusiveRunsAlone
    <2> DEFINE t == agent[r].work.task
    <2>1. agent[r].work.exec \in granted[t] /\ agent[s].work.exec \in granted[t]
      BY DEF AgentsInv, WorkInv
    <2>2. agent[r].work.exec # agent[s].work.exec
      BY DEF AgentsInv, WorkInv
    <2>3. \A e, f \in granted[t] : e = f
      BY DEF AgentsInv, GrantInv
    <2> QED
      BY <2>1, <2>2, <2>3
  <1> QED
    BY <1>1, InvHolds, PTL

(* The object directory is truthful for any number of agents and faults:   *)
(* execute_and_commit and materialize_input store the bytes before they    *)
(* report them, a store is only added to while its agent runs, and the     *)
(* attempt that completed a task stays the one.                            *)
THEOREM HoldersHold == Spec => []HoldersHaveBytes
  <1>1. AgentsInv => HoldersHaveBytes
    BY DEF AgentsInv, BytesInv, HasBlob, HoldersHaveBytes
  <1> QED
    BY <1>1, InvHolds, PTL

-----------------------------------------------------------------------------
(* The refinement.                                                         *)

LEMMA AgentsLedgerInit == Init => Ledger!Init
  BY DEF Init, Ledger!Init, Holder

(* A step that leaves the attempts alone.                                  *)
LEMMA LedgerStutters ==
    ASSUME UNCHANGED <<status, winner, granted>>,
           \A t \in Task : status[t] = "Running" => lease'[t].exec = lease[t].exec
    PROVE  UNCHANGED Ledger!vars
  <1>1. Holder' = Holder
    BY DEF Holder
  <1> QED
    BY <1>1 DEF Ledger!vars

LEMMA HandleLedger ==
    ASSUME CoordType, GrantInv, Nat \ {0} \subseteq Execution,
           NEW m, Sound(m), Accepted(m), Handle(m)
    PROVE  Ledger!Next \/ UNCHANGED Ledger!vars
  <1>1. CASE \/ m.kind \in {"register", "heartbeat", "replica"}
             \/ m.kind = "poll" /\ Offered(m.resource) = {}
    <2>1. UNCHANGED <<status, lease, winner, granted>>
      BY <1>1 DEF Handle, Register, Heartbeat, RegisterReplica, coordVars
    <2> QED
      BY <2>1, LedgerStutters
  <1>2. CASE m.kind = "poll" /\ Offered(m.resource) # {}
    <2> DEFINE t == First(m.resource)
    <2>1. t \in Task /\ status[t] = "Pending" /\ BeginExecution(t, m.resource)
      BY <1>2, FirstIsOffered, OfferedTask DEF Handle
    <2> HIDE DEF t
    <2>2. /\ status' = [status EXCEPT ![t] = "Running"]
          /\ granted' = [granted EXCEPT ![t] = @ \cup {NewExec}]
          /\ UNCHANGED winner
      BY <2>1 DEF BeginExecution
    <2>3. lease'[t].exec = NewExec /\ \A u \in Task \ {t} : lease'[u] = lease[u]
      BY <2>1 DEF BeginExecution, CoordType
    <2>4. NewExec \in Execution /\ \A u \in Task : NewExec \notin granted[u]
      BY NewExecFresh
    <2>5. Holder' = [Holder EXCEPT ![t] = NewExec]
      BY <2>1, <2>2, <2>3 DEF Holder, CoordType
    <2>6. Ledger!Begin(t, NewExec)
      BY <2>1, <2>2, <2>4, <2>5 DEF Ledger!Begin
    <2> QED
      BY <2>1, <2>4, <2>6 DEF Ledger!Next
  <1>3. CASE m.kind = "renew"
    <2>1. RenewExecution(m.task) /\ m.task \in Task /\ lease[m.task] # NoLease
      BY <1>3 DEF Handle, Sound, Accepted, AttemptCurrent, CoordType
    <2>2. /\ \A u \in Task : lease[u] # NoLease => lease'[u].exec = lease[u].exec
          /\ UNCHANGED <<status, winner, granted>>
      BY <2>1, LeaseFreshType DEF RenewExecution
    <2> QED
      BY <2>2, LedgerStutters DEF CoordType
  <1>4. CASE m.kind = "complete"
    <2> DEFINE t == m.task
               e == m.exec
    <2>1. /\ CompleteExecution(m) /\ t \in Task /\ status[t] = "Running"
          /\ lease[t].exec = e
      BY <1>4 DEF Handle, Sound, Accepted, AttemptCurrent
    <2>2. /\ status' = [status EXCEPT ![t] = "Completed"]
          /\ winner' = [winner EXCEPT ![t] = e]
          /\ lease' = [lease EXCEPT ![t] = NoLease]
          /\ UNCHANGED granted
      BY <2>1 DEF CompleteExecution
    <2>3. e \in Execution
      <3>1. e \in granted[t]
        BY <2>1 DEF GrantInv, CoordType
      <3>2. e \in Drawn
        BY <2>1, <3>1 DEF Drawn
      <3>3. Cardinality(Drawn) \in Nat /\ Drawn = 1..Cardinality(Drawn)
        BY NewExecFresh DEF GrantInv
      <3>4. e \in Nat \ {0}
        BY <3>2, <3>3
      <3> QED
        BY <3>4
    <2> HIDE DEF t, e
    <2>4. Holder' = Holder /\ Holder[t] = e
      BY <2>1, <2>2 DEF Holder, CoordType
    <2>5. Ledger!Commit(t, e, e)
      BY <2>1, <2>2, <2>4 DEF Ledger!Commit
    <2> QED
      BY <2>1, <2>3, <2>5 DEF Ledger!Next
  <1>5. m.kind \in Kinds
    BY DEF Sound, RequestType
  <1>6. \/ m.kind \in {"register", "heartbeat", "replica"}
        \/ m.kind = "poll" \/ m.kind = "renew" \/ m.kind = "complete"
    BY <1>5 DEF Kinds
  <1> QED
    BY <1>1, <1>2, <1>3, <1>4, <1>6

LEMMA AgentsLedgerStep ==
    ASSUME AgentsInv, [Next]_vars, Nat \ {0} \subseteq Execution
    PROVE  [Ledger!Next]_(Ledger!vars)
  <1> USE DEF AgentsInv, TypeInv
  <1>1. CASE UNCHANGED coordVars \/ OnlyLinks
    <2>1. UNCHANGED <<status, lease, winner, granted>>
      BY <1>1 DEF coordVars, OnlyLinks
    <2> QED
      BY <2>1, LedgerStutters
  <1>2. ASSUME NEW m, Sound(m) /\ Accepted(m) /\ Handle(m)
        PROVE  [Ledger!Next]_(Ledger!vars)
    BY <1>2, HandleLedger
  <1>3. ASSUME NEW t \in Task, SubmitTask(t) PROVE Ledger!Next
    <2>1. /\ status[t] = "Unsubmitted" /\ status' = [status EXCEPT ![t] = "Pending"]
          /\ UNCHANGED <<lease, winner, granted>>
      BY <1>3 DEF SubmitTask
    <2>2. Holder' = Holder
      BY <2>1 DEF Holder, CoordType
    <2>3. Ledger!Submit(t)
      BY <2>1, <2>2 DEF Ledger!Submit
    <2> QED
      BY <2>3 DEF Ledger!Next
  <1>4. ASSUME NEW t \in Task, LapseLease(t) PROVE UNCHANGED Ledger!vars
    <2>1. /\ lease[t] # NoLease /\ UNCHANGED <<status, winner, granted>>
          /\ \A u \in Task : lease[u] # NoLease => lease'[u].exec = lease[u].exec
      BY <1>4, LeaseFreshType DEF LapseLease, CoordType
    <2> QED
      BY <2>1, LedgerStutters DEF CoordType
  <1>5. ASSUME NEW r \in Resource, LapseMember(r) PROVE UNCHANGED Ledger!vars
    BY <1>5, LedgerStutters DEF LapseMember
  <1>6. CASE MaintenanceTick
    <2>1. /\ status' = [t \in Task |-> IF t \notin Lapsed THEN status[t]
                                       ELSE IF t \in Exclusive THEN "Uncertain" ELSE "Pending"]
          /\ \A t \in Task : t \notin Lapsed => lease'[t] = lease[t]
          /\ UNCHANGED <<winner, granted>>
      BY <1>6 DEF MaintenanceTick, Reap
    <2>2. \A t \in Lapsed : t \in Task /\ status[t] = "Running" /\ winner[t] = 0
      BY DEF Lapsed, GrantInv
    <2>3. ASSUME NEW t \in Task PROVE Holder'[t] = IF t \in Lapsed THEN 0 ELSE Holder[t]
      <3>1. CASE t \in Lapsed
        <4>1. status'[t] # "Running"
          BY <2>1, <3>1
        <4> QED
          BY <2>1, <2>2, <3>1, <4>1 DEF Holder
      <3>2. CASE t \notin Lapsed
        BY <2>1, <3>2 DEF Holder
      <3> QED
        BY <3>1, <3>2
    <2>4. Holder' = [t \in Task |-> IF t \in Lapsed THEN 0 ELSE Holder[t]]
      BY <2>3 DEF Holder
    <2>5. Ledger!Abandon(Lapsed) /\ Lapsed \in SUBSET Task
      BY <2>1, <2>2, <2>4 DEF Ledger!Abandon
    <2> QED
      BY <2>5 DEF Ledger!Next
  <1> QED
    BY <1>1, <1>2, <1>3, <1>4, <1>5, <1>6, CoordSteps, NextCases

(* The composition of agents, network and coordinator implements the       *)
(* ledger of attempts, with an endless supply of ExecutionIds: a task is   *)
(* committed once, by the attempt that holds it, and an Exclusive task     *)
(* whose lease ran out is never attempted again, whatever the agents and   *)
(* the network do.                                                         *)
THEOREM AgentsImplementLedger ==
    ASSUME Nat \ {0} \subseteq Execution
    PROVE  Spec => ImplementsLedger
  <1>1. AgentsInv /\ [Next]_vars => [Ledger!Next]_(Ledger!vars)
    BY AgentsLedgerStep
  <1> QED
    BY <1>1, AgentsLedgerInit, InvHolds, PTL DEF Spec, ImplementsLedger, Ledger!Spec

-----------------------------------------------------------------------------
(* What faults cost.  The account of a task adds the attempts it has had,  *)
(* the requests on the wire, each of which may cost it one, and the        *)
(* attempts it may still be given if no more faults happen and no late     *)
(* request arrives.                                                        *)

(* The members that do not run: as holders they fail those who ask them.   *)
Dead == {r \in Resource : ~Alive(r) /\ member[r].epoch > 0}

DeadActive == {r \in Dead : member[r].fresh}

(* Agent r works on the attempt recorded for t, in step with the           *)
(* coordinator, and will get the input if it still needs it.               *)
OnTrackAt(t, r) ==
    /\ agent[r].state = "up"
    /\ agent[r].work # NoWork
    /\ agent[r].work.task = t
    /\ agent[r].work.exec = lease[t].exec
    /\ agent[r].work.epoch = lease[t].epoch
    /\ agent[r].epoch = lease[t].epoch
    /\ member[r].epoch = lease[t].epoch
    /\ Active(r)
    /\ agent[r].renewing \/ agent[r].work.stage = "report"
    /\ (agent[r].work.stage = "fetch" /\ Input[t] # NoTask
          /\ winner[Input[t]] \notin agent[r].blobs) =>
             \E h \in agent[r].work.replicas : Alive(h)

OnTrack(t) == lease[t].fresh /\ OnTrackAt(t, lease[t].resource)

(* The attempts that may still be granted for t.  Members that do not run  *)
(* fail one attempt at most: its lease does not lapse before they do.      *)
Claims(t) ==
    CASE status[t] \in {"Unsubmitted", "Pending"} -> IF Dead = {} THEN 1 ELSE 2
      [] status[t] = "Running" /\ lease[t].fresh ->
            IF OnTrack(t) /\ Dead = {} THEN 0 ELSE 1
      [] status[t] = "Running" /\ ~lease[t].fresh ->
            IF DeadActive = {} THEN 1 ELSE 2
      [] OTHER -> 0

Budget(t) ==
    Cardinality(granted[t]) + Cardinality(wire) + Claims(t) <= 1 + 2 * faults

(* Only members are locations: who leaves is taken out of the directory.   *)
HoldersPresent == \A t \in Task : \A h \in holders[t] : member[h].epoch > 0

BudgetInv ==
    /\ IsFiniteSet(wire)
    /\ HoldersPresent
    /\ \A t \in Task : Budget(t)

(* Claims by status, as numbers.                                           *)
LEMMA ClaimsFacts ==
    ASSUME CoordType, NEW t \in Task
    PROVE  /\ Claims(t) \in 0..2
           /\ status[t] \in {"Unsubmitted", "Pending"} =>
                 Claims(t) = IF Dead = {} THEN 1 ELSE 2
           /\ (status[t] = "Running" /\ lease[t].fresh) =>
                 Claims(t) = IF OnTrack(t) /\ Dead = {} THEN 0 ELSE 1
           /\ (status[t] = "Running" /\ ~lease[t].fresh) =>
                 Claims(t) = IF DeadActive = {} THEN 1 ELSE 2
           /\ status[t] \in {"Completed", "Uncertain"} => Claims(t) = 0
  <1>1. status[t] \in Statuses
    BY DEF CoordType
  <1> QED
    BY <1>1 DEF Claims, Statuses

(* A step after which nothing more is in the way of t than before.         *)
Calm(t) ==
    /\ Dead' # {} => Dead # {}
    /\ DeadActive' # {} => DeadActive # {}
    /\ (status[t] = "Running" /\ OnTrack(t)) => OnTrack(t)'

LEMMA ClaimsKept ==
    ASSUME CoordType, CoordType', NEW t \in Task,
           status'[t] = status[t], lease'[t] = lease[t]
    PROVE  /\ Claims(t)' <= Claims(t) + 1
           /\ Calm(t) => Claims(t)' <= Claims(t)
  <1>1. status[t] \in Statuses
    BY DEF CoordType
  <1>2. DeadActive # {} => Dead # {}
    BY DEF DeadActive
  <1>3. CASE status[t] \in {"Unsubmitted", "Pending"}
    <2>1. Claims(t) = IF Dead = {} THEN 1 ELSE 2
      BY <1>3, ClaimsFacts
    <2>2. Claims(t)' = IF Dead' = {} THEN 1 ELSE 2
      BY <1>3 DEF Claims
    <2> QED
      BY <2>1, <2>2 DEF Calm
  <1>4. CASE status[t] = "Running" /\ lease[t].fresh
    <2>1. Claims(t) = IF OnTrack(t) /\ Dead = {} THEN 0 ELSE 1
      BY <1>4, ClaimsFacts
    <2>2. Claims(t)' = IF OnTrack(t)' /\ Dead' = {} THEN 0 ELSE 1
      BY <1>4 DEF Claims
    <2> QED
      BY <1>4, <2>1, <2>2 DEF Calm
  <1>5. CASE status[t] = "Running" /\ ~lease[t].fresh
    <2>1. Claims(t) = IF DeadActive = {} THEN 1 ELSE 2
      BY <1>5, ClaimsFacts
    <2>2. Claims(t)' = IF DeadActive' = {} THEN 1 ELSE 2
      BY <1>5 DEF Claims
    <2> QED
      BY <2>1, <2>2 DEF Calm
  <1>6. CASE status[t] \in {"Completed", "Uncertain"}
    <2>1. Claims(t) = 0 /\ Claims(t)' = 0
      BY <1>6 DEF Claims
    <2> QED
      BY <2>1
  <1> QED
    BY <1>1, <1>3, <1>4, <1>5, <1>6 DEF Statuses

(* The object t reads is there, and stays what it is.                      *)
LEMMA InputStays ==
    ASSUME TypeInv, GrantInv, BytesInv, ProtocolStep, NEW t \in Task, status[t] = "Running",
           Input[t] # NoTask
    PROVE  status[Input[t]] = "Completed" /\ winner'[Input[t]] = winner[Input[t]]
  <1>1. status[Input[t]] = "Completed" /\ Input[t] \in Task
    BY AgentsAssumption DEF BytesInv
  <1>2. Progress(Input[t]) \/ UNCHANGED coordVars
    <2>1. CoordType
      BY DEF TypeInv
    <2>2. ASSUME NEW m, Serves(m) PROVE Progress(Input[t]) \/ UNCHANGED coordVars
      BY <1>1, <2>1, <2>2, HandleEffect DEF Serves
    <2> QED
      BY <1>1, <2>1, <2>2, NextServes, UnaskedEffect
  <1> QED
    BY <1>1, <1>2 DEF Progress, coordVars

(* An attempt on track is not refused anything.                            *)
LEMMA OnTrackServed ==
    ASSUME TypeInv, BytesInv, NEW t \in Task, status[t] = "Running", OnTrack(t),
           NEW r, r = lease[t].resource
    PROVE  /\ r \in Resource /\ agent[r].state = "up" /\ Alive(r)
           /\ agent[r].work # NoWork /\ agent[r].work \in WorkType /\ agent[r].work.task = t
           /\ Accepted(Request("heartbeat", r))
           /\ Accepted(LeaseRequest("renew", r)) /\ Accepted(LeaseRequest("complete", r))
           /\ Input[t] # NoTask => Accepted(ReplicaRequest(r))
  <1>1. lease[t] \in LeaseType /\ r \in Resource
    BY DEF TypeInv, CoordType, LeaseType
  <1>2. OnTrackAt(t, r) /\ lease[t].fresh
    BY DEF OnTrack
  <1>3. agent[r].work \in WorkType
    BY <1>1, <1>2, ProcessFields DEF TypeInv, OnTrackAt
  <1>4. Accepted(Request("heartbeat", r))
    BY <1>2 DEF OnTrackAt, Accepted, Request, HeartbeatAccepted
  <1>5. ASSUME NEW k \in {"renew", "complete"} PROVE Accepted(LeaseRequest(k, r))
    <2> DEFINE m == LeaseRequest(k, r)
    <2>1. /\ m.kind = k /\ m.resource = r /\ m.task = t
          /\ m.epoch = lease[t].epoch /\ m.exec = lease[t].exec
      BY <1>2 DEF LeaseRequest, OnTrackAt
    <2> HIDE DEF m
    <2>2. AttemptCurrent(m)
      BY <1>2, <2>1 DEF AttemptCurrent, OnTrackAt
    <2>3. Accepted(m)
      BY <2>1, <2>2 DEF Accepted
    <2> QED
      BY <2>3 DEF m
  <1>6. ASSUME Input[t] # NoTask PROVE Accepted(ReplicaRequest(r))
    <2> DEFINE m == ReplicaRequest(r)
    <2>1. m.kind = "replica" /\ m.resource = r /\ m.task = Input[t]
      BY <1>2 DEF ReplicaRequest, OnTrackAt
    <2> HIDE DEF m
    <2>2. status[Input[t]] = "Completed"
      BY <1>6 DEF BytesInv
    <2>3. Accepted(m)
      BY <1>2, <2>1, <2>2 DEF Accepted, OnTrackAt
    <2> QED
      BY <2>3 DEF m
  <1> QED
    BY <1>1, <1>2, <1>3, <1>4, <1>5, <1>6 DEF OnTrackAt, Alive

(* A step changes agent r and its membership at most.                      *)
Local(r) ==
    /\ \A s \in Resource \ {r} : agent'[s] = agent[s] /\ member'[s] = member[s]
    /\ Alive(r) => Alive(r)'
    /\ r \in Dead' => r \in Dead
    /\ r \in DeadActive' => r \in DeadActive

(* Such a step is calm for t if it does not put r itself off the track.    *)
LEMMA LocalIsCalm ==
    ASSUME TypeInv, GrantInv, BytesInv, ProtocolStep, NEW r \in Resource, Local(r), NEW t \in Task,
           lease'[t] = lease[t],
           (status[t] = "Running" /\ lease[t].resource = r /\ OnTrack(t)) => OnTrack(t)'
    PROVE  Calm(t)
  <1>1. \A s \in Resource : s \in Dead' => s \in Dead
    BY DEF Local, Dead, Alive
  <1>2. \A s \in Resource : s \in DeadActive' => s \in DeadActive
    BY DEF Local, DeadActive, Dead, Alive
  <1>3. Dead' \subseteq Resource /\ DeadActive' \subseteq Resource
    BY DEF Dead, DeadActive
  <1>4. \A s \in Resource : Alive(s) => Alive(s)'
    BY DEF Local, Alive
  <1>5. ASSUME status[t] = "Running", OnTrack(t), lease[t].resource # r PROVE OnTrack(t)'
    <2>0. PICK q : q = lease[t].resource
      OBVIOUS
    <2>1. q \in Resource /\ agent[q].work # NoWork /\ agent[q].work \in WorkType
      BY <1>5, <2>0, OnTrackServed
    <2>2. agent'[q] = agent[q] /\ member'[q] = member[q]
      BY <1>5, <2>0, <2>1 DEF Local
    <2>3. Input[t] # NoTask => winner'[Input[t]] = winner[Input[t]]
      BY <1>5, InputStays
    <2>4. agent[q].work.replicas \subseteq Resource
      BY <2>1 DEF WorkType
    <2>5. OnTrackAt(t, q) /\ lease[t].fresh
      BY <1>5, <2>0 DEF OnTrack
    <2>6. (\E h \in agent[q].work.replicas : Alive(h)) =>
             \E h \in agent'[q].work.replicas : Alive(h)'
      BY <1>4, <2>2, <2>4
    <2>7. OnTrackAt(t, q)'
      BY <2>2, <2>3, <2>5, <2>6 DEF OnTrackAt, Active
    <2>8. lease'[t].resource = q /\ lease'[t].fresh
      BY <2>0, <2>5
    <2> QED
      BY <2>7, <2>8 DEF OnTrack
  <1> QED
    BY <1>1, <1>2, <1>3, <1>5 DEF Calm

(* The attempts of t so far and to come.                                   *)
Spent(t) == Cardinality(granted[t]) + Claims(t)

(* Nothing is recorded for t.                                              *)
Still(t) == status'[t] = status[t] /\ lease'[t] = lease[t] /\ granted'[t] = granted[t]

Costless(t) == Spent(t)' <= Spent(t)

CostsOne(t) == Spent(t)' <= Spent(t) + 1

LEMMA GrantedNumber ==
    ASSUME GrantInv, NEW t \in Task
    PROVE  IsFiniteSet(granted[t]) /\ Cardinality(granted[t]) \in Nat
  <1>1. IsFiniteSet(Drawn) /\ granted[t] \subseteq Drawn
    BY DEF GrantInv, Drawn
  <1>2. IsFiniteSet(granted[t])
    BY <1>1, FS_Subset
  <1> QED
    BY <1>2, FS_CardinalityType

LEMMA StillCosts ==
    ASSUME CoordType, CoordType', GrantInv, NEW t \in Task, Still(t)
    PROVE  CostsOne(t) /\ (Calm(t) => Costless(t))
  <1> DEFINE g == Cardinality(granted[t])
             c == Claims(t)
             d == Claims(t)'
  <1>1. g \in Nat /\ c \in 0..2
    BY GrantedNumber, ClaimsFacts
  <1>2. d \in 0..2
    <2>1. status'[t] \in Statuses
      BY DEF CoordType
    <2> QED
      BY <2>1 DEF Claims, Statuses
  <1>3. d <= c + 1 /\ (Calm(t) => d <= c)
    BY ClaimsKept DEF Still
  <1>4. Spent(t) = g + c /\ Spent(t)' = g + d
    BY DEF Spent, Still
  <1> HIDE DEF g, c, d
  <1> QED
    BY <1>1, <1>2, <1>3, <1>4 DEF CostsOne, Costless

LEMMA EndCosts ==
    ASSUME CoordType, GrantInv, NEW t \in Task, status'[t] = "Completed",
           granted'[t] = granted[t]
    PROVE  Costless(t) /\ CostsOne(t)
  <1> DEFINE g == Cardinality(granted[t])
             c == Claims(t)
  <1>1. g \in Nat /\ c \in 0..2
    BY GrantedNumber, ClaimsFacts
  <1>2. Claims(t)' = 0
    BY DEF Claims
  <1>3. Spent(t) = g + c /\ Spent(t)' = g + 0
    BY <1>2 DEF Spent
  <1> HIDE DEF g, c
  <1> QED
    BY <1>1, <1>3 DEF Costless, CostsOne

(* An attempt uses up the claim it is granted for, unless it starts off    *)
(* the track.                                                              *)
LEMMA BeginCosts ==
    ASSUME CoordType, GrantInv, NEW t \in Task, NEW r, status[t] = "Pending",
           BeginExecution(t, r)
    PROVE  /\ CostsOne(t)
           /\ (Dead = {} => Dead' = {} /\ OnTrack(t)') => Costless(t)
  <1> DEFINE g == Cardinality(granted[t])
             c == Claims(t)
             d == Claims(t)'
  <1>1. g \in Nat /\ IsFiniteSet(granted[t]) /\ NewExec \notin granted[t]
    BY GrantedNumber, NewExecFresh
  <1>2. granted'[t] = granted[t] \cup {NewExec}
    BY DEF BeginExecution, CoordType
  <1>3. Cardinality(granted'[t]) = g + 1
    BY <1>1, <1>2, FS_AddElement
  <1>4. c = IF Dead = {} THEN 1 ELSE 2
    BY ClaimsFacts
  <1>5. status'[t] = "Running" /\ lease'[t].fresh
    BY DEF BeginExecution, CoordType
  <1>6. d = IF OnTrack(t)' /\ Dead' = {} THEN 0 ELSE 1
    BY <1>5 DEF Claims
  <1>7. Spent(t) = g + c /\ Spent(t)' = g + 1 + d
    BY <1>3 DEF Spent
  <1> HIDE DEF g, c, d
  <1> QED
    BY <1>1, <1>4, <1>6, <1>7 DEF Costless, CostsOne

(* What handling a request records for t.                                  *)
LEMMA HandleRecords ==
    ASSUME CoordType, NEW m, Sound(m), Accepted(m), Handle(m), NEW t \in Task
    PROVE  \/ Still(t)
           \/ m.kind = "complete" /\ status'[t] = "Completed" /\ granted'[t] = granted[t]
           \/ /\ m.kind = "poll" /\ Offered(m.resource) # {} /\ t = First(m.resource)
              /\ status[t] = "Pending" /\ BeginExecution(t, m.resource)
  <1>1. CASE m.kind \in {"register", "heartbeat", "replica"} \/ UNCHANGED coordVars
    <2>1. UNCHANGED <<status, lease, granted>>
      BY <1>1 DEF Handle, Register, Heartbeat, RegisterReplica, coordVars
    <2> QED
      BY <2>1 DEF Still
  <1>2. CASE m.kind = "poll" /\ Offered(m.resource) # {}
    <2>1. /\ BeginExecution(First(m.resource), m.resource)
          /\ First(m.resource) \in Task /\ status[First(m.resource)] = "Pending"
      BY <1>2, FirstIsOffered, OfferedTask DEF Handle
    <2>2. CASE t # First(m.resource)
      BY <2>1, <2>2 DEF Still, BeginExecution, CoordType
    <2> QED
      BY <1>2, <2>1, <2>2
  <1>3. CASE m.kind = "renew"
    <2>1. RenewExecution(m.task) /\ m.task \in Task /\ lease[m.task].fresh
          /\ lease[m.task] \in LeaseType
      BY <1>3 DEF Handle, Sound, Accepted, AttemptCurrent, CoordType
    <2>2. lease[m.task] = [lease[m.task] EXCEPT !.fresh = TRUE]
      BY <2>1 DEF LeaseType
    <2>3. lease'[t] = lease[t]
      BY <2>1, <2>2 DEF RenewExecution, CoordType
    <2> QED
      BY <2>1, <2>3 DEF Still, RenewExecution
  <1>4. CASE m.kind = "complete"
    <2>1. CompleteExecution(m) /\ m.task \in Task
      BY <1>4 DEF Handle, Sound
    <2> QED
      BY <1>4, <2>1 DEF CompleteExecution, Still, CoordType
  <1>5. m.kind \in Kinds
    BY DEF Sound, RequestType
  <1>6. CASE m.kind = "poll" /\ Offered(m.resource) = {}
    BY <1>1, <1>6 DEF Handle
  <1> QED
    BY <1>1, <1>2, <1>3, <1>4, <1>5, <1>6 DEF Kinds

(* No request costs t more than one attempt, whenever it is handled.       *)
LEMMA HandleCosts ==
    ASSUME CoordType, CoordType', GrantInv, NEW m, Sound(m), Accepted(m), Handle(m),
           NEW t \in Task
    PROVE  CostsOne(t)
  BY HandleRecords, StillCosts, EndCosts, BeginCosts

-----------------------------------------------------------------------------
(* The steps of the agents: a request that is answered costs nothing, one  *)
(* that fails is a fault.                                                  *)

Stepping == TypeInv /\ GrantInv /\ BytesInv /\ ProtocolStep /\ CoordType'

Quiet == NoFault /\ \A t \in Task : Costless(t)

Faulty == /\ Fault
          /\ \E m : wire' = wire \/ wire' = wire \cup {m}
          /\ \A t \in Task : CostsOne(t)

LEMMA FaultCosts ==
    ASSUME Stepping, Fault, \A t \in Task : Still(t),
           \E m : wire' = wire \/ wire' = wire \cup {m}
    PROVE  Faulty
  BY StillCosts DEF Stepping, TypeInv, Faulty

LEMMA FailsCosts ==
    ASSUME Stepping, NEW m, Fails(m)
    PROVE  Faulty
  BY FaultCosts DEF Fails, Still, coordVars

(* What agent r does while it goes on running costs nothing, as long as    *)
(* its attempt stays on track.                                             *)
LEMMA RunningCosts ==
    ASSUME Stepping, NEW r \in Resource, Alive(r)',
           \A s \in Resource \ {r} : agent'[s] = agent[s] /\ member'[s] = member[s],
           NEW t \in Task, Still(t),
           (status[t] = "Running" /\ lease[t].resource = r /\ OnTrack(t)) => OnTrack(t)'
    PROVE  Costless(t)
  <1>1. Local(r)
    BY DEF Local, Dead, DeadActive
  <1>2. lease'[t] = lease[t]
    BY DEF Still
  <1>3. Calm(t)
    BY <1>1, <1>2, LocalIsCalm DEF Stepping
  <1> QED
    BY <1>3, StillCosts DEF Stepping, TypeInv

LEMMA JoinCosts ==
    ASSUME Stepping, NEW r \in Resource, Start(r) \/ Rejoin(r)
    PROVE  Quiet \/ Faulty
  <1> DEFINE m == Request("register", r)
  <1>1. agent[r] \in ProcessType /\ agent \in [Resource -> ProcessType]
    BY ProcessFields DEF Stepping, TypeInv, AgentType
  <1>2. m.kind = "register" /\ m.resource = r
    BY DEF Request
  <1>3. CASE /\ Handle(m) /\ NoFault
             /\ agent' = [agent EXCEPT ![r].state = "up", ![r].epoch = member[r].epoch + 1]
    <2>1. Register(r)
      BY <1>2, <1>3 DEF Handle
    <2>2. /\ agent'[r].state = "up"
          /\ \A s \in Resource \ {r} : agent'[s] = agent[s]
      BY <1>1, <1>3 DEF ProcessType
    <2>3. \A s \in Resource \ {r} : member'[s] = member[s]
      BY <2>1 DEF Register, Stepping, TypeInv, CoordType
    <2>4. \A t \in Task : Still(t)
      BY <2>1 DEF Register, Still
    <2>5. Alive(r)'
      BY <2>2 DEF Alive
    <2>6. ASSUME NEW t \in Task, status[t] = "Running", lease[t].resource = r, OnTrack(t)
          PROVE  FALSE
      BY <2>6, OnTrackServed DEF Stepping, Start, Rejoin
    <2>7. \A t \in Task : Costless(t)
      BY <2>2, <2>3, <2>4, <2>5, <2>6, RunningCosts
    <2> QED
      BY <1>3, <2>7 DEF Quiet
  <1>4. CASE Fails(m)
    BY <1>4, FailsCosts
  <1> QED
    BY <1>3, <1>4 DEF Start, Rejoin

LEMMA HeartbeatCosts ==
    ASSUME Stepping, NEW r \in Resource, HeartbeatTick(r)
    PROVE  Quiet \/ Faulty
  <1> DEFINE m == Request("heartbeat", r)
  <1>1. agent[r] \in ProcessType /\ agent \in [Resource -> ProcessType]
    BY ProcessFields DEF Stepping, TypeInv, AgentType
  <1>2. m.kind = "heartbeat" /\ m.resource = r
    BY DEF Request
  <1>3. CASE Accepted(m) /\ Handle(m) /\ NoFault /\ UNCHANGED agent
    <2>1. Heartbeat(r)
      BY <1>2, <1>3 DEF Handle
    <2>2. /\ \A s \in Resource \ {r} : member'[s] = member[s]
          /\ member'[r] = [member[r] EXCEPT !.fresh = TRUE]
          /\ member[r] \in [epoch : Nat, fresh : BOOLEAN]
      BY <2>1 DEF Heartbeat, Stepping, TypeInv, CoordType
    <2>3. member'[r].epoch = member[r].epoch /\ member'[r].fresh
      BY <2>2
    <2>4. \A t \in Task : Still(t)
      BY <2>1 DEF Heartbeat, Still
    <2>5. Alive(r)'
      BY <1>3 DEF HeartbeatTick, Alive
    <2>6. winner' = winner /\ agent' = agent /\ lease' = lease
      BY <1>3, <2>1 DEF Heartbeat
    <2>7. ASSUME NEW t \in Task, lease[t].resource = r, OnTrack(t) PROVE OnTrack(t)'
      <3>1. OnTrackAt(t, r) /\ lease[t].fresh
        BY <2>7 DEF OnTrack
      <3>2. OnTrackAt(t, r)'
        BY <2>3, <2>6, <3>1 DEF OnTrackAt, Active, Alive
      <3> QED
        BY <2>6, <2>7, <3>1, <3>2 DEF OnTrack
    <2>8. \A t \in Task : Costless(t)
      BY <2>2, <2>4, <2>5, <2>6, <2>7, RunningCosts
    <2> QED
      BY <1>3, <2>8 DEF Quiet
  <1>4. CASE ~Accepted(m) /\ UNCHANGED coordVars /\ NoFault
             /\ agent' = [agent EXCEPT ![r].state = "rejoin"]
    <2>1. agent'[r].state = "rejoin" /\ \A s \in Resource \ {r} : agent'[s] = agent[s]
      BY <1>1, <1>4 DEF ProcessType
    <2>2. member' = member /\ \A t \in Task : Still(t)
      BY <1>4 DEF coordVars, Still
    <2>3. Alive(r)'
      BY <2>1 DEF Alive
    <2>4. ASSUME NEW t \in Task, status[t] = "Running", lease[t].resource = r, OnTrack(t)
          PROVE  FALSE
      BY <1>4, <2>4, OnTrackServed DEF Stepping
    <2>5. \A t \in Task : Costless(t)
      BY <2>1, <2>2, <2>3, <2>4, RunningCosts
    <2> QED
      BY <1>4, <2>5 DEF Quiet
  <1>5. CASE Fails(m)
    BY <1>5, FailsCosts
  <1> QED
    BY <1>3, <1>4, <1>5 DEF HeartbeatTick

(* The attempt a poll hands out is on track, unless a member has stopped.  *)
LEMMA AssignedOnTrack ==
    ASSUME Stepping, HoldersPresent, NEW r \in Resource, agent[r].state = "up",
           Accepted(Request("poll", r)), Offered(r) # {}, NEW t \in Task, t = First(r),
           BeginExecution(t, r), agent' = [agent EXCEPT ![r] = WithWork(r, t)],
           Dead = {}
    PROVE  OnTrack(t)' /\ Dead' = {}
  <1> DEFINE w == [task |-> t, exec |-> NewExec, epoch |-> member[r].epoch,
                   stage |-> "fetch",
                   replicas |-> IF Input[t] = NoTask THEN {} ELSE holders[Input[t]]]
             m == Request("poll", r)
  <1>1. agent[r] \in ProcessType /\ agent \in [Resource -> ProcessType]
    BY ProcessFields DEF Stepping, TypeInv, AgentType
  <1>2. /\ w.task = t /\ w.exec = NewExec /\ w.epoch = member[r].epoch
        /\ w.stage = "fetch" /\ Input[t] # NoTask => w.replicas = holders[Input[t]]
    OBVIOUS
  <1>3. NewExec \in Nat /\ member[r].epoch \in Nat
    BY NewExecFresh DEF Stepping, TypeInv, CoordType
  <1>4. (IF Input[t] = NoTask THEN {} ELSE holders[Input[t]]) \in SUBSET Resource
    BY AgentsAssumption DEF Stepping, TypeInv, CoordType
  <1>5. w \in WorkType
    BY <1>3, <1>4 DEF WorkType
  <1>6. w # NoWork
    BY <1>5, AgentsAssumption
  <1>7. agent' = [agent EXCEPT ![r] = [agent[r] EXCEPT !.busy = TRUE, !.renewing = TRUE,
                                                       !.work = w]]
    BY DEF WithWork
  <1>8. /\ m.kind = "poll" /\ m.resource = r /\ m.epoch = agent[r].epoch
    BY DEF Request
  <1> HIDE DEF w, m
  <1>9. /\ agent'[r].state = "up" /\ agent'[r].work = w /\ agent'[r].renewing
        /\ agent'[r].epoch = agent[r].epoch
        /\ \A s \in Resource \ {r} : agent'[s] = agent[s]
    <2> DEFINE p == [agent[r] EXCEPT !.busy = TRUE, !.renewing = TRUE, !.work = w]
    <2>1. /\ p.state = "up" /\ p.work = w /\ p.renewing = TRUE /\ p.epoch = agent[r].epoch
      BY <1>1 DEF ProcessType
    <2> HIDE DEF p
    <2>2. agent'[r] = p /\ \A s \in Resource \ {r} : agent'[s] = agent[s]
      BY <1>1, <1>7 DEF p
    <2> QED
      BY <2>1, <2>2
  <1>10. Active(r) /\ member[r].epoch = agent[r].epoch /\ Resolves(t)
    <2>1. Accepted(m)
      BY DEF m
    <2> QED
      BY <1>8, <2>1 DEF Accepted
  <1>11. /\ lease'[t] = [exec |-> NewExec, resource |-> r, epoch |-> member[r].epoch,
                         fresh |-> TRUE]
         /\ member' = member /\ holders' = holders
    BY DEF BeginExecution, Stepping, TypeInv, CoordType
  <1>12. /\ lease'[t].exec = NewExec /\ lease'[t].resource = r
         /\ lease'[t].epoch = member[r].epoch /\ lease'[t].fresh
    BY <1>11
  <1>13. \A s \in Resource : Alive(s)' <=> Alive(s)
    BY <1>9 DEF Alive
  <1>14. Dead' = Dead
    BY <1>11, <1>13 DEF Dead
  <1>15. ASSUME Input[t] # NoTask PROVE \E h \in holders[Input[t]] : Alive(h)'
    <2>1. PICK h \in holders[Input[t]] : TRUE
      BY <1>10, <1>15 DEF Resolves
    <2>2. h \in Resource /\ member[h].epoch > 0
      BY <1>15, <2>1, AgentsAssumption DEF HoldersPresent, Stepping, TypeInv, CoordType
    <2>3. Alive(h)
      BY <2>2 DEF Dead
    <2> QED
      BY <1>13, <2>1, <2>2, <2>3
  <1>16. OnTrackAt(t, r)'
    BY <1>2, <1>6, <1>9, <1>10, <1>11, <1>12, <1>15 DEF OnTrackAt, Active
  <1> QED
    BY <1>12, <1>14, <1>16 DEF OnTrack

LEMMA PollCosts ==
    ASSUME Stepping, HoldersPresent, NEW r \in Resource, PollTick(r)
    PROVE  Quiet \/ Faulty
  <1> DEFINE m == Request("poll", r)
  <1>1. agent[r] \in ProcessType /\ agent \in [Resource -> ProcessType]
        /\ Sound(m) /\ m.kind = "poll"
    BY ProcessFields, RequestSound DEF Stepping, TypeInv, AgentType
  <1>2. m.resource = r /\ agent[r].state = "up" /\ Alive(r) /\ agent[r].work = NoWork
    BY ProcessFields DEF Request, PollTick, Alive, Stepping, TypeInv, ProcessSound
  <1>3. CASE UNCHANGED coordVars /\ UNCHANGED agent /\ NoFault
    <2>1. member' = member /\ (\A t \in Task : Still(t)) /\ lease' = lease /\ winner' = winner
      BY <1>3 DEF coordVars, Still
    <2>2. Alive(r)' /\ agent' = agent
      BY <1>2, <1>3 DEF Alive
    <2>3. ASSUME NEW t \in Task, lease[t].resource = r, OnTrack(t) PROVE OnTrack(t)'
      BY <2>1, <2>2, <2>3 DEF OnTrack, OnTrackAt, Active, Alive
    <2>4. \A t \in Task : Costless(t)
      BY <2>1, <2>2, <2>3, RunningCosts
    <2> QED
      BY <1>3, <2>4 DEF Quiet
  <1>4. CASE /\ Accepted(m) /\ Handle(m) /\ NoFault /\ Offered(r) # {}
             /\ agent' = [agent EXCEPT ![r] = WithWork(r, First(r))]
    <2>1. \A s \in Resource \ {r} : agent'[s] = agent[s]
      BY <1>1, <1>4
    <2>2. agent'[r].state = agent[r].state
      BY <1>1, <1>4 DEF WithWork, ProcessType
    <2>3. Alive(r)'
      BY <1>2, <2>2 DEF Alive
    <2>4. BeginExecution(First(r), r)
      BY <1>1, <1>2, <1>4 DEF Handle
    <2>5. member' = member
      BY <2>4 DEF BeginExecution
    <2>6. ASSUME NEW t \in Task PROVE Costless(t)
      <3>1. CASE Still(t)
        <4>1. (status[t] = "Running" /\ lease[t].resource = r /\ OnTrack(t)) => FALSE
          BY <1>2, OnTrackServed DEF Stepping
        <4> QED
          BY <2>1, <2>3, <2>5, <3>1, <4>1, RunningCosts
      <3>2. CASE status[t] = "Pending" /\ t = First(r)
        <4>1. Dead = {} => Dead' = {} /\ OnTrack(t)'
          BY <1>2, <1>4, <2>4, <3>2, AssignedOnTrack
        <4> QED
          BY <2>4, <3>2, <4>1, BeginCosts DEF Stepping, TypeInv
      <3> HIDE DEF m
      <3>3. Still(t) \/ (status[t] = "Pending" /\ t = First(r))
        BY <1>1, <1>2, <1>4, HandleRecords DEF Stepping, TypeInv
      <3> QED
        BY <3>1, <3>2, <3>3
    <2> QED
      BY <1>4, <2>6 DEF Quiet
  <1>5. CASE Fails(m)
    BY <1>5, FailsCosts
  <1>6. \/ UNCHANGED coordVars /\ UNCHANGED agent /\ NoFault
        \/ /\ Accepted(m) /\ Handle(m) /\ NoFault /\ Offered(r) # {}
           /\ agent' = [agent EXCEPT ![r] = WithWork(r, First(r))]
        \/ Fails(m)
    BY <1>1, <1>2 DEF PollTick, Handle
  <1> QED
    BY <1>3, <1>4, <1>5, <1>6

(* Agent r becomes p, with its work at a later stage.                      *)
GetsOn(r, p, st) ==
    /\ agent'[r] = p /\ p.state = agent[r].state /\ p.epoch = agent[r].epoch
    /\ p.work # NoWork /\ p.work.stage = st /\ p.work.task = agent[r].work.task
    /\ p.work.exec = agent[r].work.exec /\ p.work.epoch = agent[r].work.epoch
    /\ st = "run" => p.renewing = agent[r].renewing

LEMMA StageGetsOn ==
    ASSUME AgentType, NEW r \in Resource, agent[r].work # NoWork, NEW p,
           NEW st \in {"run", "report"}, agent' = [agent EXCEPT ![r] = p],
           p.state = agent[r].state, p.epoch = agent[r].epoch,
           p.work = [agent[r].work EXCEPT !.stage = st],
           st = "run" => p.renewing = agent[r].renewing
    PROVE  GetsOn(r, p, st)
  <1>1. agent[r].work \in WorkType /\ agent \in [Resource -> ProcessType]
    BY ProcessFields DEF AgentType
  <1>2. /\ p.work \in WorkType /\ p.work.stage = st /\ p.work.task = agent[r].work.task
        /\ p.work.exec = agent[r].work.exec /\ p.work.epoch = agent[r].work.epoch
    BY <1>1 DEF WorkType
  <1>3. p.work # NoWork
    BY <1>2, AgentsAssumption
  <1>4. agent'[r] = p
    BY <1>1
  <1> QED
    BY <1>2, <1>3, <1>4 DEF GetsOn

(* Work that gets on stays on track.                                       *)
LEMMA StageOnTrack ==
    ASSUME NEW r, NEW p, NEW st \in {"run", "report"}, GetsOn(r, p, st),
           agent[r].work.stage # "report", NEW t, lease[t].resource = r, OnTrack(t),
           lease'[t] = lease[t], member' = member
    PROVE  OnTrack(t)'
  <1>1. OnTrackAt(t, r) /\ lease[t].fresh
    BY DEF OnTrack
  <1>2. agent[r].renewing
    BY <1>1 DEF OnTrackAt
  <1>3. agent'[r].renewing \/ agent'[r].work.stage = "report"
    BY <1>2 DEF GetsOn
  <1>4. agent'[r].work.stage # "fetch"
    BY DEF GetsOn
  <1>5. /\ agent'[r].state = "up" /\ agent'[r].work # NoWork /\ agent'[r].work.task = t
        /\ agent'[r].work.exec = lease'[t].exec /\ agent'[r].work.epoch = lease'[t].epoch
        /\ agent'[r].epoch = lease'[t].epoch /\ member'[r].epoch = lease'[t].epoch
    BY <1>1 DEF OnTrackAt, GetsOn
  <1>6. Active(r)'
    BY <1>1 DEF OnTrackAt, Active
  <1>7. OnTrackAt(t, r)'
    BY <1>3, <1>4, <1>5, <1>6 DEF OnTrackAt
  <1> QED
    BY <1>1, <1>7 DEF OnTrack

LEMMA ExecuteCosts ==
    ASSUME Stepping, NEW r \in Resource, Execute(r)
    PROVE  Quiet \/ Faulty
  <1>1. /\ agent[r] \in ProcessType /\ agent \in [Resource -> ProcessType]
        /\ agent[r].work \in WorkType /\ agent[r].blobs \in SUBSET Nat
        /\ Alive(r) /\ agent[r].work # NoWork /\ agent[r].work.stage = "run"
    BY ProcessFields DEF Stepping, TypeInv, AgentType, Execute, Working
  <1>2. agent[r].work.exec \in Nat
    BY <1>1 DEF WorkType
  <1>3. /\ member' = member /\ lease' = lease /\ UNCHANGED wire
        /\ \A t \in Task : Still(t)
    BY DEF Execute, coordVars, Still
  <1>4. CASE /\ agent' = [agent EXCEPT ![r].work.stage = "report",
                                       ![r].renewing = FALSE,
                                       ![r].blobs = @ \cup {agent[r].work.exec}]
             /\ UNCHANGED faults
    <2> DEFINE w == [agent[r].work EXCEPT !.stage = "report"]
               b == agent[r].blobs \cup {agent[r].work.exec}
               p == [agent[r] EXCEPT !.work = w, !.renewing = FALSE, !.blobs = b]
    <2>1. w \in WorkType /\ b \in SUBSET Nat
      BY <1>1, <1>2 DEF WorkType
    <2>2. agent' = [agent EXCEPT ![r] = p]
      BY <1>1, <1>4 DEF ProcessType
    <2>3. /\ p \in ProcessType /\ p.state = agent[r].state /\ p.epoch = agent[r].epoch
          /\ p.work = w
      BY <1>1, <2>1 DEF ProcessType
    <2> HIDE DEF p
    <2>4. agent'[r] = p /\ \A s \in Resource \ {r} : agent'[s] = agent[s]
      BY <1>1, <2>2
    <2>5. Alive(r)'
      BY <1>1, <2>3, <2>4 DEF Alive
    <2>6. \A t \in Task : (lease[t].resource = r /\ OnTrack(t)) => OnTrack(t)'
      <3>1. GetsOn(r, p, "report")
        BY <1>1, <2>2, <2>3, StageGetsOn DEF Stepping, TypeInv
      <3> QED
        BY <1>1, <1>3, <3>1, StageOnTrack
    <2>7. \A t \in Task : Costless(t)
      BY <1>3, <2>4, <2>5, <2>6, RunningCosts
    <2> QED
      BY <1>3, <1>4, <2>7 DEF Quiet, NoFault
  <1>5. CASE Fault
    BY <1>3, <1>5, FaultCosts
  <1> QED
    BY <1>4, <1>5 DEF Execute

(* A request about its attempt that is refused costs nothing: then the     *)
(* attempt was off the track before.                                       *)
LEMMA RefusedCosts ==
    ASSUME Stepping, NEW r \in Resource, NoFault, UNCHANGED coordVars,
           NEW p, agent' = [agent EXCEPT ![r] = p], p.state \in {"up", "rejoin"},
           \A t \in Task : (status[t] = "Running" /\ lease[t].resource = r) => ~OnTrack(t)
    PROVE  Quiet
  <1>1. agent'[r] = p /\ \A s \in Resource \ {r} : agent'[s] = agent[s]
    BY DEF Stepping, TypeInv, AgentType
  <1>2. member' = member /\ \A t \in Task : Still(t)
    BY DEF coordVars, Still
  <1>3. Alive(r)'
    BY <1>1 DEF Alive
  <1>4. \A t \in Task : Costless(t)
    BY <1>1, <1>2, <1>3, RunningCosts
  <1> QED
    BY <1>4 DEF Quiet

LEMMA ReportCosts ==
    ASSUME Stepping, NEW r \in Resource, Report(r)
    PROVE  Quiet \/ Faulty
  <1> DEFINE m == LeaseRequest("complete", r)
             p == Freed(agent[r])
  <1>1. /\ agent[r] \in ProcessType /\ agent \in [Resource -> ProcessType]
        /\ Alive(r) /\ agent[r].work # NoWork
    BY ProcessFields DEF Stepping, TypeInv, AgentType, Report, Working
  <1>2. Sound(m) /\ m.kind = "complete" /\ m.task = agent[r].work.task
    BY <1>1, RequestSound DEF Stepping, TypeInv, LeaseRequest
  <1>3. agent' = [agent EXCEPT ![r] = p]
    BY DEF Report, GiveUp
  <1>4. p.state \in {"up", "rejoin"}
    BY <1>1 DEF Freed, ProcessType, Alive
  <1>5. \A t \in Task : (status[t] = "Running" /\ lease[t].resource = r /\ OnTrack(t)) =>
           Accepted(m) /\ m.task = t
    BY <1>2, OnTrackServed DEF Stepping
  <1> HIDE DEF m, p
  <1>6. CASE Accepted(m) /\ Handle(m) /\ NoFault
    <2>1. agent'[r] = p /\ \A s \in Resource \ {r} : agent'[s] = agent[s]
      BY <1>1, <1>3
    <2>2. Alive(r)'
      BY <1>4, <2>1 DEF Alive
    <2>3. CompleteExecution(m)
      BY <1>2, <1>6 DEF Handle
    <2>4. member' = member
      BY <2>3 DEF CompleteExecution
    <2>5. ASSUME NEW t \in Task PROVE Costless(t)
      <3>1. CASE t = m.task
        <4>1. status'[t] = "Completed" /\ granted'[t] = granted[t]
          BY <2>3, <3>1 DEF CompleteExecution, Stepping, TypeInv, CoordType
        <4> QED
          BY <4>1, EndCosts DEF Stepping, TypeInv
      <3>2. CASE t # m.task
        <4>1. Still(t)
          BY <2>3, <3>2 DEF CompleteExecution, Still, Stepping, TypeInv, CoordType
        <4> QED
          BY <1>5, <2>1, <2>2, <2>4, <3>2, <4>1, RunningCosts
      <3> QED
        BY <3>1, <3>2
    <2> QED
      BY <1>6, <2>5 DEF Quiet
  <1>7. CASE ~Accepted(m) /\ UNCHANGED coordVars /\ NoFault
    BY <1>3, <1>4, <1>5, <1>7, RefusedCosts
  <1>8. CASE Fails(m)
    BY <1>8, FailsCosts
  <1> QED
    BY <1>6, <1>7, <1>8 DEF Report, m

LEMMA RenewCosts ==
    ASSUME Stepping, NEW r \in Resource, RenewTick(r)
    PROVE  Quiet \/ Faulty
  <1> DEFINE m == LeaseRequest("renew", r)
             p == [agent[r] EXCEPT !.renewing = FALSE]
  <1>1. /\ agent[r] \in ProcessType /\ agent \in [Resource -> ProcessType]
        /\ Alive(r) /\ agent[r].work # NoWork
    BY ProcessFields DEF Stepping, TypeInv, AgentType, RenewTick, ProcessSound
  <1>2. Sound(m) /\ m.kind = "renew"
    BY <1>1, RequestSound DEF Stepping, TypeInv
  <1>3. p.state \in {"up", "rejoin"}
    BY <1>1 DEF ProcessType, Alive
  <1>4. \A t \in Task : (status[t] = "Running" /\ lease[t].resource = r /\ OnTrack(t)) =>
           Accepted(m)
    BY OnTrackServed DEF Stepping
  <1>5. agent' = [agent EXCEPT ![r].renewing = FALSE] => agent' = [agent EXCEPT ![r] = p]
    BY <1>1
  <1> HIDE DEF m, p
  <1>6. CASE Accepted(m) /\ Handle(m) /\ NoFault /\ UNCHANGED agent
    <2>1. \A t \in Task : Still(t)
      BY <1>2, <1>6, HandleRecords DEF Stepping, TypeInv
    <2>2. member' = member /\ winner' = winner /\ agent' = agent
      BY <1>2, <1>6 DEF Handle, RenewExecution
    <2>3. Alive(r)'
      BY <1>1, <2>2 DEF Alive
    <2>4. ASSUME NEW t \in Task, lease[t].resource = r, OnTrack(t) PROVE OnTrack(t)'
      BY <2>1, <2>2, <2>4 DEF OnTrack, OnTrackAt, Active, Alive, Still
    <2>5. \A t \in Task : Costless(t)
      BY <2>1, <2>2, <2>3, <2>4, RunningCosts
    <2> QED
      BY <1>6, <2>5 DEF Quiet
  <1>7. CASE ~Accepted(m) /\ UNCHANGED coordVars /\ NoFault
             /\ agent' = [agent EXCEPT ![r].renewing = FALSE]
    BY <1>3, <1>4, <1>5, <1>7, RefusedCosts
  <1>8. CASE Fails(m)
    BY <1>8, FailsCosts
  <1> QED
    BY <1>6, <1>7, <1>8 DEF RenewTick, m

(* An attempt on track finds its input in the store, or a living replica.  *)
LEMMA FetchCosts ==
    ASSUME Stepping, NEW r \in Resource, FetchInput(r)
    PROVE  Quiet \/ Faulty
  <1> DEFINE w == agent[r].work
             local == Input[w.task] # NoTask => InputBlob(w.task) \in agent[r].blobs
             m == ReplicaRequest(r)
             v == [agent[r].work EXCEPT !.stage = "run"]
             f == Fetched(r)
             q == [agent[r] EXCEPT !.work = v]
  <1>1. /\ agent[r] \in ProcessType /\ agent \in [Resource -> ProcessType]
        /\ agent[r].work \in WorkType /\ Alive(r) /\ agent[r].work # NoWork
        /\ agent[r].work.stage = "fetch"
    BY ProcessFields DEF Stepping, TypeInv, AgentType, FetchInput, Working
  <1>2. \A t \in Task : (status[t] = "Running" /\ lease[t].resource = r /\ OnTrack(t)) =>
           /\ t = w.task /\ (Input[t] # NoTask => Accepted(m))
           /\ local \/ \E h \in w.replicas : Alive(h)
    <2> SUFFICES ASSUME NEW t \in Task, status[t] = "Running", lease[t].resource = r,
                        OnTrack(t)
                 PROVE  /\ t = w.task /\ (Input[t] # NoTask => Accepted(m))
                        /\ local \/ \E h \in w.replicas : Alive(h)
      OBVIOUS
    <2>1. t = w.task /\ (Input[t] # NoTask => Accepted(m))
      BY OnTrackServed DEF Stepping
    <2>2. OnTrackAt(t, r)
      BY DEF OnTrack
    <2>3. local \/ \E h \in w.replicas : Alive(h)
      BY <1>1, <2>1, <2>2 DEF OnTrackAt, InputBlob
    <2> QED
      BY <2>1, <2>3
  <1>3. /\ q.state = agent[r].state /\ q.epoch = agent[r].epoch /\ q.work = v
        /\ q.renewing = agent[r].renewing
    BY <1>1 DEF ProcessType
  <1>4. /\ f.state = agent[r].state /\ f.epoch = agent[r].epoch /\ f.work = v
        /\ f.renewing = agent[r].renewing
    <2>1. f = [agent[r] EXCEPT !.work = v,
                  !.blobs = agent[r].blobs \cup {InputBlob(agent[r].work.task)}]
      BY <1>1 DEF Fetched, ProcessType
    <2> QED
      BY <1>1, <2>1 DEF ProcessType
  <1>5. /\ Freed(agent[r]).state \in {"up", "rejoin"}
        /\ Freed(f).state \in {"up", "rejoin"}
    <2>1. Freed(agent[r]).state = agent[r].state
      BY <1>1 DEF Freed, ProcessType
    <2>2. Freed(f).state = f.state
      BY <1>1 DEF Freed, Fetched, ProcessType
    <2> HIDE DEF f
    <2> QED
      BY <1>1, <1>4, <2>1, <2>2 DEF Alive
  <1>6. agent' = [agent EXCEPT ![r].work.stage = "run"] => agent' = [agent EXCEPT ![r] = q]
    BY <1>1
  <1>7. \/ /\ agent' = [agent EXCEPT ![r].work.stage = "run"]
           /\ NoFault /\ UNCHANGED coordVars
        \/ /\ ~local /\ Accepted(m) /\ Handle(m) /\ NoFault
           /\ agent' = [agent EXCEPT ![r] = f]
        \/ /\ ~local /\ ~Accepted(m) /\ UNCHANGED coordVars /\ NoFault
           /\ agent' = [agent EXCEPT ![r] = Freed(f)]
        \/ Fails(m)
        \/ /\ ~local /\ ~\E h \in w.replicas : Alive(h)
           /\ NoFault /\ UNCHANGED coordVars
           /\ agent' = [agent EXCEPT ![r] = Freed(agent[r])]
    BY DEF FetchInput, GiveUp
  <1> HIDE DEF q, f
  <1>8. ASSUME NEW p, agent' = [agent EXCEPT ![r] = p],
               p.state = agent[r].state, p.epoch = agent[r].epoch, p.work = v,
               p.renewing = agent[r].renewing, NoFault, member' = member,
               \A t \in Task : Still(t)
        PROVE  Quiet
    <2>1. GetsOn(r, p, "run")
      BY <1>1, <1>8, StageGetsOn DEF Stepping, TypeInv
    <2> HIDE DEF v
    <2>2. \A t \in Task : (lease[t].resource = r /\ OnTrack(t)) => OnTrack(t)'
      BY <1>1, <1>8, <2>1, StageOnTrack DEF Still
    <2>3. agent'[r] = p /\ \A s \in Resource \ {r} : agent'[s] = agent[s]
      BY <1>1, <1>8
    <2>4. Alive(r)'
      BY <1>1, <1>8, <2>3 DEF Alive
    <2>5. \A t \in Task : Costless(t)
      BY <1>8, <2>2, <2>3, <2>4, RunningCosts
    <2> QED
      BY <1>8, <2>5 DEF Quiet
  <1>9. CASE /\ agent' = [agent EXCEPT ![r].work.stage = "run"]
             /\ NoFault /\ UNCHANGED coordVars
    <2>1. member' = member /\ \A t \in Task : Still(t)
      BY <1>9 DEF coordVars, Still
    <2> QED
      BY <1>3, <1>6, <1>8, <1>9, <2>1
  <1>10. CASE /\ ~local /\ Accepted(m) /\ Handle(m) /\ NoFault
              /\ agent' = [agent EXCEPT ![r] = f]
    <2>1. m.kind = "replica"
      BY DEF ReplicaRequest
    <2>2. member' = member /\ \A t \in Task : Still(t)
      BY <1>10, <2>1 DEF Handle, RegisterReplica, Still
    <2> QED
      BY <1>4, <1>8, <1>10, <2>2
  <1>11. CASE /\ ~local /\ ~Accepted(m) /\ UNCHANGED coordVars /\ NoFault
              /\ agent' = [agent EXCEPT ![r] = Freed(f)]
    <2>1. Input[w.task] # NoTask
      BY <1>11
    <2> HIDE DEF m, v
    <2>2. \A t \in Task : (status[t] = "Running" /\ lease[t].resource = r) => ~OnTrack(t)
      BY <1>2, <1>11, <2>1
    <2> DEFINE p == Freed(f)
    <2>3. agent' = [agent EXCEPT ![r] = p] /\ p.state \in {"up", "rejoin"}
      BY <1>5, <1>11
    <2> HIDE DEF p
    <2> QED
      BY <1>11, <2>2, <2>3, RefusedCosts
  <1>12. CASE /\ ~local /\ ~\E h \in w.replicas : Alive(h)
              /\ NoFault /\ UNCHANGED coordVars
              /\ agent' = [agent EXCEPT ![r] = Freed(agent[r])]
    BY <1>2, <1>5, <1>12, RefusedCosts
  <1>13. CASE Fails(m)
    BY <1>13, FailsCosts
  <1> QED
    BY <1>7, <1>9, <1>10, <1>11, <1>12, <1>13

-----------------------------------------------------------------------------
(* Time, clients and late requests.                                        *)

LEMMA UnmovedCosts ==
    ASSUME Stepping, UNCHANGED <<agent, member, winner>>, NEW t \in Task, Still(t)
    PROVE  Costless(t)
  <1>1. Dead' = Dead /\ DeadActive' = DeadActive
    BY DEF DeadActive, Dead, Alive
  <1>2. OnTrack(t) => OnTrack(t)'
    BY DEF OnTrack, OnTrackAt, Active, Alive, Still
  <1>3. Calm(t)
    BY <1>1, <1>2 DEF Calm
  <1> QED
    BY <1>3, StillCosts DEF Stepping, TypeInv

LEMMA SubmitCosts ==
    ASSUME Stepping, NEW u \in Task, SubmitTask(u)
    PROVE  Quiet
  <1>1. /\ status' = [status EXCEPT ![u] = "Pending"] /\ status[u] = "Unsubmitted"
        /\ UNCHANGED <<member, lease, winner, holders, granted, agent, wire, faults>>
    BY DEF SubmitTask
  <1>2. ASSUME NEW t \in Task PROVE Costless(t)
    <2>1. CASE t = u
      <3> DEFINE g == Cardinality(granted[t])
                 c == Claims(t)
      <3>1. Dead' = Dead
        BY <1>1 DEF Dead, Alive
      <3>2. status'[t] = "Pending"
        BY <1>1, <2>1 DEF Stepping, TypeInv, CoordType
      <3>3. c = IF Dead = {} THEN 1 ELSE 2
        BY <1>1, <2>1, ClaimsFacts DEF Stepping, TypeInv
      <3>4. Claims(t)' = IF Dead' = {} THEN 1 ELSE 2
        BY <3>2 DEF Claims
      <3>5. g \in Nat /\ c \in 0..2
        BY GrantedNumber, ClaimsFacts DEF Stepping, TypeInv
      <3>6. Spent(t) = g + c /\ Spent(t)' = g + c
        BY <1>1, <3>1, <3>3, <3>4 DEF Spent
      <3> HIDE DEF g, c
      <3> QED
        BY <3>5, <3>6 DEF Costless
    <2>2. CASE t # u
      <3>1. Still(t)
        BY <1>1, <2>2 DEF Still, Stepping, TypeInv, CoordType
      <3> QED
        BY <1>1, <3>1, UnmovedCosts
    <2> QED
      BY <2>1, <2>2
  <1> QED
    BY <1>1, <1>2 DEF Quiet, NoFault

(* A lease that lapses by itself was off the track, and no stopped agent   *)
(* is listed as running any more; one that a fault makes lapse costs one.  *)
LEMMA LeaseCosts ==
    ASSUME Stepping, NEW u \in Task, LapseLease(u), NEW t \in Task
    PROVE  CostsOne(t) /\ (Untended(u) => Costless(t))
  <1>1. /\ status[u] = "Running" /\ lease[u].fresh
        /\ lease' = [lease EXCEPT ![u].fresh = FALSE]
        /\ UNCHANGED <<member, status, winner, holders, granted, agent, wire>>
    BY DEF LapseLease
  <1>2. lease \in [Task -> LeaseType \cup {NoLease}] /\ lease[u] \in LeaseType
    BY <1>1 DEF Stepping, TypeInv, CoordType
  <1>3. CASE t = u
    <2> DEFINE g == Cardinality(granted[t])
               c == Claims(t)
               d == Claims(t)'
    <2>1. lease'[u] = [lease[u] EXCEPT !.fresh = FALSE]
      BY <1>1, <1>2
    <2>2. lease'[u].fresh = FALSE
      BY <1>2, <2>1 DEF LeaseType
    <2>3. Dead' = Dead /\ DeadActive' = DeadActive
      BY <1>1 DEF DeadActive, Dead, Alive
    <2>4. c = IF OnTrack(t) /\ Dead = {} THEN 0 ELSE 1
      BY <1>1, <1>3, ClaimsFacts DEF Stepping, TypeInv
    <2>5. d = IF DeadActive = {} THEN 1 ELSE 2
      BY <1>1, <1>3, <2>2, <2>3 DEF Claims
    <2>6. DeadActive # {} => Dead # {}
      BY DEF DeadActive
    <2>7. Untended(u) => ~OnTrack(t) /\ DeadActive = {}
      BY <1>3 DEF Untended, Tended, OnTrack, OnTrackAt, DeadActive, Dead, Active
    <2>8. g \in Nat
      BY GrantedNumber DEF Stepping
    <2>9. Spent(t) = g + c /\ Spent(t)' = g + d
      BY <1>1 DEF Spent
    <2> HIDE DEF g, c, d
    <2> QED
      BY <2>4, <2>5, <2>6, <2>7, <2>8, <2>9 DEF CostsOne, Costless
  <1>4. CASE t # u
    <2>1. Still(t)
      BY <1>1, <1>2, <1>4 DEF Still
    <2> QED
      BY <1>1, <2>1, UnmovedCosts, StillCosts DEF Stepping, TypeInv
  <1> QED
    BY <1>3, <1>4

LEMMA MembershipCosts ==
    ASSUME Stepping, NEW r \in Resource, LapseMember(r), NEW t \in Task
    PROVE  CostsOne(t) /\ (~Alive(r) => Costless(t))
  <1>1. /\ member' = [member EXCEPT ![r].fresh = FALSE] /\ Active(r)
        /\ UNCHANGED <<status, lease, winner, holders, granted, agent, wire>>
    BY DEF LapseMember
  <1>2. /\ member \in [Resource -> [epoch : Nat, fresh : BOOLEAN]]
        /\ member[r] \in [epoch : Nat, fresh : BOOLEAN]
    BY DEF Stepping, TypeInv, CoordType
  <1>3. /\ member'[r] = [member[r] EXCEPT !.fresh = FALSE]
        /\ \A s \in Resource \ {r} : member'[s] = member[s]
    BY <1>1, <1>2
  <1>4. member'[r].epoch = member[r].epoch /\ member'[r].fresh = FALSE
    BY <1>2, <1>3
  <1>5. Still(t)
    BY <1>1 DEF Still
  <1>6. Alive(r)' <=> Alive(r)
    BY <1>1 DEF Alive
  <1>7. Local(r)
    BY <1>1, <1>3, <1>4, <1>6 DEF Local, Dead, DeadActive
  <1>8. (status[t] = "Running" /\ lease[t].resource = r /\ OnTrack(t)) => Alive(r)
    BY OnTrackServed DEF Stepping
  <1>9. ~Alive(r) => Calm(t)
    BY <1>5, <1>7, <1>8, LocalIsCalm DEF Stepping, Still
  <1> QED
    BY <1>5, <1>9, StillCosts DEF Stepping, TypeInv

(* maintenance_tick drops the members that lapsed together with the        *)
(* leases, so that the next attempt is not offered to them.                *)
LEMMA MaintenanceCosts ==
    ASSUME Stepping, MaintenanceTick
    PROVE  Quiet
  <1> DEFINE gone == {r \in Resource : member[r].epoch > 0 /\ ~member[r].fresh}
  <1>1. /\ member' = [r \in Resource |-> IF r \in gone THEN Absent ELSE member[r]]
        /\ \A t \in Task :
              /\ t \notin Lapsed => status'[t] = status[t]
              /\ t \in Lapsed => status'[t] \in {"Uncertain", "Pending"}
              /\ lease'[t] = IF t \in Lapsed THEN NoLease ELSE lease[t]
        /\ UNCHANGED <<winner, granted, agent, wire, faults>>
    BY DEF MaintenanceTick, Reap
  <1>2. member \in [Resource -> [epoch : Nat, fresh : BOOLEAN]]
    BY DEF Stepping, TypeInv, CoordType
  <1>3. \A r \in Resource :
           /\ r \in gone => member'[r].epoch = 0
           /\ r \notin gone => member'[r] = member[r]
    BY <1>1 DEF Absent
  <1>4. \A r \in Resource : Alive(r)' <=> Alive(r)
    BY <1>1 DEF Alive
  <1>5. Dead' = DeadActive
    BY <1>2, <1>3, <1>4 DEF Dead, DeadActive
  <1>6. DeadActive' \subseteq DeadActive
    BY <1>5 DEF DeadActive
  <1>7. ASSUME NEW t \in Task, t \notin Lapsed PROVE Costless(t)
    <2>1. Still(t)
      BY <1>1, <1>7 DEF Still
    <2>2. ASSUME status[t] = "Running", OnTrack(t) PROVE OnTrack(t)'
      <3>1. PICK q : q = lease[t].resource
        OBVIOUS
      <3>2. q \in Resource /\ OnTrackAt(t, q) /\ lease[t].fresh
        BY <2>2, <3>1, OnTrackServed DEF Stepping, OnTrack
      <3>3. q \notin gone
        BY <3>2 DEF OnTrackAt, Active
      <3>4. member'[q] = member[q] /\ agent' = agent /\ winner' = winner /\ lease'[t] = lease[t]
        BY <1>1, <1>3, <1>7, <3>2, <3>3
      <3>5. OnTrackAt(t, q)'
        BY <3>2, <3>4 DEF OnTrackAt, Active, Alive
      <3> QED
        BY <3>1, <3>2, <3>4, <3>5 DEF OnTrack
    <2>3. Calm(t)
      BY <1>5, <1>6, <2>2 DEF Calm, DeadActive
    <2> QED
      BY <2>1, <2>3, StillCosts DEF Stepping, TypeInv
  <1>8. ASSUME NEW t \in Task, t \in Lapsed PROVE Costless(t)
    <2> DEFINE g == Cardinality(granted[t])
               c == Claims(t)
               d == Claims(t)'
    <2>1. status[t] = "Running" /\ ~lease[t].fresh
      BY <1>8 DEF Lapsed
    <2>2. c = IF DeadActive = {} THEN 1 ELSE 2
      BY <2>1, ClaimsFacts DEF Stepping, TypeInv
    <2>3. status'[t] \in {"Uncertain", "Pending"}
      BY <1>1, <1>8
    <2>4. d = (IF status'[t] = "Uncertain" THEN 0 ELSE IF Dead' = {} THEN 1 ELSE 2)
      BY <2>3 DEF Claims
    <2>5. d \in 0..2 /\ d <= c /\ c \in 0..2
      BY <1>5, <2>2, <2>4
    <2>6. g \in Nat
      BY GrantedNumber DEF Stepping
    <2>7. Spent(t) = g + c /\ Spent(t)' = g + d
      BY <1>1 DEF Spent
    <2> HIDE DEF g, c, d
    <2> QED
      BY <2>5, <2>6, <2>7 DEF Costless
  <1> QED
    BY <1>1, <1>7, <1>8 DEF Quiet, NoFault

Late == /\ UNCHANGED faults
        /\ \E m \in wire : wire' = wire \ {m}
        /\ \A t \in Task : CostsOne(t)

LEMMA LateCosts ==
    ASSUME Stepping, NEW m \in wire, DeliverLate(m)
    PROVE  Late
  <1>1. Sound(m)
    BY DEF Stepping, TypeInv, WireType, Sound
  <1>2. CASE Accepted(m) /\ Handle(m)
    BY <1>1, <1>2, HandleCosts DEF Late, DeliverLate, Stepping, TypeInv
  <1>3. CASE UNCHANGED coordVars
    <2>1. \A t \in Task : Still(t)
      BY <1>3 DEF coordVars, Still
    <2> QED
      BY <2>1, StillCosts DEF Late, DeliverLate, Stepping, TypeInv
  <1> QED
    BY <1>2, <1>3 DEF DeliverLate

LEMMA NextCosts ==
    ASSUME Stepping, HoldersPresent
    PROVE  Quiet \/ Faulty \/ Late
  <1>1. ASSUME NEW r \in Resource, Start(r) \/ AgentStep(r) PROVE Quiet \/ Faulty
    BY <1>1, JoinCosts, HeartbeatCosts, PollCosts, FetchCosts, ExecuteCosts, ReportCosts,
       RenewCosts DEF AgentStep
  <1>2. ASSUME NEW r \in Resource, Stop(r) PROVE Faulty
    <2>1. Fault /\ wire' = wire /\ \A t \in Task : Still(t)
      BY <1>2 DEF Stop, coordVars, Still
    <2> QED
      BY <2>1, FaultCosts
  <1>3. ASSUME NEW r \in Resource, MembershipEnds(r) PROVE Quiet
    BY <1>3, MembershipCosts DEF MembershipEnds, LapseMember, Quiet, NoFault
  <1>4. ASSUME NEW r \in Resource, MembershipMissed(r) PROVE Faulty
    BY <1>4, MembershipCosts DEF MembershipMissed, LapseMember, Faulty
  <1>5. ASSUME NEW u \in Task, LeaseEnds(u) PROVE Quiet
    BY <1>5, LeaseCosts DEF LeaseEnds, LapseLease, Quiet, NoFault
  <1>6. ASSUME NEW u \in Task, LeaseMissed(u) PROVE Faulty
    BY <1>6, LeaseCosts DEF LeaseMissed, LapseLease, Faulty
  <1>7. ProtocolStep
    BY DEF Stepping
  <1> QED
    BY <1>1, <1>2, <1>3, <1>4, <1>5, <1>6, <1>7, SubmitCosts, LateCosts, MaintenanceCosts
       DEF ProtocolStep

-----------------------------------------------------------------------------
(* The account is kept.                                                    *)

LEMMA HandleMembers ==
    ASSUME CoordType, NEW m, Sound(m), Handle(m), NEW h \in Resource,
           member[h].epoch > 0
    PROVE  member'[h].epoch > 0
  <1>1. /\ member \in [Resource -> [epoch : Nat, fresh : BOOLEAN]]
        /\ m.resource \in Resource
    BY DEF CoordType, Sound, RequestType
  <1>2. CASE m.kind = "register"
    <2>1. member' = [member EXCEPT ![m.resource] =
                        [epoch |-> member[m.resource].epoch + 1, fresh |-> TRUE]]
      BY <1>2 DEF Handle, Register
    <2> QED
      BY <1>1, <2>1
  <1>3. CASE m.kind = "heartbeat"
    <2>1. member' = [member EXCEPT ![m.resource] = [member[m.resource] EXCEPT !.fresh = TRUE]]
      BY <1>1, <1>3 DEF Handle, Heartbeat
    <2> QED
      BY <1>1, <2>1
  <1>4. CASE m.kind \notin {"register", "heartbeat"}
    <2>1. member' = member
      BY <1>4 DEF Handle, BeginExecution, RenewExecution, CompleteExecution,
                  RegisterReplica, coordVars
    <2> QED
      BY <2>1
  <1> QED
    BY <1>2, <1>3, <1>4

LEMMA NextHolders ==
    ASSUME Stepping, HoldersPresent
    PROVE  HoldersPresent'
  <1>1. CoordType /\ TypeInv /\ GrantInv /\ BytesInv /\ ProtocolStep /\ CoordType'
    BY DEF Stepping, TypeInv
  <1>2. \A t \in Task : holders[t] \subseteq Resource /\ holders'[t] \subseteq Resource
    BY <1>1 DEF CoordType
  <1>3. ASSUME NEW m, Sound(m), Accepted(m), Handle(m), NEW t \in Task, NEW h \in holders'[t]
        PROVE  member'[h].epoch > 0
    <2>1. Recorded(m, t, h) /\ h \in Resource
      BY <1>1, <1>2, <1>3, HandleEffect
    <2>2. CASE h \in holders[t]
      BY <1>1, <1>3, <2>1, <2>2, HandleMembers DEF HoldersPresent
    <2>3. CASE m.kind \in {"complete", "replica"} /\ h = m.resource
      <3>1. Active(m.resource)
        BY <1>3, <2>3 DEF Accepted, AttemptCurrent
      <3> QED
        BY <1>1, <1>3, <2>1, <2>3, <3>1, HandleMembers DEF Active
    <2> QED
      BY <2>1, <2>2, <2>3 DEF Recorded
  <1>4. CASE UNCHANGED coordVars
    BY <1>4 DEF coordVars, HoldersPresent
  <1>5. ASSUME NEW r \in Resource, LapseMember(r) PROVE HoldersPresent'
    <2>1. /\ member' = [member EXCEPT ![r] = [member[r] EXCEPT !.fresh = FALSE]]
          /\ holders' = holders
      BY <1>1, <1>5 DEF LapseMember, CoordType
    <2>2. \A h \in Resource : member'[h].epoch = member[h].epoch
      BY <1>1, <2>1 DEF CoordType
    <2> QED
      BY <1>2, <2>1, <2>2 DEF HoldersPresent
  <1>6. CASE MaintenanceTick
    <2> DEFINE gone == {r \in Resource : member[r].epoch > 0 /\ ~member[r].fresh}
    <2>1. /\ member' = [r \in Resource |-> IF r \in gone THEN Absent ELSE member[r]]
          /\ holders' = [t \in Task |-> holders[t] \ gone]
      BY <1>6 DEF MaintenanceTick
    <2> HIDE DEF gone
    <2>2. ASSUME NEW t \in Task, NEW h \in holders'[t] PROVE member'[h].epoch > 0
      <3>1. h \in holders[t] /\ h \notin gone /\ h \in Resource
        BY <1>2, <2>1, <2>2
      <3>2. member'[h] = member[h]
        BY <2>1, <3>1
      <3> QED
        BY <3>1, <3>2 DEF HoldersPresent
    <2> QED
      BY <2>2 DEF HoldersPresent
  <1>7. ASSUME NEW t \in Task, SubmitTask(t) \/ LapseLease(t) PROVE HoldersPresent'
    <2>1. holders' = holders /\ member' = member
      BY <1>7 DEF SubmitTask, LapseLease
    <2> QED
      BY <2>1 DEF HoldersPresent
  <1>8. ASSUME NEW m, Serves(m) PROVE HoldersPresent'
    BY <1>3, <1>4, <1>8 DEF Serves, HoldersPresent
  <1> QED
    BY <1>1, <1>4, <1>5, <1>6, <1>7, <1>8, NextServes DEF Unasked

LEMMA BudgetNext ==
    ASSUME AgentsInv, AgentsInv', BudgetInv, ProtocolStep
    PROVE  BudgetInv'
  <1>1. Stepping /\ HoldersPresent
    BY DEF AgentsInv, TypeInv, Stepping, BudgetInv
  <1>2. Quiet \/ Faulty \/ Late
    BY <1>1, NextCosts
  <1>3. HoldersPresent'
    BY <1>1, NextHolders
  <1>4. IsFiniteSet(wire) /\ Cardinality(wire) \in Nat /\ faults \in Nat
    BY FS_CardinalityType DEF BudgetInv, AgentsInv, TypeInv, WireType
  <1>5. ASSUME NEW t \in Task PROVE Spent(t) \in Nat /\ Spent(t)' \in Nat
    <2>1. Cardinality(granted[t]) \in Nat /\ Claims(t) \in 0..2
      BY GrantedNumber, ClaimsFacts DEF AgentsInv, TypeInv
    <2>2. IsFiniteSet(Drawn') /\ granted'[t] \subseteq Drawn'
      BY DEF AgentsInv, GrantInv, Drawn
    <2>3. IsFiniteSet(granted'[t])
      BY <2>2, FS_Subset
    <2>4. Cardinality(granted'[t]) \in Nat
      BY <2>3, FS_CardinalityType
    <2>5. status'[t] \in Statuses
      BY DEF AgentsInv, TypeInv, CoordType
    <2>6. Claims(t)' \in 0..2
      BY <2>5 DEF Claims, Statuses
    <2> QED
      BY <2>1, <2>4, <2>6 DEF Spent
  <1>6. \A t \in Task : Spent(t) + Cardinality(wire) <= 1 + 2 * faults
    <2>1. ASSUME NEW t \in Task PROVE Spent(t) + Cardinality(wire) <= 1 + 2 * faults
      <3>1. Cardinality(granted[t]) \in Nat /\ Claims(t) \in 0..2 /\ Budget(t)
        BY GrantedNumber, ClaimsFacts DEF AgentsInv, TypeInv, BudgetInv
      <3> QED
        BY <1>4, <3>1 DEF Spent, Budget
    <2> QED
      BY <2>1
  <1>7. /\ IsFiniteSet(wire')
        /\ \A t \in Task : Spent(t)' + Cardinality(wire') <= 1 + 2 * faults'
    <2>1. CASE Quiet
      <3>1. wire' = wire /\ faults' = faults
        BY <2>1 DEF Quiet, NoFault
      <3> QED
        BY <1>4, <1>5, <1>6, <2>1, <3>1 DEF Quiet, Costless
    <2>2. CASE Faulty
      <3>1. PICK m : wire' = wire \/ wire' = wire \cup {m}
        BY <2>2 DEF Faulty
      <3>2. /\ IsFiniteSet(wire') /\ Cardinality(wire') \in Nat
            /\ Cardinality(wire') <= Cardinality(wire) + 1
        BY <1>4, <3>1, FS_AddElement
      <3>3. faults' = faults + 1
        BY <2>2 DEF Faulty, Fault
      <3> QED
        BY <1>4, <1>5, <1>6, <2>2, <3>2, <3>3 DEF Faulty, CostsOne
    <2>3. CASE Late
      <3>1. PICK m \in wire : wire' = wire \ {m}
        BY <2>3 DEF Late
      <3>2. IsFiniteSet(wire') /\ Cardinality(wire') = Cardinality(wire) - 1
        BY <1>4, <3>1, FS_RemoveElement
      <3>3. faults' = faults
        BY <2>3 DEF Late
      <3>4. ASSUME NEW t \in Task PROVE Spent(t)' + Cardinality(wire') <= 1 + 2 * faults'
        <4> DEFINE x == Spent(t)
                   y == Spent(t)'
                   c == Cardinality(wire)
        <4>1. /\ x \in Nat /\ y \in Nat /\ c \in Nat /\ faults \in Nat
              /\ x + c <= 1 + 2 * faults /\ y <= x + 1
          BY <1>4, <1>5, <1>6, <2>3 DEF Late, CostsOne
        <4>2. Cardinality(wire') = c - 1
          BY <3>2
        <4> HIDE DEF x, y, c
        <4>3. y + (c - 1) <= 1 + 2 * faults
          BY <4>1
        <4> QED
          BY <3>3, <4>2, <4>3 DEF y
      <3> QED
        BY <3>2, <3>4
    <2> QED
      BY <1>2, <2>1, <2>2, <2>3
  <1>8. ASSUME NEW t \in Task PROVE Budget(t)'
    <2>1. Cardinality(wire') \in Nat
      BY <1>7, FS_CardinalityType
    <2>2. IsFiniteSet(Drawn') /\ granted'[t] \subseteq Drawn'
      BY DEF AgentsInv, GrantInv, Drawn
    <2>3. IsFiniteSet(granted'[t])
      BY <2>2, FS_Subset
    <2>4. Cardinality(granted'[t]) \in Nat
      BY <2>3, FS_CardinalityType
    <2>5. status'[t] \in Statuses
      BY DEF AgentsInv, TypeInv, CoordType
    <2>6. Claims(t)' \in 0..2
      BY <2>5 DEF Claims, Statuses
    <2> QED
      BY <1>7, <2>1, <2>4, <2>6 DEF Budget, Spent
  <1> QED
    BY <1>3, <1>7, <1>8 DEF BudgetInv

LEMMA BudgetInit == Init => BudgetInv
  <1> SUFFICES ASSUME Init PROVE BudgetInv
    OBVIOUS
  <1>1. IsFiniteSet({}) /\ Cardinality({}) = 0
    BY FS_EmptySet
  <1>2. IsFiniteSet(wire) /\ Cardinality(wire) = 0 /\ faults = 0
    BY <1>1 DEF Init
  <1>3. HoldersPresent
    BY DEF Init, HoldersPresent
  <1>4. Dead = {}
    BY DEF Init, Dead, Absent
  <1>5. ASSUME NEW t \in Task PROVE Budget(t)
    <2>1. Cardinality(granted[t]) = 0
      BY <1>1 DEF Init
    <2>2. Claims(t) = 1
      BY <1>4 DEF Init, Claims
    <2> QED
      BY <1>2, <2>1, <2>2 DEF Budget
  <1> QED
    BY <1>2, <1>3, <1>5 DEF BudgetInv

(* For every set of agents and tasks, and whatever requests are lost or    *)
(* handled late: a task is granted no more attempts than its first one and *)
(* two for each fault, less one for each request that is still on the wire *)
(* (begin_execution, reap_expired_executions_at, execute_and_commit).      *)
THEOREM AttemptsBounded == Spec => []AttemptsBoundedByFaults
  <1>1. BudgetInv /\ AgentsInv /\ AgentsInv' /\ [Next]_vars => BudgetInv'
    <2> SUFFICES ASSUME BudgetInv, AgentsInv, AgentsInv', [Next]_vars PROVE BudgetInv'
      OBVIOUS
    <2>1. CASE ProtocolStep
      BY <2>1, BudgetNext
    <2>2. CASE OnlyLinks
      <3>1. UNCHANGED <<member, status, lease, winner, holders, granted, agent, wire, faults>>
        BY <2>2 DEF OnlyLinks
      <3>2. Dead' = Dead /\ DeadActive' = DeadActive
        BY <3>1 DEF DeadActive, Dead, Alive
      <3>3. \A t \in Task : OnTrack(t)' <=> OnTrack(t)
        BY <3>1 DEF OnTrack, OnTrackAt, Active, Alive
      <3>4. ASSUME NEW t \in Task PROVE Claims(t)' = Claims(t)
        BY <3>1, <3>2, <3>3 DEF Claims
      <3>5. \A t \in Task : Budget(t)'
        BY <3>1, <3>4 DEF BudgetInv, Budget
      <3> QED
        BY <3>1, <3>5 DEF BudgetInv, HoldersPresent
    <2> QED
      BY <2>1, <2>2, NextCases
  <1>2. BudgetInv /\ AgentsInv => AttemptsBoundedByFaults
    <2> SUFFICES ASSUME BudgetInv, AgentsInv, NEW t \in Task
                 PROVE  Cardinality(granted[t]) + Cardinality(wire) <= 1 + 2 * faults
      BY DEF AttemptsBoundedByFaults
    <2>1. Cardinality(granted[t]) \in Nat /\ Claims(t) \in 0..2 /\ Budget(t)
      BY GrantedNumber, ClaimsFacts DEF AgentsInv, TypeInv, BudgetInv
    <2>2. Cardinality(wire) \in Nat /\ faults \in Nat
      BY FS_CardinalityType DEF BudgetInv, AgentsInv, TypeInv, WireType
    <2> QED
      BY <2>1, <2>2 DEF Budget
  <1> QED
    BY <1>1, <1>2, BudgetInit, InvHolds, PTL DEF Spec

=============================================================================
