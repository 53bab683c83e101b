---------------------------- MODULE FabricProofs ----------------------------
(* Proofs about Fabric, for every set of resources, tasks and objects,     *)
(* every TTL, every bound, and a clock that may be set back unless the     *)
(* statement says otherwise.                                               *)
EXTENDS Fabric, TLAPS

(* Renewing a lease only moves its expiry (renew_execution).               *)
LEMMA RenewedLease ==
  ASSUME NEW x \in Lease, NEW n \in Nat
  PROVE  /\ [x EXCEPT !.expires = n] \in Lease
         /\ [x EXCEPT !.expires = n].exec = x.exec
         /\ [x EXCEPT !.expires = n].resource = x.resource
         /\ [x EXCEPT !.expires = n].expires = n
BY DEF Lease

(* Type correctness: no interleaving of handlers, maintenance passes and   *)
(* clock steps leaves a table ill-formed or a task half Running.           *)
THEOREM TypeCorrect == Spec => []TypeOK
<1>1. Init => TypeOK
  BY FabricAssumption, NoLeaseAssumption DEF Init, TypeOK, Absent, TaskState
<1>2. TypeOK /\ [Next]_vars => TypeOK'
  <2> SUFFICES ASSUME TypeOK, [Next]_vars
               PROVE  TypeOK'
    OBVIOUS
  <2> USE FabricAssumption, NoLeaseAssumption
      DEF TypeOK, resourceVars, taskVars, objectVars
  <2>1. CASE ClockStep
    BY <2>1 DEF ClockStep
  <2>2. ASSUME NEW r \in Resource, RegisterResource(r)
        PROVE  TypeOK'
    BY <2>2 DEF RegisterResource
  <2>3. ASSUME NEW r \in Resource, Heartbeat(r)
        PROVE  TypeOK'
    BY <2>3 DEF Heartbeat
  <2>4. CASE MaintenanceSample
    BY <2>4 DEF MaintenanceSample
  <2>5. CASE MaintenanceTick
    <3>1. /\ resources' \in [Resource -> [epoch : Nat, expires : Nat]]
          /\ endpoints' \subseteq Resource
          /\ locations' \in [Object -> SUBSET Resource]
      BY <2>5 DEF MaintenanceTick, ExpireResources, Absent
    <3>2. /\ status' \in [Task -> TaskState]
          /\ lease' \in [Task -> Lease \cup {NoLease}]
          /\ \A t \in Task : status'[t] = "Running" <=> lease'[t] \in Lease
      BY <2>5 DEF MaintenanceTick, ReapExecutions, Lapsed, TaskState
    <3> QED
      BY <2>5, <3>1, <3>2 DEF MaintenanceTick
  <2>6. ASSUME NEW o \in Object, NEW i \in Ident, NEW L \in SUBSET Resource,
               PublishObject(o, i, L)
        PROVE  TypeOK'
    BY <2>6 DEF PublishObject
  <2>7. ASSUME NEW o \in Object, NEW r \in Resource, RegisterReplica(o, r)
        PROVE  TypeOK'
    BY <2>7 DEF RegisterReplica
  <2>8. ASSUME NEW t \in Task, SubmitTask(t)
        PROVE  TypeOK'
    BY <2>8 DEF SubmitTask, TaskState
  <2>9. ASSUME NEW r \in Resource, NEW t \in Task, PollWork(r, t)
        PROVE  TypeOK'
    <3>1. /\ status' \in [Task -> TaskState]
          /\ lease' \in [Task -> Lease \cup {NoLease}]
          /\ \A u \in Task : status'[u] = "Running" <=> lease'[u] \in Lease
      BY <2>9 DEF PollWork, NewExecutionId, NewLease, TaskState, Lease
    <3>2. issued' \subseteq IssuedLease
      BY <2>9 DEF PollWork, NewExecutionId, NewLease, IssuedLease
    <3> QED
      BY <2>9, <3>1, <3>2 DEF PollWork, NewExecutionId, NewLease
  <2>10. ASSUME NEW l \in issued, RenewExecution(l)
         PROVE  TypeOK'
    <3>1. l.task \in Task /\ lease[l.task] \in Lease
      BY <2>10 DEF RenewExecution, AttemptCurrent, IssuedLease
    <3>2. now + ExecutionTTL \in Nat
      OBVIOUS
    <3>3. [lease[l.task] EXCEPT !.expires = now + ExecutionTTL] \in Lease
      BY <3>1, <3>2, RenewedLease
    <3> QED
      BY <2>10, <3>1, <3>3 DEF RenewExecution
  <2>11. ASSUME NEW l \in issued, NEW o \in Object, NEW i \in Ident,
                CompleteExecution(l, o, i)
         PROVE  TypeOK'
    <3>1. l.task \in Task /\ l.exec \in Nat /\ l.resource \in Resource
      BY DEF IssuedLease
    <3> QED
      BY <2>11, <3>1 DEF CompleteExecution, TaskState
  <2>12. CASE UNCHANGED vars
    BY <2>12 DEF vars
  <2> QED
    BY <2>1, <2>2, <2>3, <2>4, <2>5, <2>6, <2>7, <2>8, <2>9, <2>10, <2>11,
       <2>12 DEF Next
<1> QED
  BY <1>1, <1>2, PTL DEF Spec

-----------------------------------------------------------------------------
(* Attempts.                                                               *)

(* The book-keeping of attempts, and the two promises that follow from it, *)
(* in one inductive invariant.                                             *)
AttemptSafety ==
    /\ AttemptInvariant
    /\ ExclusiveAttemptedOnce
    /\ LatestAttemptWins

(* No lease has been handed out when the coordinator starts.               *)
LEMMA AttemptSafetyInit == Init => AttemptSafety
BY FabricAssumption
   DEF Init, AttemptSafety, AttemptInvariant, ExclusiveAttemptedOnce,
       LatestAttemptWins

(* A step that leaves the tables of tasks alone: the clock, membership and *)
(* objects cannot disturb an attempt.                                      *)
LEMMA AttemptSafetyFrame ==
  ASSUME AttemptSafety, UNCHANGED taskVars
  PROVE  AttemptSafety'
BY DEF AttemptSafety, AttemptInvariant, ExclusiveAttemptedOnce,
       LatestAttemptWins, taskVars

(* Every handler and every maintenance pass keeps the attempts in order:   *)
(* poll_work, reaping, renew and complete are the ones that touch them.    *)
LEMMA AttemptSafetyStep ==
  TypeOK /\ AttemptSafety /\ [Next]_vars => AttemptSafety'
<1> SUFFICES ASSUME TypeOK, AttemptSafety, [Next]_vars
             PROVE  AttemptSafety'
  OBVIOUS
<1> USE FabricAssumption, NoLeaseAssumption
<1>1. CASE MaintenanceTick
  <2>1. /\ UNCHANGED <<issued, nextExec, winner>>
        /\ \A t \in Task : status'[t] = "Running" =>
               status[t] = "Running" /\ lease'[t] = lease[t]
        /\ \A t \in Task : status'[t] = "Completed" <=> status[t] = "Completed"
        /\ \A t \in Exclusive : status'[t] \in {"Unsubmitted", "Pending"} =>
               status'[t] = status[t]
    BY <1>1 DEF MaintenanceTick, ReapExecutions, Lapsed, TypeOK
  <2>2. AttemptInvariant'
    BY <2>1 DEF AttemptSafety, AttemptInvariant, TypeOK
  <2> QED
    BY <2>1, <2>2
       DEF AttemptSafety, ExclusiveAttemptedOnce, LatestAttemptWins
<1>2. ASSUME NEW t \in Task, SubmitTask(t)
      PROVE  AttemptSafety'
  <2> USE <1>2 DEF SubmitTask, TypeOK
  <2>1. AttemptInvariant'
    BY DEF AttemptSafety, AttemptInvariant
  <2> QED
    BY <2>1 DEF AttemptSafety, ExclusiveAttemptedOnce, LatestAttemptWins
<1>3. ASSUME NEW r \in Resource, NEW t \in Task, PollWork(r, t)
      PROVE  AttemptSafety'
  <2> DEFINE new == [task |-> t, exec |-> nextExec, resource |-> r,
                     epoch |-> resources[r].epoch,
                     incarnation |-> incarnation[r]]
  <2>1. /\ issued' = issued \cup {new}
        /\ new.task = t /\ new.exec = nextExec
        /\ nextExec' = nextExec + 1 /\ nextExec <= MaxExecution
        /\ nextExec \in Nat
        /\ UNCHANGED winner
    BY <1>3 DEF PollWork, NewExecutionId, NewLease, resourceVars, TypeOK
  <2>2. /\ status[t] = "Pending"
        /\ status' = [status EXCEPT ![t] = "Running"]
        /\ status'[t] = "Running" /\ lease'[t].exec = nextExec
        /\ \A u \in Task : u # t =>
               status'[u] = status[u] /\ lease'[u] = lease[u]
    BY <1>3 DEF PollWork, NewExecutionId, NewLease, TypeOK
  <2>3. \A l \in issued : l.exec \in Nat /\ l.exec < nextExec
    BY DEF AttemptSafety, AttemptInvariant, TypeOK, IssuedLease
  <2> HIDE DEF new
  <2>4. /\ nextExec' <= MaxExecution + 1
        /\ \A l \in issued' : l.exec < nextExec'
        /\ \A l, m \in issued' : l.exec = m.exec => l = m
    BY <2>1, <2>3 DEF AttemptSafety, AttemptInvariant
  <2>5. ASSUME NEW u \in Task, status'[u] = "Running"
        PROVE  /\ \E l \in issued' : l.task = u /\ l.exec = lease'[u].exec
               /\ \A l \in issued' : l.task = u => l.exec <= lease'[u].exec
    <3>1. CASE u = t
      BY <2>1, <2>2, <2>3, <3>1
    <3>2. CASE u # t
      BY <2>1, <2>2, <2>5, <3>2 DEF AttemptSafety, AttemptInvariant
    <3> QED
      BY <3>1, <3>2
  <2>6. \A u \in Task : status'[u] # "Completed" => winner'[u] = 0
    BY <2>1, <2>2 DEF AttemptSafety, AttemptInvariant
  <2>7. ASSUME NEW u \in Exclusive, status'[u] \in {"Unsubmitted", "Pending"},
               NEW l \in issued'
        PROVE  l.task # u
    BY <2>1, <2>2, <2>7 DEF AttemptSafety, AttemptInvariant
  <2>8. AttemptInvariant'
    BY <2>4, <2>5, <2>6, <2>7 DEF AttemptInvariant
  <2>9. ASSUME NEW l \in issued', NEW m \in issued',
               l.task = m.task, l.task \in Exclusive
        PROVE  l = m
    <3>1. CASE l.task = t
      <4>1. \A k \in issued : k.task # t
        BY <2>2, <2>9, <3>1 DEF AttemptSafety, AttemptInvariant
      <4> QED
        BY <2>1, <2>9, <3>1, <4>1
    <3>2. CASE l.task # t
      BY <2>1, <2>9, <3>2 DEF AttemptSafety, ExclusiveAttemptedOnce
    <3> QED
      BY <3>1, <3>2
  <2>10. LatestAttemptWins'
    BY <2>1, <2>2 DEF AttemptSafety, LatestAttemptWins
  <2> QED
    BY <2>8, <2>9, <2>10 DEF AttemptSafety, ExclusiveAttemptedOnce
<1>4. ASSUME NEW l \in issued, RenewExecution(l)
      PROVE  AttemptSafety'
  <2>1. l.task \in Task /\ lease[l.task] \in Lease /\ now + ExecutionTTL \in Nat
    BY <1>4 DEF RenewExecution, AttemptCurrent, TypeOK, IssuedLease
  <2>2. [lease[l.task] EXCEPT !.expires = now + ExecutionTTL].exec
            = lease[l.task].exec
    BY <2>1, RenewedLease
  <2>3. /\ UNCHANGED <<status, winner, issued, nextExec>>
        /\ \A t \in Task : lease'[t].exec = lease[t].exec
    BY <1>4, <2>1, <2>2 DEF RenewExecution, TypeOK
  <2>4. AttemptInvariant'
    BY <2>3 DEF AttemptSafety, AttemptInvariant
  <2> QED
    BY <2>3, <2>4
       DEF AttemptSafety, ExclusiveAttemptedOnce, LatestAttemptWins
<1>5. ASSUME NEW l \in issued, NEW o \in Object, NEW i \in Ident,
             CompleteExecution(l, o, i)
      PROVE  AttemptSafety'
  <2>1. /\ l.task \in Task
        /\ status[l.task] = "Running" /\ lease[l.task].exec = l.exec
        /\ UNCHANGED <<issued, nextExec>>
        /\ status'[l.task] = "Completed" /\ winner'[l.task] = l.exec
        /\ \A t \in Task : t # l.task =>
               status'[t] = status[t] /\ lease'[t] = lease[t]
               /\ winner'[t] = winner[t]
    BY <1>5 DEF CompleteExecution, AttemptCurrent, TypeOK, IssuedLease
  <2>2. AttemptInvariant'
    BY <2>1 DEF AttemptSafety, AttemptInvariant
  <2>3. LatestAttemptWins'
    BY <2>1 DEF AttemptSafety, AttemptInvariant, LatestAttemptWins
  <2> QED
    BY <2>1, <2>2, <2>3 DEF AttemptSafety, ExclusiveAttemptedOnce
<1>6. CASE UNCHANGED taskVars
  BY <1>6, AttemptSafetyFrame
<1> QED
  BY <1>1, <1>2, <1>3, <1>4, <1>5, <1>6
     DEF Next, ClockStep, RegisterResource, Heartbeat, MaintenanceSample,
         PublishObject, RegisterReplica, vars, taskVars

(* The inductive invariant of the attempts: ExecutionIds are used once and *)
(* a Running record names the newest attempt.                              *)
THEOREM AttemptsSound == Spec => []AttemptSafety
BY AttemptSafetyInit, AttemptSafetyStep, TypeCorrect, PTL DEF Spec

(* The book-keeping that poll_work, renew, complete and reaping maintain   *)
(* between the task records and the leases agents hold.                    *)
THEOREM AttemptInvariantHolds == Spec => []AttemptInvariant
BY AttemptsSound, PTL DEF AttemptSafety

(* Exclusive work is handed out at most once, with any clock.              *)
THEOREM ExclusiveOnce == Spec => []ExclusiveAttemptedOnce
BY AttemptsSound, PTL DEF AttemptSafety

(* The committed result is the newest attempt's, with any clock.           *)
THEOREM LatestWins == Spec => []LatestAttemptWins
BY AttemptsSound, PTL DEF AttemptSafety

(* One step cannot give a lost task back to an attempt.                    *)
LEMMA FencedStep ==
  TypeOK /\ AttemptInvariant /\ [Next]_vars =>
    [\A l \in issued : Fenced(l) => Fenced(l)']_vars
<1> SUFFICES ASSUME TypeOK, AttemptInvariant, Next,
                    NEW l \in issued, Fenced(l)
             PROVE  Fenced(l)'
  BY DEF vars
<1> USE FabricAssumption, NoLeaseAssumption DEF Fenced
<1>0. l.task \in Task /\ l.exec \in Nat /\ l.exec < nextExec
  BY DEF TypeOK, IssuedLease, AttemptInvariant
<1>1. CASE MaintenanceTick
  BY <1>0, <1>1 DEF MaintenanceTick, ReapExecutions, Lapsed, TypeOK
<1>2. ASSUME NEW t \in Task, SubmitTask(t)
      PROVE  Fenced(l)'
  BY <1>0, <1>2 DEF SubmitTask, TypeOK
<1>3. ASSUME NEW r \in Resource, NEW t \in Task, PollWork(r, t)
      PROVE  Fenced(l)'
  <2>1. CASE t = l.task
    <3>1. lease'[l.task].exec = nextExec /\ nextExec \in Nat
      BY <1>3, <2>1, <1>0 DEF PollWork, NewExecutionId, NewLease, TypeOK
    <3> QED
      BY <1>0, <3>1
  <2>2. CASE t # l.task
    BY <1>0, <1>3, <2>2 DEF PollWork, NewExecutionId, NewLease, TypeOK
  <2> QED
    BY <2>1, <2>2
<1>4. ASSUME NEW k \in issued, RenewExecution(k)
      PROVE  Fenced(l)'
  <2>1. k.task \in Task /\ lease[k.task] \in Lease /\ now + ExecutionTTL \in Nat
    BY <1>4 DEF RenewExecution, AttemptCurrent, TypeOK, IssuedLease
  <2>2. [lease[k.task] EXCEPT !.expires = now + ExecutionTTL].exec
            = lease[k.task].exec
    BY <2>1, RenewedLease
  <2> QED
    BY <1>0, <1>4, <2>1, <2>2 DEF RenewExecution, TypeOK
<1>5. ASSUME NEW k \in issued, NEW o \in Object, NEW i \in Ident,
             CompleteExecution(k, o, i)
      PROVE  Fenced(l)'
  <2>1. k.task \in Task
    BY DEF TypeOK, IssuedLease
  <2> QED
    BY <1>0, <1>5, <2>1 DEF CompleteExecution, TypeOK
<1>6. CASE UNCHANGED taskVars
  BY <1>6 DEF taskVars
<1> QED
  BY <1>1, <1>2, <1>3, <1>4, <1>5, <1>6
     DEF Next, ClockStep, RegisterResource, Heartbeat, MaintenanceSample,
         PublishObject, RegisterReplica, taskVars

(* A fenced attempt stays fenced, with any clock and any sequence of       *)
(* expiries, registrations and late requests.                              *)
THEOREM Fencing == Spec => FencedForever
BY FencedStep, TypeCorrect, AttemptInvariantHolds, PTL DEF Spec, FencedForever

-----------------------------------------------------------------------------
(* Capacity.                                                               *)

(* A step cannot give a resource a second live lease: poll_work offers no  *)
(* work to a busy one, and only a live lease is renewed.                   *)
LEMMA OneLiveStep ==
  ASSUME ~ClockStepsBack
  PROVE  TypeOK /\ OneLiveLeasePerResource /\ [Next]_vars
            => OneLiveLeasePerResource'
<1> SUFFICES ASSUME TypeOK, OneLiveLeasePerResource, [Next]_vars
             PROVE  OneLiveLeasePerResource'
  OBVIOUS
<1> USE FabricAssumption, NoLeaseAssumption
(* Most steps create no live lease and leave the live ones where they are. *)
<1>1. ASSUME \A t \in Task : Live(t)' =>
                Live(t) /\ lease'[t].resource = lease[t].resource
      PROVE  OneLiveLeasePerResource'
  BY <1>1 DEF OneLiveLeasePerResource
<1>2. CASE ClockStep
  <2>1. now' \in Nat /\ now' > now
    BY <1>2 DEF ClockStep, TypeOK
  <2>2. ASSUME NEW t \in Task, Live(t)'
        PROVE  Live(t)
    <3>1. status[t] = "Running" /\ lease[t].expires > now'
      BY <1>2, <2>2 DEF ClockStep, taskVars, Live
    <3>2. lease[t].expires \in Nat /\ now \in Nat
      BY <3>1 DEF TypeOK, Lease
    <3> QED
      BY <2>1, <3>1, <3>2 DEF Live
  <2> QED
    BY <1>1, <1>2, <2>2 DEF ClockStep, taskVars
<1>3. CASE MaintenanceTick
  <2>1. \A t \in Task : Live(t)' => Live(t) /\ lease'[t] = lease[t]
    BY <1>3 DEF MaintenanceTick, ReapExecutions, Lapsed, Live, TypeOK
  <2> QED
    BY <1>1, <2>1
<1>4. ASSUME NEW t \in Task, SubmitTask(t)
      PROVE  OneLiveLeasePerResource'
  BY <1>1, <1>4 DEF SubmitTask, Live, TypeOK
<1>5. ASSUME NEW r \in Resource, NEW t \in Task, PollWork(r, t)
      PROVE  OneLiveLeasePerResource'
  <2>1. /\ lease'[t].resource = r
        /\ \A u \in Task : u # t => (Live(u)' <=> Live(u)) /\ lease'[u] = lease[u]
    BY <1>5 DEF PollWork, NewExecutionId, NewLease, Live, TypeOK
  <2>2. \A u \in Task : Live(u) => lease[u].resource # r
    BY <1>5 DEF PollWork, NewExecutionId, NewLease, Schedulable
  <2> QED
    BY <2>1, <2>2 DEF OneLiveLeasePerResource
<1>6. ASSUME NEW l \in issued, RenewExecution(l)
      PROVE  OneLiveLeasePerResource'
  <2>1. l.task \in Task /\ lease[l.task] \in Lease /\ now + ExecutionTTL \in Nat
    BY <1>6 DEF RenewExecution, AttemptCurrent, TypeOK, IssuedLease
  <2>2. [lease[l.task] EXCEPT !.expires = now + ExecutionTTL].resource
            = lease[l.task].resource
    BY <2>1, RenewedLease
  <2>3. Live(l.task)
    BY <1>6 DEF RenewExecution, AttemptCurrent, Live
  <2>4. \A t \in Task : Live(t)' => Live(t) /\ lease'[t].resource = lease[t].resource
    BY <1>6, <2>1, <2>2, <2>3 DEF RenewExecution, Live, TypeOK
  <2> QED
    BY <1>1, <2>4
<1>7. ASSUME NEW l \in issued, NEW o \in Object, NEW i \in Ident,
             CompleteExecution(l, o, i)
      PROVE  OneLiveLeasePerResource'
  <2>1. l.task \in Task
    BY DEF TypeOK, IssuedLease
  <2>2. \A t \in Task : Live(t)' => Live(t) /\ lease'[t] = lease[t]
    BY <1>7, <2>1 DEF CompleteExecution, Live, TypeOK
  <2> QED
    BY <1>1, <2>2
<1>8. CASE UNCHANGED <<now, taskVars>>
  BY <1>1, <1>8 DEF taskVars, Live
<1> QED
  BY <1>2, <1>3, <1>4, <1>5, <1>6, <1>7, <1>8
     DEF Next, RegisterResource, Heartbeat, MaintenanceSample,
         PublishObject, RegisterReplica, vars, taskVars

(* If the clock is never set back, no resource ever holds two live leases. *)
THEOREM OneLiveLease ==
  ASSUME ~ClockStepsBack
  PROVE  Spec => []OneLiveLeasePerResource
<1>1. Init => OneLiveLeasePerResource
  BY DEF Init, OneLiveLeasePerResource, Live
<1> QED
  BY <1>1, OneLiveStep, TypeCorrect, PTL DEF Spec

-----------------------------------------------------------------------------
(* Membership and objects.                                                 *)

(* data_endpoints and the resource table name the same resources.          *)
THEOREM EndpointsInStep == Spec => []EndpointsMatchMembership
<1> USE DEF EndpointsMatchMembership, Registered
<1>1. Init => EndpointsMatchMembership
  BY DEF Init, Absent
<1>2. TypeOK /\ EndpointsMatchMembership /\ [Next]_vars
        => EndpointsMatchMembership'
  <2> SUFFICES ASSUME TypeOK, EndpointsMatchMembership, [Next]_vars
               PROVE  EndpointsMatchMembership'
    OBVIOUS
  <2>1. ASSUME NEW r \in Resource, RegisterResource(r)
        PROVE  EndpointsMatchMembership'
    BY <2>1 DEF RegisterResource, TypeOK
  <2>2. ASSUME NEW r \in Resource, Heartbeat(r)
        PROVE  EndpointsMatchMembership'
    BY <2>2 DEF Heartbeat, TypeOK
  <2>3. CASE MaintenanceTick
    BY <2>3 DEF MaintenanceTick, ExpireResources, TypeOK, Absent
  <2>4. CASE UNCHANGED resourceVars
    BY <2>4 DEF resourceVars
  <2> QED
    BY <2>1, <2>2, <2>3, <2>4
       DEF Next, ClockStep, MaintenanceSample, PublishObject, RegisterReplica,
           SubmitTask, PollWork, RenewExecution, CompleteExecution, vars,
           resourceVars
<1> QED
  BY <1>1, <1>2, TypeCorrect, PTL DEF Spec

(* Neither a late publication nor a late completion rewrites an object or  *)
(* a committed result.                                                     *)
THEOREM Immutability == Spec => ObjectsImmutable
<1> DEFINE Kept ==
      /\ \A o \in Object : ident[o] # NoIdent => ident'[o] = ident[o]
      /\ \A t \in Task : status[t] = "Completed" =>
            status'[t] = "Completed" /\ output'[t] = output[t]
<1>1. TypeOK /\ [Next]_vars => [Kept]_vars
  <2> SUFFICES ASSUME TypeOK, Next
               PROVE  Kept
    OBVIOUS
  <2>1. CASE MaintenanceTick
    BY <2>1 DEF MaintenanceTick, ReapExecutions, Lapsed
  <2>2. ASSUME NEW o \in Object, NEW i \in Ident, NEW L \in SUBSET Resource,
               PublishObject(o, i, L)
        PROVE  Kept
    BY <2>2 DEF PublishObject, SameIdentity, taskVars, TypeOK
  <2>3. ASSUME NEW t \in Task, SubmitTask(t)
        PROVE  Kept
    BY <2>3 DEF SubmitTask, objectVars, TypeOK
  <2>4. ASSUME NEW r \in Resource, NEW t \in Task, PollWork(r, t)
        PROVE  Kept
    BY <2>4 DEF PollWork, NewExecutionId, NewLease, objectVars, TypeOK
  <2>5. ASSUME NEW l \in issued, NEW o \in Object, NEW i \in Ident,
               CompleteExecution(l, o, i)
        PROVE  Kept
    BY <2>5 DEF CompleteExecution, SameIdentity, AttemptCurrent, TypeOK
  <2>6. CASE UNCHANGED <<status, output, ident>>
    BY <2>6
  <2> QED
    BY <2>1, <2>2, <2>3, <2>4, <2>5, <2>6
       DEF Next, ClockStep, RegisterResource, Heartbeat, MaintenanceSample,
           RegisterReplica, RenewExecution, taskVars, objectVars
<1> QED
  BY <1>1, TypeCorrect, PTL DEF Spec, ObjectsImmutable

(* What makes OutputAsReported inductive: what was reported is an          *)
(* identity, so that the object it names is known and stays as it is.      *)
OutputKnown(t) ==
    output[t] \in Object /\ reported[t] \in Ident /\ ident[output[t]] = reported[t]
OutputsKnown == \A t \in Task : status[t] = "Completed" => OutputKnown(t)

(* What a Completed task names is what its winning attempt reported, with  *)
(* any clock and whatever others publish under the same id, before or      *)
(* after (complete_execution, publish_object).                             *)
THEOREM OutputsReported == Spec => []OutputAsReported
<1> USE FabricAssumption
<1>1. Init => OutputsKnown
  BY DEF Init, OutputsKnown
<1>2. TypeOK /\ OutputsKnown /\ [Next]_vars => OutputsKnown'
  <2> SUFFICES ASSUME TypeOK, OutputsKnown, [Next]_vars
               PROVE  OutputsKnown'
    OBVIOUS
  (* Nothing is completed and no known object is rewritten.                *)
  <2>1. ASSUME UNCHANGED <<output, reported>>,
               \A t \in Task : status'[t] = "Completed" => status[t] = "Completed",
               \A o \in Object : ident[o] # NoIdent => ident'[o] = ident[o]
        PROVE  OutputsKnown'
    BY <2>1 DEF OutputsKnown, OutputKnown
  <2>2. CASE MaintenanceTick
    BY <2>1, <2>2 DEF MaintenanceTick, ReapExecutions, Lapsed
  <2>3. ASSUME NEW o \in Object, NEW i \in Ident, NEW L \in SUBSET Resource,
               PublishObject(o, i, L)
        PROVE  OutputsKnown'
    BY <2>1, <2>3 DEF PublishObject, SameIdentity, taskVars, TypeOK
  <2>4. ASSUME NEW t \in Task, SubmitTask(t)
        PROVE  OutputsKnown'
    BY <2>1, <2>4 DEF SubmitTask, objectVars, TypeOK
  <2>5. ASSUME NEW r \in Resource, NEW t \in Task, PollWork(r, t)
        PROVE  OutputsKnown'
    BY <2>1, <2>5 DEF PollWork, objectVars, TypeOK
  <2>6. ASSUME NEW l \in issued, NEW o \in Object, NEW i \in Ident,
               CompleteExecution(l, o, i)
        PROVE  OutputsKnown'
    <3>1. l.task \in Task
      BY DEF TypeOK, IssuedLease
    <3>2. /\ \A x \in Object : ident[x] # NoIdent => ident'[x] = ident[x]
          /\ ident'[o] = i
      BY <2>6 DEF CompleteExecution, SameIdentity, TypeOK
    <3>3. \/ /\ \A t \in Task : t # l.task => /\ status'[t] = status[t]
                                             /\ output'[t] = output[t]
                                             /\ reported'[t] = reported[t]
             /\ output'[l.task] = o /\ reported'[l.task] = i
          \/ UNCHANGED <<status, output, reported>>
      BY <2>6, <3>1 DEF CompleteExecution, TypeOK
    <3>4. ASSUME NEW t \in Task, status'[t] = "Completed"
          PROVE  OutputKnown(t)'
      <4>1. CASE output'[t] = o /\ reported'[t] = i
        BY <3>2, <4>1 DEF OutputKnown
      <4>2. CASE status[t] = "Completed" /\ output'[t] = output[t]
                 /\ reported'[t] = reported[t]
        BY <3>2, <4>2 DEF OutputsKnown, OutputKnown
      <4> QED
        BY <3>1, <3>3, <3>4, <4>1, <4>2
    <3> QED
      BY <3>4 DEF OutputsKnown
  <2>7. CASE UNCHANGED <<status, output, reported, ident>>
    BY <2>1, <2>7
  <2> QED
    BY <2>2, <2>3, <2>4, <2>5, <2>6, <2>7
       DEF Next, ClockStep, RegisterResource, Heartbeat, MaintenanceSample,
           RegisterReplica, RenewExecution, taskVars, objectVars, vars
<1>3. OutputsKnown => OutputAsReported
  BY DEF OutputsKnown, OutputKnown, OutputAsReported
<1> QED
  BY <1>1, <1>2, <1>3, TypeCorrect, PTL DEF Spec

-----------------------------------------------------------------------------
(* Refinement.                                                             *)

(* The initial states of the Fabric map to the ledger's.                   *)
LEMMA LedgerInit == Init => Ledger!Init
BY DEF Init, Ledger!Init, Attempts, Holder

(* Every step maps to a step of the ledger or to none.                     *)
LEMMA LedgerStep ==
  TypeOK /\ AttemptInvariant /\ [Next]_vars => [Ledger!Next]_(Ledger!vars)
<1> SUFFICES ASSUME TypeOK, AttemptInvariant, [Next]_vars
             PROVE  [Ledger!Next]_(Ledger!vars)
  OBVIOUS
<1> USE FabricAssumption, NoLeaseAssumption
<1>1. CASE MaintenanceTick
  <2> DEFINE lapsed == {t \in Task : status[t] = "Running"
                                     /\ lease[t].expires <= sampled}
  <2>1. /\ status' = [t \in Task |->
                        IF t \notin lapsed THEN status[t]
                        ELSE IF t \in Exclusive THEN "Uncertain" ELSE "Pending"]
        /\ lease' = [t \in Task |-> IF t \in lapsed THEN NoLease ELSE lease[t]]
        /\ UNCHANGED <<issued, winner, output>>
    BY <1>1 DEF MaintenanceTick, ReapExecutions, Lapsed
  <2>2. \A t \in lapsed : status[t] = "Running" /\ winner[t] = 0
    BY DEF AttemptInvariant
  <2>3. Holder' = [t \in Task |-> IF t \in lapsed THEN 0 ELSE Holder[t]]
    BY <2>1, <2>2 DEF Holder
  <2>4. Attempts' = Attempts
    BY <2>1 DEF Attempts
  <2>5. Ledger!Abandon(lapsed)
    BY <2>1, <2>2, <2>3, <2>4 DEF Ledger!Abandon
  <2> QED
    BY <2>5 DEF Ledger!Next
<1>2. ASSUME NEW t \in Task, SubmitTask(t)
      PROVE  Ledger!Next
  <2>1. Holder' = Holder /\ Attempts' = Attempts
    BY <1>2 DEF SubmitTask, Holder, Attempts, TypeOK
  <2>2. Ledger!Submit(t)
    BY <1>2, <2>1 DEF SubmitTask, Ledger!Submit
  <2> QED
    BY <2>2 DEF Ledger!Next
<1>3. ASSUME NEW r \in Resource, NEW t \in Task, PollWork(r, t)
      PROVE  Ledger!Next
  <2> DEFINE new == [task |-> t, exec |-> nextExec, resource |-> r,
                     epoch |-> resources[r].epoch,
                     incarnation |-> incarnation[r]]
  <2>1. /\ issued' = issued \cup {new}
        /\ new.task = t /\ new.exec = nextExec
        /\ UNCHANGED <<winner, output>>
        /\ nextExec \in 1..MaxExecution
    BY <1>3 DEF PollWork, NewExecutionId, NewLease, TypeOK
  <2> HIDE DEF new
  <2>2. Attempts' = [Attempts EXCEPT ![t] = @ \cup {nextExec}]
    <3>1. ASSUME NEW u \in Task
          PROVE  Attempts'[u] = IF u = t THEN Attempts[u] \cup {nextExec}
                                ELSE Attempts[u]
      BY <2>1 DEF Attempts
    <3> QED
      BY <3>1 DEF Attempts
  <2>3. Holder' = [Holder EXCEPT ![t] = nextExec]
    BY <1>3, <2>1 DEF PollWork, NewExecutionId, NewLease, Holder, TypeOK
  <2>4. \A u \in Task : nextExec \notin Attempts[u]
    <3>1. \A l \in issued : l.exec # nextExec
      BY DEF TypeOK, IssuedLease, AttemptInvariant
    <3> QED
      BY <3>1 DEF Attempts
  <2>5. Ledger!Begin(t, nextExec)
    BY <1>3, <2>1, <2>2, <2>3, <2>4 DEF PollWork, NewExecutionId, NewLease, Ledger!Begin
  <2> QED
    BY <2>1, <2>5 DEF Ledger!Next
<1>4. ASSUME NEW l \in issued, RenewExecution(l)
      PROVE  UNCHANGED Ledger!vars
  <2>1. l.task \in Task /\ lease[l.task] \in Lease /\ now + ExecutionTTL \in Nat
    BY <1>4 DEF RenewExecution, AttemptCurrent, TypeOK, IssuedLease
  <2>2. [lease[l.task] EXCEPT !.expires = now + ExecutionTTL].exec
            = lease[l.task].exec
    BY <2>1, RenewedLease
  <2>3. \A t \in Task : lease'[t].exec = lease[t].exec
    BY <1>4, <2>1, <2>2 DEF RenewExecution, TypeOK
  <2> QED
    BY <1>4, <2>3 DEF RenewExecution, Ledger!vars, Holder, Attempts
<1>5. ASSUME NEW l \in issued, NEW o \in Object, NEW i \in Ident,
             CompleteExecution(l, o, i)
      PROVE  Ledger!Next
  <2>1. /\ l.task \in Task /\ l.exec \in 1..MaxExecution
        /\ status[l.task] = "Running" /\ lease[l.task].exec = l.exec
    BY <1>5 DEF CompleteExecution, AttemptCurrent, TypeOK, IssuedLease,
                AttemptInvariant
  <2>2. Holder' = Holder /\ Holder[l.task] = l.exec
    BY <1>5, <2>1 DEF CompleteExecution, Holder, TypeOK
  <2>3. Attempts' = Attempts
    BY <1>5 DEF CompleteExecution, Attempts
  <2>4. Ledger!Commit(l.task, l.exec, o)
    BY <1>5, <2>1, <2>2, <2>3 DEF CompleteExecution, Ledger!Commit
  <2> QED
    BY <2>1, <2>4 DEF Ledger!Next
<1>6. CASE UNCHANGED taskVars
  BY <1>6 DEF taskVars, Ledger!vars, Holder, Attempts
<1> QED
  BY <1>1, <1>2, <1>3, <1>4, <1>5, <1>6
     DEF Next, ClockStep, RegisterResource, Heartbeat, MaintenanceSample,
         PublishObject, RegisterReplica, vars, taskVars

(* The control plane implements the ledger: with any clock, any membership *)
(* churn and any loss or delay of requests, a submitter sees attempts that *)
(* are granted, abandoned or committed, and nothing else.                  *)
THEOREM FabricImplementsLedger == Spec => ImplementsLedger
BY LedgerInit, LedgerStep, TypeCorrect, AttemptInvariantHolds, PTL
   DEF Spec, ImplementsLedger, Ledger!Spec

=============================================================================
