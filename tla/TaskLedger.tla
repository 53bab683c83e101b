----------------------------- MODULE TaskLedger -----------------------------
(***************************************************************************)
(* What the control plane promises the submitter of a task, with no clock, *)
(* no membership and no network: a task is attempted, an attempt is either *)
(* abandoned or it commits, and only the attempt that holds the task can   *)
(* commit.  Abandoning an Exclusive task leaves it Uncertain for good;     *)
(* every other task goes back to Pending and may be attempted again.       *)
(*                                                                         *)
(* Fabric.tla implements this specification.                               *)
(***************************************************************************)
CONSTANTS
    Task,       \* task identities
    Exclusive,  \* the tasks whose effects are EffectSemantics::Exclusive
    Attempt,    \* identities of attempts (ExecutionId)
    NoAttempt,  \* "nobody holds or has committed this task"
    Object,     \* identities of output objects
    NoObject    \* "no output yet"

VARIABLES
    status,     \* the status of each task, TaskStatus without its payloads
    attempts,   \* the attempts of each task that were ever granted
    holder,     \* the attempt that holds the task, or the one that committed it
    result      \* the output of each committed task

vars == <<status, attempts, holder, result>>

Init ==
    /\ status = [t \in Task |-> "Unsubmitted"]
    /\ attempts = [t \in Task |-> {}]
    /\ holder = [t \in Task |-> NoAttempt]
    /\ result = [t \in Task |-> NoObject]

Submit(t) ==
    /\ status[t] = "Unsubmitted"
    /\ status' = [status EXCEPT ![t] = "Pending"]
    /\ UNCHANGED <<attempts, holder, result>>

(* An attempt is granted: its identity has never been used by any task.    *)
Begin(t, e) ==
    /\ status[t] = "Pending"
    /\ \A u \in Task : e \notin attempts[u]
    /\ status' = [status EXCEPT ![t] = "Running"]
    /\ attempts' = [attempts EXCEPT ![t] = @ \cup {e}]
    /\ holder' = [holder EXCEPT ![t] = e]
    /\ UNCHANGED result

(* The attempts that hold the tasks S are given up, all at once.           *)
Abandon(S) ==
    /\ \A t \in S : status[t] = "Running"
    /\ status' = [t \in Task |->
                    IF t \notin S THEN status[t]
                    ELSE IF t \in Exclusive THEN "Uncertain" ELSE "Pending"]
    /\ holder' = [t \in Task |-> IF t \in S THEN NoAttempt ELSE holder[t]]
    /\ UNCHANGED <<attempts, result>>

(* The holder e of task t commits the output o.                            *)
Commit(t, e, o) ==
    /\ status[t] = "Running"
    /\ holder[t] = e
    /\ status' = [status EXCEPT ![t] = "Completed"]
    /\ result' = [result EXCEPT ![t] = o]
    /\ UNCHANGED <<attempts, holder>>

Next ==
    \/ \E t \in Task : Submit(t)
    \/ \E t \in Task, e \in Attempt : Begin(t, e)
    \/ \E S \in SUBSET Task : Abandon(S)
    \/ \E t \in Task, e \in Attempt, o \in Object : Commit(t, e, o)

Spec == Init /\ [][Next]_vars

=============================================================================
