------------------------------ MODULE MCAgents ------------------------------
(* Instances of Agents for TLC.                                            *)
EXTENDS Agents, TLC

CONSTANTS a1, a2, t1, t2, t3

(* Agent a1 is the cheaper one for every task.                             *)
CheaperFirst == [t \in Task |-> (a1 :> 1) @@ (a2 :> 2)]
AllSupported == Resource \X Task
InOrder == [t \in Task |-> IF t = t1 THEN 1 ELSE IF t = t2 THEN 2 ELSE 3]

(* t2 reads the output of t1; t3 reads nothing.                            *)
ChainInput == [t \in Task |-> IF t = t2 THEN t1 ELSE NoTask]

(* Enough for each task to be attempted once and twice more for each fault *)
(* (AttemptsBoundedByFaults).                                              *)
Executions == 1..(Cardinality(Task) * (1 + 2 * MaxFaults))
=============================================================================
