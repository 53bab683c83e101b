------------------------------- MODULE MCJobs -------------------------------
(* Instances of Jobs for TLC.                                              *)
EXTENDS Jobs

CONSTANTS j1, j2, j3

(* A logical job: a chain of three fusable roles; the third one feeds a    *)
(* fusable role and a sharded one whose outputs are reduced up to three at *)
(* a time, and both of these feed the output role.                         *)
(*     1 -> 2 -> 3 -> 4 -> 6                                               *)
(*               3 -> 5 -> 6                                               *)
FusionJobOf == [n \in Role |-> j1]
FusionDependsOn == (1 :> <<>>) @@ (2 :> <<1>>) @@ (3 :> <<2>>)
                   @@ (4 :> <<3>>) @@ (5 :> <<3>>) @@ (6 :> <<5, 4>>)
FusionShards == [n \in Role |-> IF n = 5 THEN {1, 2, 5} ELSE {1}]
FusionFanIn == [n \in Role |-> IF n = 5 THEN 3 ELSE 0]

(* A cooperative job whose first role is Exclusive, beside a logical job   *)
(* with an Exclusive sharded role and one behind it, and a job that must   *)
(* not be accepted: behind its first role two wait for each other.         *)
MixedJobOf == [n \in Role |-> IF n <= 2 THEN j1 ELSE IF n <= 4 THEN j2 ELSE j3]
MixedDependsOn == (1 :> <<>>) @@ (2 :> <<1>>) @@ (3 :> <<>>) @@ (4 :> <<3>>)
                  @@ (5 :> <<>>) @@ (6 :> <<5, 7>>) @@ (7 :> <<6>>)
MixedShards == [n \in Role |-> IF n = 3 THEN {1, 3} ELSE {1}]
MixedFanIn == [n \in Role |-> IF n = 3 THEN 2 ELSE 0]
=============================================================================
