------------------------------ MODULE MCFabric ------------------------------
(* Instances of Fabric for TLC.                                            *)
EXTENDS Fabric, TLC

CONSTANTS r1, r2, t1, t2, o1, o2

NoInputs == [t \in Task |-> {}]

(* The second task consumes what the first one may publish.                *)
ChainInputs == [t \in Task |-> IF t = t2 THEN {o1} ELSE {}]

AnyPlacement == Resource \X Task

ResourceSymmetry == Permutations(Resource)
=============================================================================
