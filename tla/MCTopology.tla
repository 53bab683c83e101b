----------------------------- MODULE MCTopology -----------------------------
(* Instances of Topology for TLC.                                          *)
EXTENDS Topology

(* Two resources that leave and come back, with a link set by hand; or     *)
(* three that join once, so that one pass has two peers.                   *)
PairOrTriple ==
    {[registrations |-> [r \in Resource |-> IF r = 3 THEN 0 ELSE 2],
      overrides |-> 1],
     [registrations |-> [r \in Resource |-> 1], overrides |-> 0]}
=============================================================================
