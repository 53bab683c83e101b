--------------------------- MODULE TopologyProofs ---------------------------
(* What holds of the link graph for any number of resources and reports.   *)
EXTENDS Topology, TLAPS

(* An unordered pair determines its ends, in some order.                   *)
LEMMA PairEnds ==
  ASSUME NEW p \in Pair
  PROVE  \E a, b \in Resource : a # b /\ p = {a, b}
BY DEF Pair

(* Two different ends make an unordered pair.                              *)
LEMMA EndsPair ==
  ASSUME NEW a \in Resource, NEW b \in Resource, a # b
  PROVE  {a, b} \in Pair
BY DEF Pair

(* The states of a discovery pass.                                         *)
PassType == [phase : {"idle", "listing", "probing", "reporting"},
             epoch : Nat, todo : SUBSET Resource, sent : Resource \cup {0}]

(* Going on to the next peer keeps the pass in one of its phases.          *)
LEMMA NextPeerType ==
  ASSUME NEW p \in PassType
  PROVE  NextPeer(p) \in PassType /\ IdlePass \in PassType
BY DEF PassType, NextPeer, IdlePass

(* Handling a report leaves well-formed links: an unreachable peer is not  *)
(* stored as a link.                                                       *)
LEMMA AppliedLinksType ==
  ASSUME TypeOK, NEW m \in reports
  PROVE  AppliedLinks(m) \subseteq Link
<1>1. m \in Report
  BY DEF TypeOK
<1>2. m.quality = Unreachable \/ m.quality \in Quality
  BY <1>1 DEF Report, Measurement, Quality
<1>3. Without(links, m.reporter, m.peer) \subseteq Link
  BY DEF Without, TypeOK
<1>4. ASSUME m.quality \in Quality
      PROVE  Upsert(m.reporter, m.peer, m.quality) \subseteq Link
  BY <1>1, <1>3, <1>4 DEF Upsert, Link, Report
<1> QED
  BY <1>2, <1>3, <1>4 DEF AppliedLinks, TypeOK

(* Type correctness of the coordinator's tables, the passes and messages.  *)
THEOREM TypeCorrect == Spec => []TypeOK
<1>1. Init => TypeOK
  BY TopologyAssumption DEF Init, TypeOK, IdlePass
<1>2. TypeOK /\ [Next]_vars => TypeOK'
  <2> SUFFICES ASSUME TypeOK, [Next]_vars
               PROVE  TypeOK'
    OBVIOUS
  <2>1. ASSUME NEW r \in Resource, Register(r)
        PROVE  TypeOK'
    BY <2>1 DEF Register, linkVars, TypeOK
  <2>2. ASSUME NEW r \in Resource, Lapse(r) \/ Heartbeat(r)
        PROVE  TypeOK'
    BY <2>2 DEF Lapse, Heartbeat, linkVars, TypeOK
  <2>3. ASSUME NEW S \in SUBSET Resource, Expire(S)
        PROVE  TypeOK'
    BY <2>3 DEF Expire, LinksWithout, TypeOK
  <2>4. ASSUME NEW a \in Resource, NEW b \in Resource, NEW q \in Configured,
               UpdateLink(a, b, q)
        PROVE  TypeOK'
    <3>1. links' \subseteq Link
      BY <2>4 DEF UpdateLink, Upsert, Without, Link, TypeOK, Quality
    <3>2. override' \in [Pair -> Quality \cup {NoLink}]
      BY <2>4, EndsPair DEF UpdateLink, TypeOK, Quality
    <3> QED
      BY <2>4, <3>1, <3>2 DEF UpdateLink, memberVars, TypeOK
  <2>5. ASSUME NEW r \in Resource, ProbeTick(r) \/ ListPeers(r) \/ AbandonPass(r)
        PROVE  TypeOK'
    <3>1. pass[r] \in PassType
      BY DEF TypeOK, PassType
    <3>2. pass' \in [Resource -> PassType]
      <4>1. CASE ProbeTick(r)
        BY <4>1 DEF ProbeTick, IdlePass, TypeOK, PassType
      <4>2. CASE ListPeers(r)
        <5> DEFINE peers == {p \in Resource : member[p] = "active" /\ r < p}
                   ready == [pass[r] EXCEPT !.todo = peers]
        <5>1. ready \in PassType
          BY <3>1 DEF PassType
        <5>2. NextPeer(ready) \in PassType
          BY <5>1, NextPeerType
        <5> QED
          BY <4>2, <5>2 DEF ListPeers, TypeOK, PassType
      <4>3. CASE AbandonPass(r)
        BY <4>3, <3>1, NextPeerType DEF AbandonPass, TypeOK, PassType
      <4> QED
        BY <2>5, <4>1, <4>2, <4>3
    <3> QED
      BY <2>5, <3>2 DEF ProbeTick, ListPeers, AbandonPass, memberVars,
                        linkVars, TypeOK, PassType
  <2>6. ASSUME NEW r \in Resource, NEW p \in Resource, NEW q \in Measurement,
               MeasurePeer(r, p, q)
        PROVE  TypeOK'
    <3>1. reports' \subseteq Report
      BY <2>6 DEF MeasurePeer, Report, TypeOK
    <3>2. pass[r] \in PassType
      BY DEF TypeOK, PassType
    <3>3. pass' \in [Resource -> PassType]
      BY <2>6, <3>2 DEF MeasurePeer, TypeOK, PassType
    <3> QED
      BY <2>6, <3>1, <3>3 DEF MeasurePeer, memberVars, linkVars, TypeOK, PassType
  <2>7. ASSUME NEW m \in reports, DeliverReport(m)
        PROVE  TypeOK'
    <3>1. links' \subseteq Link
      BY <2>7, AppliedLinksType DEF DeliverReport
    <3>2. m.reporter \in Resource /\ pass[m.reporter] \in PassType
      BY DEF TypeOK, Report, PassType
    <3>3. pass' \in [Resource -> PassType]
      BY <2>7, <3>2, NextPeerType DEF DeliverReport, TypeOK, PassType
    <3> QED
      BY <2>7, <3>1, <3>3 DEF DeliverReport, memberVars, TypeOK, PassType
  <2>8. ASSUME NEW m \in reports, LoseReport(m)
        PROVE  TypeOK'
    BY <2>8 DEF LoseReport, memberVars, linkVars, TypeOK
  <2>9. CASE UNCHANGED vars
    BY <2>9 DEF vars, TypeOK
  <2> QED
    BY <2>1, <2>2, <2>3, <2>4, <2>5, <2>6, <2>7, <2>8, <2>9
       DEF Next, Measure, Deliver
<1> QED
  BY <1>1, <1>2, PTL DEF Spec

-----------------------------------------------------------------------------
(* The link graph.                                                         *)

(* Replacing the link of one pair leaves at most one link per pair.        *)
LEMMA UpsertUnique ==
  ASSUME OneLinkPerPair, NEW a, NEW b, NEW q
  PROVE  \A k, l \in Upsert(a, b, q) : Ends(k) = Ends(l) => k = l
BY DEF OneLinkPerPair, Upsert, Without, Ends

(* No handler adds a second link for a pair of resources.                  *)
THEOREM UniqueLinks == Spec => []OneLinkPerPair
<1>1. Init => OneLinkPerPair
  BY DEF Init, OneLinkPerPair
<1>2. OneLinkPerPair /\ [Next]_vars => OneLinkPerPair'
  <2> SUFFICES ASSUME OneLinkPerPair, [Next]_vars
               PROVE  OneLinkPerPair'
    OBVIOUS
  <2>1. ASSUME links' \subseteq links
        PROVE  OneLinkPerPair'
    BY <2>1 DEF OneLinkPerPair, Ends
  <2>2. ASSUME NEW a, NEW b, NEW q, links' = Upsert(a, b, q)
        PROVE  OneLinkPerPair'
    BY <2>2, UpsertUnique DEF OneLinkPerPair
  <2>3. ASSUME NEW m \in reports, DeliverReport(m)
        PROVE  OneLinkPerPair'
    <3>1. \/ links' \subseteq links
          \/ links' = Upsert(m.reporter, m.peer, m.quality)
      BY <2>3 DEF DeliverReport, AppliedLinks, Without
    <3> QED
      BY <3>1, <2>1, <2>2
  <2>4. ASSUME NEW a \in Resource, NEW b \in Resource, NEW q \in Configured,
               UpdateLink(a, b, q)
        PROVE  OneLinkPerPair'
    BY <2>4, <2>2 DEF UpdateLink
  <2>5. ASSUME NEW S \in SUBSET Resource, Expire(S)
        PROVE  OneLinkPerPair'
    BY <2>5, <2>1 DEF Expire, LinksWithout
  <2>6. CASE UNCHANGED links
    BY <2>6, <2>1
  <2> QED
    BY <2>3, <2>4, <2>5, <2>6
       DEF Next, vars, Register, Lapse, Heartbeat, ProbeTick, ListPeers,
           Measure, MeasurePeer, Deliver, LoseReport, AbandonPass,
           linkVars
<1> QED
  BY <1>1, <1>2, PTL DEF Spec

(* Why ManualLinkStands is inductive: what an operator set is remembered   *)
(* in manual_links for as long as both ends are there.                     *)
OverridesRemembered ==
    \A a, b \in Resource : a # b /\ override[{a, b}] # NoLink => Overridden(a, b)

(* The inductive invariant of overrides: the operator's link is in the     *)
(* graph and manual_links remembers it, in one direction or the other.     *)
ManualSafety == ManualLinkStands /\ OverridesRemembered

(* A report about an overridden pair, from either end, changes nothing;    *)
(* expiry drops link and memory together.                                  *)
LEMMA ManualStep == TypeOK /\ ManualSafety /\ [Next]_vars => ManualSafety'
<1> SUFFICES ASSUME TypeOK, ManualSafety, [Next]_vars
             PROVE  ManualSafety'
  OBVIOUS
<1>1. ASSUME NEW m \in reports, DeliverReport(m)
      PROVE  ManualSafety'
  <2>1. UNCHANGED <<manual, override>>
    BY <1>1 DEF DeliverReport
  <2>2. OverridesRemembered'
    BY <2>1 DEF ManualSafety, OverridesRemembered, Overridden
  <2>3. m.reporter \in Resource /\ m.peer \in Resource
    BY DEF TypeOK, Report
  <2>4. ASSUME NEW p \in Pair, override[p] # NoLink
        PROVE  \E l \in links' : Ends(l) = p /\ l.quality = override[p]
    <3>1. PICK l \in links : Ends(l) = p /\ l.quality = override[p]
      BY <2>4 DEF ManualSafety, ManualLinkStands
    <3>2. PICK a \in Resource, b \in Resource : a # b /\ p = {a, b}
      BY PairEnds
    <3>3. Overridden(a, b)
      BY <2>4, <3>2 DEF ManualSafety, OverridesRemembered
    <3>4. CASE p = {m.reporter, m.peer}
      <4>1. Overridden(m.reporter, m.peer)
        BY <3>2, <3>3, <3>4 DEF Overridden
      <4> QED
        BY <1>1, <3>1, <4>1 DEF DeliverReport, AppliedLinks
    <3>5. CASE p # {m.reporter, m.peer}
      <4>1. l \in Without(links, m.reporter, m.peer)
        BY <3>1, <3>5 DEF Without
      <4>2. l \in links'
        BY <1>1, <3>1, <4>1 DEF DeliverReport, AppliedLinks, Upsert
      <4> QED
        BY <3>1, <4>2
    <3> QED
      BY <3>4, <3>5
  <2> QED
    BY <2>1, <2>2, <2>4 DEF ManualSafety, ManualLinkStands, Ends
<1>2. ASSUME NEW a \in Resource, NEW b \in Resource, NEW q \in Configured,
             UpdateLink(a, b, q)
      PROVE  ManualSafety'
  <2>1. {a, b} \in Pair
    BY <1>2, EndsPair DEF UpdateLink
  <2>2. override' = [override EXCEPT ![{a, b}] = q]
    BY <1>2 DEF UpdateLink
  <2>3. OverridesRemembered'
    <3> SUFFICES ASSUME NEW x \in Resource, NEW y \in Resource, x # y,
                        override'[{x, y}] # NoLink
                 PROVE  Overridden(x, y)'
      BY DEF OverridesRemembered
    <3>1. manual' = manual \cup {<<a, b>>}
      BY <1>2 DEF UpdateLink
    <3>2. CASE {x, y} = {a, b}
      BY <3>1, <3>2 DEF Overridden
    <3>3. CASE {x, y} # {a, b}
      <4>1. override[{x, y}] # NoLink
        BY <2>2, <3>3, EndsPair DEF TypeOK
      <4> QED
        BY <3>1, <4>1 DEF ManualSafety, OverridesRemembered, Overridden
    <3> QED
      BY <3>2, <3>3
  <2>4. ASSUME NEW p \in Pair, override'[p] # NoLink
        PROVE  \E l \in links' : Ends(l) = p /\ l.quality = override'[p]
    <3>1. CASE p = {a, b}
      <4> DEFINE new == [from |-> a, to |-> b, quality |-> q]
      <4>1. new \in links' /\ Ends(new) = p /\ new.quality = q
        BY <1>2, <3>1 DEF UpdateLink, Upsert, Ends
      <4>2. override'[p] = q
        BY <2>1, <2>2, <3>1 DEF TypeOK
      <4> QED
        BY <4>1, <4>2
    <3>2. CASE p # {a, b}
      <4>1. override'[p] = override[p]
        BY <2>2, <3>2 DEF TypeOK
      <4>2. PICK l \in links : Ends(l) = p /\ l.quality = override[p]
        BY <2>4, <4>1 DEF ManualSafety, ManualLinkStands
      <4>3. l \in links'
        BY <1>2, <3>2, <4>2 DEF UpdateLink, Upsert, Without
      <4> QED
        BY <4>1, <4>2, <4>3
    <3> QED
      BY <3>1, <3>2
  <2> QED
    BY <2>3, <2>4 DEF ManualSafety, ManualLinkStands, Ends
<1>3. ASSUME NEW S \in SUBSET Resource, Expire(S)
      PROVE  ManualSafety'
  <2>1. ASSUME NEW p \in Pair, override'[p] # NoLink
        PROVE  p \cap S = {} /\ override'[p] = override[p]
    BY <1>3, <2>1 DEF Expire
  <2>2. OverridesRemembered'
    <3> SUFFICES ASSUME NEW x \in Resource, NEW y \in Resource, x # y,
                        override'[{x, y}] # NoLink
                 PROVE  Overridden(x, y)'
      BY DEF OverridesRemembered
    <3>1. x \notin S /\ y \notin S /\ override[{x, y}] # NoLink
      BY <2>1, EndsPair
    <3>2. Overridden(x, y)
      BY <3>1 DEF ManualSafety, OverridesRemembered
    <3> QED
      BY <1>3, <3>1, <3>2 DEF Expire, Overridden
  <2>3. ASSUME NEW p \in Pair, override'[p] # NoLink
        PROVE  \E l \in links' : Ends(l) = p /\ l.quality = override'[p]
    BY <1>3, <2>1, <2>3
       DEF Expire, LinksWithout, ManualSafety, ManualLinkStands
  <2> QED
    BY <2>2, <2>3 DEF ManualSafety, ManualLinkStands, Ends
<1>4. CASE UNCHANGED <<links, manual, override>>
  BY <1>4 DEF ManualSafety, ManualLinkStands, OverridesRemembered,
              Overridden, Ends
<1> QED
  BY <1>1, <1>2, <1>3, <1>4
     DEF Next, vars, Register, Lapse, Heartbeat, ProbeTick, ListPeers,
         Measure, MeasurePeer, Deliver, LoseReport, AbandonPass,
         linkVars

(* An operator's link stands until one of its ends expires, whatever is    *)
(* measured and however late it is reported.                               *)
THEOREM ManualAuthority == Spec => []ManualLinkStands
<1>1. Init => ManualSafety
  BY EndsPair DEF Init, ManualSafety, ManualLinkStands, OverridesRemembered
<1> QED
  BY <1>1, ManualStep, TypeCorrect, PTL DEF Spec, ManualSafety

(* A late report cannot connect a resource that has left.                  *)
THEOREM AutomaticLinks == Spec => []AutomaticLinksAmongMembers
<1>1. Init => AutomaticLinksAmongMembers
  BY DEF Init, AutomaticLinksAmongMembers
<1>2. TypeOK /\ AutomaticLinksAmongMembers /\ [Next]_vars
        => AutomaticLinksAmongMembers'
  <2> SUFFICES ASSUME TypeOK, AutomaticLinksAmongMembers, [Next]_vars
               PROVE  AutomaticLinksAmongMembers'
    OBVIOUS
  <2>1. ASSUME NEW m \in reports, DeliverReport(m)
        PROVE  AutomaticLinksAmongMembers'
    BY <2>1 DEF DeliverReport, AppliedLinks, Accepted, Upsert, Without,
                memberVars, AutomaticLinksAmongMembers, Overridden
  <2>2. ASSUME NEW a \in Resource, NEW b \in Resource, NEW q \in Configured,
               UpdateLink(a, b, q)
        PROVE  AutomaticLinksAmongMembers'
    BY <2>2 DEF UpdateLink, Upsert, Without, memberVars,
                AutomaticLinksAmongMembers, Overridden
  <2>3. ASSUME NEW S \in SUBSET Resource, Expire(S)
        PROVE  AutomaticLinksAmongMembers'
    <3> SUFFICES ASSUME NEW l \in links', ~Overridden(l.from, l.to)'
                 PROVE  member'[l.from] # "absent" /\ member'[l.to] # "absent"
      BY DEF AutomaticLinksAmongMembers
    <3>1. l \in links /\ l.from \notin S /\ l.to \notin S
      BY <2>3 DEF Expire, LinksWithout, Ends
    <3>2. ~Overridden(l.from, l.to)
      BY <2>3, <3>1 DEF Expire, Overridden
    <3>3. l.from \in Resource /\ l.to \in Resource
      BY <3>1 DEF TypeOK, Link
    <3> QED
      BY <2>3, <3>1, <3>2, <3>3 DEF Expire, AutomaticLinksAmongMembers
  <2>4. ASSUME NEW r \in Resource, Register(r) \/ Lapse(r) \/ Heartbeat(r)
        PROVE  AutomaticLinksAmongMembers'
    <3>1. UNCHANGED <<links, manual>>
      BY <2>4 DEF Register, Lapse, Heartbeat, linkVars
    <3>2. \A x \in Resource : member[x] # "absent" => member'[x] # "absent"
      BY <2>4 DEF Register, Lapse, Heartbeat, TypeOK
    <3>3. \A l \in links : l.from \in Resource /\ l.to \in Resource
      BY DEF TypeOK, Link
    <3> QED
      BY <3>1, <3>2, <3>3 DEF Overridden, AutomaticLinksAmongMembers
  <2>5. CASE UNCHANGED <<links, manual, member>>
    BY <2>5 DEF AutomaticLinksAmongMembers, Overridden
  <2> QED
    BY <2>1, <2>2, <2>3, <2>4, <2>5
       DEF Next, vars, ProbeTick, ListPeers, Measure, MeasurePeer, Deliver,
           LoseReport, AbandonPass, linkVars, memberVars
<1> QED
  BY <1>1, <1>2, TypeCorrect, PTL DEF Spec
=============================================================================
