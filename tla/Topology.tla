------------------------------ MODULE Topology ------------------------------
(***************************************************************************)
(* The link graph: agents probe their peers and report what they measured, *)
(* operators set links by hand, and expiry withdraws the links of a        *)
(* departed resource.                                                      *)
(*                                                                         *)
(* An agent's discovery pass is a task of its own beside heartbeats and    *)
(* polls; it works with the copy of the membership lease it was started    *)
(* with.  A report may be lost, or arrive after its sender gave up waiting *)
(* and has sent others.  Deadlines are abstracted to the three conditions  *)
(* a membership can be in: "active", "lapsed" (past its deadline, not yet  *)
(* expired by the maintenance loop) and "absent".                          *)
(***************************************************************************)
EXTENDS Naturals, FiniteSets

CONSTANTS
    Resource,          \* resource ids; < is the order of their printed form
    Measured,          \* RTT and bandwidth of a link as probes find them
    Configured,        \* the same as operators set them
    Unreachable,       \* LinkMeasurement::Unreachable
    NoLink,            \* no override
    Budgets,           \* bounds on a behaviour: the registrations of each
                       \* resource and the links set by hand
    MaxReports         \* bound: reports of one agent in flight

ASSUME TopologyAssumption ==
    /\ Resource \subseteq Nat
    /\ {Unreachable, NoLink} \cap (Measured \cup Configured) = {}
    /\ Budgets \subseteq [registrations : [Resource -> Nat], overrides : Nat]
    /\ MaxReports \in Nat

VARIABLES
    member,       \* the condition of each membership
    epoch,        \* the epoch of each registration, 0 if there is none
    held,         \* the epoch of the membership lease each agent holds
    links,        \* TopologySnapshot::links
    manual,       \* manual_links: ordered pairs
    pass,         \* the discovery pass of each agent
    reports       \* reports in flight

(* Auxiliary variables, read by no handler.                                *)
VARIABLES
    override,     \* what an operator last set for a pair of present endpoints
    budget        \* registrations and links set by hand that are left

vars == <<member, epoch, held, links, manual, pass, reports, override, budget>>

memberVars == <<member, epoch, held>>
linkVars == <<links, manual, override>>

-----------------------------------------------------------------------------

Pair == {{a, b} : a, b \in Resource} \ {{a} : a \in Resource}

(* What validate_link accepts.                                             *)
Quality == Measured \cup Configured

Link == [from : Resource, to : Resource, quality : Quality]

Ends(l) == {l.from, l.to}

(* A mutant: a link is only replaced by one in the same direction.         *)
MutantWithoutDirected(ls, a, b) == {l \in ls : ~(l.from = a /\ l.to = b)}

(* Fabric::remove_link: links have no direction.                           *)
Without(ls, a, b) == {l \in ls : Ends(l) # {a, b}}

(* Fabric::upsert_link.                                                    *)
Upsert(a, b, q) ==
    Without(links, a, b) \cup {[from |-> a, to |-> b, quality |-> q]}

(* A mutant: the override is only found in the reporter's direction.       *)
MutantOverriddenOneWay(a, b) == <<a, b>> \in manual

Overridden(a, b) == <<a, b>> \in manual \/ <<b, a>> \in manual

IdlePass == [phase |-> "idle", epoch |-> 0, todo |-> {}, sent |-> 0]

Init ==
    /\ member = [r \in Resource |-> "absent"]
    /\ epoch = [r \in Resource |-> 0]
    /\ held = [r \in Resource |-> 0]
    /\ links = {}
    /\ manual = {}
    /\ pass = [r \in Resource |-> IdlePass]
    /\ reports = {}
    /\ override = [p \in Pair |-> NoLink]
    /\ budget \in Budgets

-----------------------------------------------------------------------------
(* Membership, as in module Fabric.                                        *)

Register(r) ==
    /\ budget.registrations[r] > 0
    /\ member' = [member EXCEPT ![r] = "active"]
    /\ epoch' = [epoch EXCEPT ![r] = @ + 1]
    /\ held' = [held EXCEPT ![r] = epoch[r] + 1]
    /\ budget' = [budget EXCEPT !.registrations[r] = @ - 1]
    /\ UNCHANGED <<linkVars, pass, reports>>

(* The deadline of r passes.                                               *)
Lapse(r) ==
    /\ member[r] = "active"
    /\ member' = [member EXCEPT ![r] = "lapsed"]
    /\ UNCHANGED <<epoch, held, linkVars, pass, reports, budget>>

Heartbeat(r) ==
    /\ member[r] # "absent"
    /\ held[r] = epoch[r]
    /\ member' = [member EXCEPT ![r] = "active"]
    /\ UNCHANGED <<epoch, held, linkVars, pass, reports, budget>>

(* A mutant: only the links that start at a departed resource are dropped. *)
MutantKeepsIncoming(S) == {l \in links : l.from \notin S}

(* remove_resource, for the departed resources S.                          *)
LinksWithout(S) == {l \in links : Ends(l) \cap S = {}}

(* maintenance_tick expires the resources S it finds past their deadline   *)
(* (its clock reading may be too old to find all), with the links in the   *)
(* Fabric and the coordinator's overrides.                                 *)
Expire(S) ==
    /\ S # {} /\ \A r \in S : member[r] = "lapsed"
    /\ member' = [r \in Resource |-> IF r \in S THEN "absent" ELSE member[r]]
    /\ epoch' = [r \in Resource |-> IF r \in S THEN 0 ELSE epoch[r]]
    /\ links' = LinksWithout(S)
    /\ manual' = {p \in manual : p[1] \notin S /\ p[2] \notin S}
    /\ override' = [p \in Pair |-> IF p \cap S # {} THEN NoLink ELSE override[p]]
    /\ UNCHANGED <<held, pass, reports, budget>>

-----------------------------------------------------------------------------
(* The coordinator's topology handlers.                                    *)

(* update_link: the endpoints differ, but need not be registered.          *)
UpdateLink(a, b, q) ==
    /\ budget.overrides > 0
    /\ a # b
    /\ manual' = manual \cup {<<a, b>>}
    /\ links' = Upsert(a, b, q)
    /\ override' = [override EXCEPT ![{a, b}] = q]
    /\ budget' = [budget EXCEPT !.overrides = @ - 1]
    /\ UNCHANGED <<memberVars, pass, reports>>

(* report_link_measurement accepts reports of active reporters with the    *)
(* current epoch about active peers; the peer's epoch is not part of them. *)
Accepted(m) ==
    /\ member[m.reporter] = "active"
    /\ epoch[m.reporter] = m.epoch
    /\ member[m.peer] = "active"

(* A mutant: a failed probe is stored like any other measurement.          *)
MutantFailureStored(m) ==
    IF ~Accepted(m) \/ Overridden(m.reporter, m.peer) THEN links
    ELSE Upsert(m.reporter, m.peer, m.quality)

(* The links after report m was handled.                                   *)
AppliedLinks(m) ==
    IF ~Accepted(m) \/ Overridden(m.reporter, m.peer) THEN links
    ELSE IF m.quality = Unreachable THEN Without(links, m.reporter, m.peer)
    ELSE Upsert(m.reporter, m.peer, m.quality)

-----------------------------------------------------------------------------
(* An agent's discovery pass (discover_topology), one at a time.           *)

(* A mutant: a report, whatever its answer, is the last of its pass.       *)
MutantOnePeerAPass(p) == IF p.todo = {} \/ p.sent # 0 THEN IdlePass
                         ELSE [p EXCEPT !.phase = "probing", !.sent = 0]

NextPeer(p) == IF p.todo = {} THEN IdlePass
               ELSE [p EXCEPT !.phase = "probing", !.sent = 0]

ProbeTick(r) ==
    /\ held[r] > 0
    /\ pass[r].phase = "idle"
    /\ pass' = [pass EXCEPT ![r] = [IdlePass EXCEPT !.phase = "listing",
                                                    !.epoch = held[r]]]
    /\ UNCHANGED <<memberVars, linkVars, reports, budget>>

(* GET /v1/resources: of each pair the resource with the smaller id probes. *)
ListPeers(r) ==
    /\ pass[r].phase = "listing"
    /\ LET peers == {p \in Resource : member[p] = "active" /\ r < p}
       IN  pass' = [pass EXCEPT ![r] = NextPeer([@ EXCEPT !.todo = peers])]
    /\ UNCHANGED <<memberVars, linkVars, reports, budget>>

(* measure_peer, then the report is sent.  Any probe may fail.             *)
MeasurePeer(r, p, q) ==
    /\ pass[r].phase = "probing" /\ p \in pass[r].todo
    /\ Cardinality({m \in reports : m.reporter = r}) < MaxReports
    /\ reports' = reports \cup {[reporter |-> r, epoch |-> pass[r].epoch,
                                 peer |-> p, quality |-> q]}
    /\ pass' = [pass EXCEPT ![r] = [@ EXCEPT !.phase = "reporting",
                                             !.sent = p,
                                             !.todo = pass[r].todo \ {p}]]
    /\ UNCHANGED <<memberVars, linkVars, budget>>

(* The coordinator handles a report and answers; if its sender still waits *)
(* it goes on to the next peer, or ends the pass when it was refused.      *)
DeliverReport(m) ==
    /\ m \in reports
    /\ reports' = reports \ {m}
    /\ links' = AppliedLinks(m)
    /\ LET p == pass[m.reporter]
           waiting == /\ p.phase = "reporting" /\ p.sent = m.peer
                      /\ p.epoch = m.epoch
       IN  pass' = [pass EXCEPT ![m.reporter] =
                        IF ~waiting THEN @
                        ELSE IF Accepted(m) THEN NextPeer(@) ELSE IdlePass]
    /\ UNCHANGED <<memberVars, manual, override, budget>>

(* The request does not arrive at all.                                     *)
LoseReport(m) ==
    /\ m \in reports
    /\ reports' = reports \ {m}
    /\ UNCHANGED <<memberVars, linkVars, pass, budget>>

(* The three seconds are over, or the list of resources or the answer to   *)
(* the report failed: the pass ends, the peers behind this one are left.   *)
AbandonPass(r) ==
    /\ pass[r].phase \in {"listing", "reporting"}
    /\ pass' = [pass EXCEPT ![r] = IdlePass]
    /\ UNCHANGED <<memberVars, linkVars, reports, budget>>

-----------------------------------------------------------------------------

Measurement == Measured \cup {Unreachable}

Measure(r) == \E p \in Resource, q \in Measurement : MeasurePeer(r, p, q)

Deliver(r, p) == \E m \in reports :
    m.reporter = r /\ m.peer = p /\ DeliverReport(m)

Next ==
    \/ \E r \in Resource : Register(r)
    \/ \E r \in Resource : Lapse(r)
    \/ \E r \in Resource : Heartbeat(r)
    \/ \E S \in SUBSET Resource : Expire(S)
    \/ \E a, b \in Resource, q \in Configured : UpdateLink(a, b, q)
    \/ \E r \in Resource : ProbeTick(r)
    \/ \E r \in Resource : ListPeers(r)
    \/ \E r \in Resource : Measure(r)
    \/ \E r, p \in Resource : Deliver(r, p)
    \/ \E m \in reports : LoseReport(m)
    \/ \E r \in Resource : AbandonPass(r)

Spec == Init /\ [][Next]_vars

(* The probe timer keeps ticking, passes go on, requests are answered or   *)
(* time out, and what is in flight is delivered unless it is lost.         *)
FairSpec ==
    /\ Spec
    /\ \A r \in Resource : /\ WF_vars(ProbeTick(r))
                           /\ WF_vars(ListPeers(r))
                           /\ WF_vars(Measure(r))
                           /\ WF_vars(AbandonPass(r))
    /\ \A r, p \in Resource : r < p => WF_vars(Deliver(r, p))

-----------------------------------------------------------------------------
(* Properties.                                                             *)

Report == [reporter : Resource, epoch : Nat, peer : Resource,
           quality : Measurement]

(* The types of the tables and messages.                                   *)
TypeOK ==
    /\ member \in [Resource -> {"active", "lapsed", "absent"}]
    /\ epoch \in [Resource -> Nat] /\ held \in [Resource -> Nat]
    /\ links \subseteq Link
    /\ manual \subseteq Resource \X Resource
    /\ pass \in [Resource -> [phase : {"idle", "listing", "probing", "reporting"},
                              epoch : Nat, todo : SUBSET Resource,
                              sent : Resource \cup {0}]]
    /\ reports \subseteq Report
    /\ override \in [Pair -> Quality \cup {NoLink}]
    /\ budget \in [registrations : [Resource -> Nat], overrides : Nat]

(* TopologySnapshot::link returns the first link of a pair in either       *)
(* direction; there is never a second one that says something else.        *)
OneLinkPerPair == \A k, l \in links : Ends(k) = Ends(l) => k = l

(* docs/protocol.md: a manual link is authoritative for its pair until one *)
(* endpoint expires; measurements neither overwrite nor withdraw it, from  *)
(* whichever end and however late they come.                               *)
ManualLinkStands ==
    \A p \in Pair : override[p] # NoLink =>
        \E l \in links : Ends(l) = p /\ l.quality = override[p]

(* An automatic link connects two resources that are registered: a report  *)
(* that arrives after its reporter or peer has left installs nothing, and  *)
(* whoever leaves takes its links along.                                   *)
AutomaticLinksAmongMembers ==
    \A l \in links : ~Overridden(l.from, l.to) =>
        member[l.from] # "absent" /\ member[l.to] # "absent"

(* r and p are members, and no membership is about to change.              *)
Settled(r, p) ==
    /\ member[r] = "active" /\ member[p] = "active"
    /\ \A x \in Resource : member[x] # "lapsed"

(* README: "if a probe becomes unreachable, that automatic link is         *)
(* removed".  If the probes of a pair fail from some time on, no automatic *)
(* link between its ends remains in the end, wherever the peer is in the   *)
(* lists of the passes and although late reports may reinstate the link.   *)
(* Memberships must settle and the probing agent's requests be answered in *)
(* the end: a report that is refused, lost or late ends its pass, and      *)
(* passes that always end before the peer would never measure it.          *)
UnreachableLinkWithdrawn ==
    \A r, p \in Resource :
        (/\ r < p
         /\ <>[]Settled(r, p)
         /\ <>[][~AbandonPass(r)]_vars
         /\ <>[][\A q \in Measured : ~MeasurePeer(r, p, q)]_vars)
        => <>[](\A l \in links : Ends(l) = {r, p} => override[{r, p}] # NoLink)

=============================================================================
