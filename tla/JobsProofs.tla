----------------------------- MODULE JobsProofs -----------------------------
(***************************************************************************)
(* The role engine for any jobs, shard counts and fan-ins: roles are       *)
(* launched once and on results, no wake-up is lost, lost work is not      *)
(* reported as done, what has settled stays, and shards reach consumers    *)
(* once each and in order.                                                 *)
(*                                                                         *)
(* Handlers work in stages: they record a commit, materialize the next     *)
(* level of a reduction, and materialize the roles that have become ready. *)
(* The invariant is therefore stated of any role states rs and tasks ts.   *)
(***************************************************************************)
EXTENDS Jobs, TLAPS, FiniteSetTheorems, SequenceTheorems

Early == {"Absent", "Waiting", "Ready"}

TaskId == Role \X Nat \X Nat

ItemType == [carry : BOOLEAN, id : TaskId]

RoleType == [status : RoleState, by : Nat, shards : Nat, completed : Nat,
             outputs : Seq(TaskId), level : Nat, inputs : Seq(TaskId),
             items : Seq(ItemType), launches : Nat]

TaskType(leaves) == [status : {"Open", "Completed", "Uncertain"},
                     binding : {"Role", "Shard", "Reduction"},
                     roles : Seq(Role), leaves : {leaves}]

Shape(rs, ts) ==
    /\ rs \in [Role -> RoleType]
    /\ DOMAIN ts \subseteq TaskId
    /\ \A t \in DOMAIN ts : ts[t] \in TaskType(ts[t].leaves)

(* The shards of n, and the items of its level, that have committed.       *)
DoneShards(rs, ts, n) == {k \in 1..rs[n].shards : ts[<<n, 0, k>>].status = "Completed"}

WorkItems(rs, n) == {i \in DOMAIN rs[n].items : ~rs[n].items[i].carry}

DoneItems(rs, ts, n) ==
    {i \in WorkItems(rs, n) : ts[rs[n].items[i].id].status = "Completed"}

(* Launches.                                                               *)
LaunchInv(rs, n) ==
    /\ rs[n].launches <= 1
    /\ rs[n].status \in Early =>
          rs[n].launches = 0 /\ rs[n].by = 0 /\ rs[n].shards = 0
    /\ rs[n].status \notin Early => rs[n].launches = 1
    /\ \A m \in Role : (JobOf[m] = JobOf[n] /\ rs[m].status = "Absent") =>
          rs[n].status = "Absent"

(* A role in a chain whose output nobody sees.                             *)
Swallowed(rs, n) ==
    /\ n \notin OutputRoles
    /\ \A m \in Role : n \in Range(DependsOn[m]) =>
          rs[m].launches = 1 /\ rs[m].by # 0 /\ rs[m].by # m

ResultInv(rs, n) ==
    /\ (rs[n].status = "Completed" /\ rs[n].outputs = <<>>) => Swallowed(rs, n)
    /\ (rs[n].launches > 0 /\ rs[n].by \in {0, n}) =>
          \A d \in Range(DependsOn[n]) :
              rs[d].status = "Completed" /\ rs[d].outputs # <<>>

(* What a role waits for.                                                  *)
WaitInv(rs, ts, n) ==
    /\ rs[n].status = "Submitted" =>
          LET t == <<rs[n].by, 0, 1>>
          IN  /\ t \in DOMAIN ts /\ ts[t].status = "Open"
              /\ ts[t].binding = "Role" /\ n \in Range(ts[t].roles)
    /\ \A k \in 1..rs[n].shards :
          <<n, 0, k>> \in DOMAIN ts /\ ts[<<n, 0, k>>].binding = "Shard"
    /\ rs[n].status = "Sharded" =>
          /\ rs[n].shards > 0
          /\ rs[n].completed = Cardinality(DoneShards(rs, ts, n))
          /\ DoneShards(rs, ts, n) # 1..rs[n].shards

(* The level of its reduction.                                             *)
LevelInv(rs, ts, n) ==
    /\ rs[n].status \notin {"Reducing", "Completed"} =>
          rs[n].level = 0 /\ rs[n].inputs = <<>>
    /\ rs[n].status # "Reducing" => rs[n].items = <<>>
    /\ rs[n].status = "Reducing" => Len(rs[n].inputs) >= 2
    /\ Range(rs[n].outputs) \subseteq DOMAIN ts
    /\ Range(rs[n].inputs) \subseteq DOMAIN ts
    /\ \A i \in DOMAIN rs[n].items :
          /\ rs[n].items[i].id \in DOMAIN ts
          /\ ~rs[n].items[i].carry =>
                /\ rs[n].items[i].id = <<n, rs[n].level + 1, i>>
                /\ ts[rs[n].items[i].id].binding = "Reduction"
    /\ rs[n].items # <<>> =>
          /\ rs[n].completed = Cardinality(DoneItems(rs, ts, n))
          /\ DoneItems(rs, ts, n) # WorkItems(rs, n)

RoleInv(rs, ts, n) ==
    LaunchInv(rs, n) /\ ResultInv(rs, n) /\ WaitInv(rs, ts, n) /\ LevelInv(rs, ts, n)

(* A task of its own or a pipeline: the roles of the chain go together.    *)
ChainInv(rs, ts, t) ==
    LET chain == ts[t].roles
    IN  /\ t = <<t[1], 0, 1>>
        /\ chain # <<>> /\ chain[1] = t[1]
        /\ \A i \in DOMAIN chain : /\ rs[chain[i]].launches = 1
                                   /\ rs[chain[i]].by = t[1]
                                   /\ ts[t].status = "Open" =>
                                         rs[chain[i]].status = "Submitted"
        /\ \A i \in DOMAIN chain : i # Len(chain) =>
              /\ chain[i] \notin OutputRoles
              /\ Consumers(chain[i]) = {chain[i + 1]}
              /\ chain[i + 1] # t[1]

TaskInv(rs, ts, t) ==
    /\ rs[t[1]].launches = 1
    /\ t[2] <= rs[t[1]].level + (IF rs[t[1]].items = <<>> THEN 0 ELSE 1)
    /\ ts[t].status = "Uncertain" =>
          \A n \in Range(ts[t].roles) : rs[n].status = "Uncertain"
    /\ ts[t].binding = "Role" => ChainInv(rs, ts, t)
    /\ ts[t].binding = "Shard" =>
          /\ t[2] = 0 /\ t[3] \in 1..rs[t[1]].shards /\ ts[t].roles = <<t[1]>>
          /\ ts[t].status = "Open" => rs[t[1]].status \in {"Sharded", "Uncertain"}
    /\ ts[t].binding = "Reduction" =>
          /\ ts[t].roles = <<t[1]>> /\ ts[t].status # "Uncertain"
          /\ ts[t].status = "Open" =>
                /\ t[3] \in DOMAIN rs[t[1]].items
                /\ rs[t[1]].items[t[3]] = [carry |-> FALSE, id |-> t]

Inv(rs, ts) ==
    /\ Shape(rs, ts)
    /\ \A n \in Role : RoleInv(rs, ts, n)
    /\ \A t \in DOMAIN ts : TaskInv(rs, ts, t)

JobsInv == Inv(roles, tasks) /\ failed \in BOOLEAN

-----------------------------------------------------------------------------
(* Names and chains.                                                       *)

LEMMA TaskIdFacts ==
    /\ \A t \in TaskId : /\ t[1] \in Role /\ t[2] \in Nat /\ t[3] \in Nat
                         /\ t = <<t[1], t[2], t[3]>>
    /\ \A n \in Role, l \in Nat, k \in Nat :
          /\ <<n, l, k>> \in TaskId
          /\ <<n, l, k>>[1] = n /\ <<n, l, k>>[2] = l /\ <<n, l, k>>[3] = k
  BY DEF TaskId

LEMMA RoleFields ==
    ASSUME NEW r \in RoleType
    PROVE  /\ r.status \in RoleState /\ r.by \in Nat /\ r.shards \in Nat
           /\ r.completed \in Nat /\ r.outputs \in Seq(TaskId) /\ r.level \in Nat
           /\ r.inputs \in Seq(TaskId) /\ r.items \in Seq(ItemType) /\ r.launches \in Nat
  BY DEF RoleType

LEMMA RangeFacts ==
    /\ \A x : Range(<<x>>) = {x}
    /\ \A S : \A s \in Seq(S) : \A x : x \in Range(s) <=> \E i \in 1..Len(s) : s[i] = x
  <1>1. ASSUME NEW x PROVE Range(<<x>>) = {x}
    <2> DEFINE s == <<x>>
    <2>1. DOMAIN s = {1} /\ s[1] = x
      OBVIOUS
    <2> HIDE DEF s
    <2>2. Range(s) = {x}
      BY <2>1 DEF Range
    <2> QED
      BY <2>2 DEF s
  <1>2. ASSUME NEW S, NEW s \in Seq(S), NEW x
        PROVE  x \in Range(s) <=> \E i \in 1..Len(s) : s[i] = x
    <2>1. DOMAIN s = 1..Len(s)
      OBVIOUS
    <2> QED
      BY <2>1 DEF Range
  <1> QED
    BY <1>1, <1>2

(* A role that can be materialized.                                        *)
IsReady(rs, n) ==
    /\ rs[n].status \in {"Waiting", "Ready"}
    /\ \A d \in Range(DependsOn[n]) : rs[d].status = "Completed"

LEMMA ChainFacts ==
    ASSUME NEW rs, NEW n, NEW s \in FusionPrefixes(rs, n)
    PROVE  /\ s \in Seq(Role) /\ Len(s) \in Nat /\ Len(s) >= 2 /\ s[1] = n
           /\ DOMAIN s = 1..Len(s)
           /\ \A i \in 1..Len(s) : s[i] \in Role
           /\ \A i \in 1..Len(s) : i # Len(s) => Continues(rs, s[i], s[i + 1])
  <1>6. s \in Seq(Role) /\ DOMAIN s = 1..Len(s) /\ Len(s) \in Nat
    <2>1. PICK m \in 0..Cardinality(Fusable) : s \in [1..m -> Fusable]
      BY DEF FusionPrefixes, SeqOf
    <2>2. IsFiniteSet(Fusable)
      BY JobsAssumption, FS_Subset
    <2>3. m \in Nat
      BY <2>1, <2>2, FS_CardinalityType
    <2>4. s \in Seq(Fusable) /\ Len(s) = m
      BY <2>1, <2>3
    <2>5. Fusable \subseteq Role
      BY JobsAssumption
    <2> QED
      BY <2>4, <2>5
  <1>7. \A i \in DOMAIN s : i < Len(s) => Continues(rs, s[i], s[i + 1])
    BY DEF FusionPrefixes
  <1>8. \A i \in 1..Len(s) : i # Len(s) => i < Len(s)
    <2> DEFINE k == Len(s)
    <2>1. k \in Nat
      BY <1>6
    <2> HIDE DEF k
    <2>2. \A i \in 1..k : i # k => i < k
      BY <2>1
    <2> QED
      BY <2>2 DEF k
  <1>9. \A i \in 1..Len(s) : s[i] \in Role
    BY <1>6
  <1> QED
    BY <1>6, <1>7, <1>8, <1>9 DEF FusionPrefixes

(* Inside a chain a role waits for the one before it, which is not done.   *)
LEMMA InsideChain ==
    ASSUME NEW rs, NEW n, NEW s \in FusionPrefixes(rs, n), IsReady(rs, n),
           NEW i \in 1..Len(s), i # 1
    PROVE  /\ rs[s[i]].status = "Waiting" /\ ~IsReady(rs, s[i])
           /\ i - 1 \in 1..Len(s) /\ DependsOn[s[i]] = <<s[i - 1]>>
  <1>1. Len(s) \in Nat /\ i \in Nat /\ i - 1 \in 1..Len(s) /\ i - 1 # Len(s) /\ (i - 1) + 1 = i
    BY ChainFacts
  <1>2. Continues(rs, s[i - 1], s[i])
    BY <1>1, ChainFacts
  <1>3. rs[s[i]].status = "Waiting" /\ DependsOn[s[i]] = <<s[i - 1]>>
    BY <1>2 DEF Continues
  <1>4. rs[s[i - 1]].status # "Completed"
    <2>1. CASE i - 1 = 1
      BY <2>1, ChainFacts DEF IsReady
    <2>2. CASE i - 1 # 1
      <3> DEFINE j == i - 1
      <3>1. j \in Nat /\ j - 1 \in 1..Len(s) /\ j - 1 # Len(s) /\ (j - 1) + 1 = j
        BY <1>1, <2>2
      <3>2. Continues(rs, s[j - 1], s[j])
        BY <3>1, ChainFacts
      <3> QED
        BY <3>2 DEF Continues
    <2> QED
      BY <2>1, <2>2
  <1>5. s[i - 1] \in Range(DependsOn[s[i]])
    BY <1>3, RangeFacts
  <1> QED
    BY <1>1, <1>3, <1>4, <1>5 DEF IsReady

LEMMA LeastNumber ==
    ASSUME NEW T \in SUBSET Nat, T # {}
    PROVE  \E x \in T : \A y \in T : x <= y
  <1> DEFINE R == OpToRel(<, Nat)
  <1>1. IsWellFoundedOn(R, Nat)
    BY NatLessThanWellFounded
  <1>2. \A x, y \in Nat : y < x => <<y, x>> \in R
    BY DEF OpToRel
  <1> HIDE DEF R
  <1>3. PICK x \in T : \A y \in T : ~(<<y, x>> \in R)
    BY <1>1, WFMin
  <1>4. ASSUME NEW y \in T PROVE x <= y
    <2>1. x \in Nat /\ y \in Nat
      OBVIOUS
    <2>2. ~(y < x)
      BY <1>2, <1>3, <2>1
    <2> QED
      BY <2>1, <2>2
  <1> QED
    BY <1>4

(* The chains of different ready roles have no role in common.             *)
LEMMA ChainsDisjoint ==
    ASSUME NEW rs, NEW m, NEW n, IsReady(rs, m), IsReady(rs, n),
           NEW s \in FusionPrefixes(rs, m), NEW u \in FusionPrefixes(rs, n),
           Range(s) \cap Range(u) # {}
    PROVE  m = n
  <1> DEFINE T == {i \in 1..Len(s) : \E j \in 1..Len(u) : s[i] = u[j]}
  <1>1. /\ s \in Seq(Role) /\ u \in Seq(Role) /\ s[1] = m /\ u[1] = n
        /\ Len(s) \in Nat /\ Len(u) \in Nat
    BY ChainFacts
  <1>2. T \in SUBSET Nat /\ T # {}
    BY <1>1, RangeFacts
  <1>3. PICK i \in T : \A k \in T : i <= k
    BY <1>2, LeastNumber
  <1>4. PICK j \in 1..Len(u) : s[i] = u[j]
    OBVIOUS
  <1>5. CASE i = 1
    <2>1. CASE j = 1
      BY <1>1, <1>4, <1>5, <2>1
    <2>2. CASE j # 1
      BY <1>1, <1>4, <1>5, <2>2, InsideChain
    <2> QED
      BY <2>1, <2>2
  <1>6. CASE i # 1
    <2>1. j # 1
      BY <1>1, <1>4, <1>6, InsideChain
    <2>2. DependsOn[s[i]] = <<s[i - 1]>> /\ i - 1 \in 1..Len(s)
      BY <1>6, InsideChain
    <2>3. DependsOn[u[j]] = <<u[j - 1]>> /\ j - 1 \in 1..Len(u)
      BY <2>1, InsideChain
    <2>4. s[i - 1] = u[j - 1]
      BY <1>4, <2>2, <2>3
    <2>5. i - 1 \in T
      BY <2>2, <2>3, <2>4
    <2>6. i <= i - 1 /\ i \in Nat
      BY <1>2, <1>3, <2>5
    <2> QED
      BY <2>6
  <1> QED
    BY <1>5, <1>6

-----------------------------------------------------------------------------
(* The order of the shards.  The leaves of an object are a run of shards   *)
(* that follow each other, and the objects of a level are such runs laid   *)
(* end to end.                                                             *)

(* The shards after a, up to b.                                           *)
Run(a, b) == [x \in 1..(b - a) |-> a + x]

LEMMA RunFacts ==
    ASSUME NEW a \in Nat, NEW b \in Nat, a <= b
    PROVE  /\ Run(a, b) \in Seq(Nat) /\ Len(Run(a, b)) = b - a
           /\ \A x \in 1..(b - a) : Run(a, b)[x] = a + x
  <1> DEFINE k == b - a
  <1>1. k \in Nat
    OBVIOUS
  <1>2. Run(a, b) = [x \in 1..k |-> a + x]
    BY DEF Run
  <1>3. \A x \in 1..k : a + x \in Nat
    BY <1>1
  <1> HIDE DEF k
  <1>4. Run(a, b) \in [1..k -> Nat]
    BY <1>2, <1>3
  <1>5. Run(a, b) \in Seq(Nat) /\ Len(Run(a, b)) = k
    BY <1>1, <1>4
  <1> QED
    BY <1>2, <1>5 DEF k

LEMMA RunsJoin ==
    ASSUME NEW a \in Nat, NEW b \in Nat, NEW c \in Nat, a <= b, b <= c
    PROVE  Run(a, b) \o Run(b, c) = Run(a, c)
  <1> DEFINE s == Run(a, b)
             u == Run(b, c)
             w == Run(a, c)
             v == s \o u
  <1>1. /\ s \in Seq(Nat) /\ Len(s) = b - a /\ \A x \in 1..(b - a) : s[x] = a + x
        /\ u \in Seq(Nat) /\ Len(u) = c - b /\ \A x \in 1..(c - b) : u[x] = b + x
        /\ w \in Seq(Nat) /\ Len(w) = c - a /\ \A x \in 1..(c - a) : w[x] = a + x
    <2>1. a <= c
      OBVIOUS
    <2> QED
      BY <2>1, RunFacts
  <1> HIDE DEF s, u, w
  <1>2. /\ v \in Seq(Nat) /\ Len(v) = Len(s) + Len(u)
        /\ \A i \in 1..(Len(s) + Len(u)) : v[i] = IF i <= Len(s) THEN s[i] ELSE u[i - Len(s)]
    BY <1>1, ConcatProperties
  <1> HIDE DEF v
  <1>3. ASSUME NEW i \in 1..Len(v) PROVE v[i] = w[i]
    <2>1. i \in 1..(c - a)
      BY <1>1, <1>2
    <2>2. CASE i <= b - a
      BY <1>1, <1>2, <2>1, <2>2
    <2>3. CASE ~(i <= b - a)
      <3>1. i - (b - a) \in 1..(c - b) /\ b + (i - (b - a)) = a + i
        BY <2>1, <2>3
      <3>2. v[i] = u[i - (b - a)]
        BY <1>1, <1>2, <2>1, <2>3
      <3> QED
        BY <1>1, <2>1, <3>1, <3>2
    <2> QED
      BY <2>2, <2>3
  <1>4. Len(v) = Len(w)
    BY <1>1, <1>2
  <1>5. v = w
    BY <1>1, <1>2, <1>3, <1>4, SeqEqual
  <1> QED
    BY <1>5 DEF v, s, u, w

(* The function by which FlattenSeq is defined.                            *)
Flattening(seqs, g) ==
    g = [i \in 1..Len(seqs) |-> IF i = 1 THEN seqs[i] ELSE g[i - 1] \o seqs[i]]

LEMMA FlattenIs ==
    ASSUME NEW seqs, Len(seqs) # 0
    PROVE  FlattenSeq(seqs) = (CHOOSE g : Flattening(seqs, g))[Len(seqs)]
  BY DEF FlattenSeq, Flattening

(* Where the runs end; the first one starts after b[0].                    *)
Tiling(b, m) == b \in [0..m -> Nat] /\ \A i \in 1..m : b[i - 1] <= b[i]

LEMMA TilingMonotone ==
    ASSUME NEW m \in Nat, NEW b, Tiling(b, m), NEW a \in 0..m
    PROVE  \A i \in 0..m : a <= i => b[a] <= b[i]
  <1> DEFINE T == {i \in 0..m : a <= i /\ ~(b[a] <= b[i])}
  <1>1. SUFFICES ASSUME T # {} PROVE FALSE
    OBVIOUS
  <1>2. T \in SUBSET Nat
    OBVIOUS
  <1>3. PICK i \in T : \A j \in T : i <= j
    BY <1>1, <1>2, LeastNumber
  <1>4. i \in 0..m /\ a <= i /\ ~(b[a] <= b[i])
    OBVIOUS
  <1>5. b[a] \in Nat /\ b[i] \in Nat
    BY <1>4 DEF Tiling
  <1>6. i # a
    BY <1>4, <1>5
  <1>7. i - 1 \in 0..m /\ i \in 1..m /\ a <= i - 1 /\ i - 1 \notin T
    BY <1>3, <1>4, <1>6
  <1>8. b[a] <= b[i - 1] /\ b[i - 1] \in Nat /\ b[i - 1] <= b[i]
    BY <1>7 DEF Tiling
  <1> QED
    BY <1>4, <1>5, <1>8

LEMMA RunsFlatten ==
    ASSUME NEW m \in Nat, m # 0, NEW b, Tiling(b, m), NEW s,
           s = [i \in 1..m |-> Run(b[i - 1], b[i])]
    PROVE  FlattenSeq(s) = Run(b[0], b[m])
  <1>1. /\ \A i \in 0..m : b[i] \in Nat
        /\ \A i \in 1..m : i - 1 \in 0..m /\ i \in 0..m /\ b[i - 1] <= b[i]
    BY DEF Tiling
  <1>2. Len(s) = m /\ DOMAIN s = 1..m /\ \A i \in 1..m : s[i] = Run(b[i - 1], b[i])
    <2>1. \A i \in 1..m : Run(b[i - 1], b[i]) \in Seq(Nat)
      BY <1>1, RunFacts
    <2>2. s \in [1..m -> Seq(Nat)]
      BY <2>1
    <2>3. s \in Seq(Seq(Nat)) /\ Len(s) = m
      BY <2>2
    <2> QED
      BY <2>3
  <1>3. \A i \in 1..m : b[0] <= b[i]
    <2>1. 0 \in 0..m /\ \A i \in 1..m : i \in 0..m /\ 0 <= i
      OBVIOUS
    <2> QED
      BY <2>1, TilingMonotone
  <1> DEFINE h == [i \in 1..m |-> Run(b[0], b[i])]
  <1>4. Flattening(s, h)
    <2>1. ASSUME NEW i \in 1..m
          PROVE  h[i] = IF i = 1 THEN s[i] ELSE h[i - 1] \o s[i]
      <3>1. CASE i = 1
        BY <1>2, <3>1
      <3>2. CASE i # 1
        <4>1. i - 1 \in 1..m
          BY <3>2
        <4>2. b[0] \in Nat /\ b[i - 1] \in Nat /\ b[i] \in Nat /\ b[0] <= b[i - 1] /\ b[i - 1] <= b[i]
          BY <1>1, <1>3, <4>1
        <4>3. Run(b[0], b[i - 1]) \o Run(b[i - 1], b[i]) = Run(b[0], b[i])
          BY <4>2, RunsJoin
        <4> QED
          BY <1>2, <3>2, <4>1, <4>3
      <3> QED
        BY <3>1, <3>2
    <2> HIDE DEF h
    <2>2. h = [i \in 1..m |-> h[i]]
      BY DEF h
    <2>3. h = [i \in 1..m |-> IF i = 1 THEN s[i] ELSE h[i - 1] \o s[i]]
      BY <2>1, <2>2
    <2> QED
      BY <1>2, <2>3 DEF Flattening
  <1> DEFINE f == CHOOSE g : Flattening(s, g)
  <1>5. Flattening(s, f)
    BY <1>4
  <1> HIDE DEF f, h
  <1>6. \A i \in 1..m : f[i] = IF i = 1 THEN s[i] ELSE f[i - 1] \o s[i]
    BY <1>2, <1>5 DEF Flattening
  <1>7. \A i \in 1..m : f[i] = Run(b[0], b[i])
    <2> DEFINE T == {i \in 1..m : f[i] # Run(b[0], b[i])}
    <2>1. SUFFICES ASSUME T # {} PROVE FALSE
      OBVIOUS
    <2>2. T \in SUBSET Nat
      OBVIOUS
    <2>3. PICK i \in T : \A j \in T : i <= j
      BY <2>1, <2>2, LeastNumber
    <2>4. i \in 1..m /\ f[i] # Run(b[0], b[i])
      OBVIOUS
    <2>5. i # 1
      BY <1>2, <1>6, <2>4
    <2>6. i - 1 \in 1..m /\ i - 1 \notin T
      BY <2>3, <2>4, <2>5
    <2>7. f[i - 1] = Run(b[0], b[i - 1])
      BY <2>6
    <2>8. b[0] \in Nat /\ b[i - 1] \in Nat /\ b[i] \in Nat /\ b[0] <= b[i - 1] /\ b[i - 1] <= b[i]
      BY <1>1, <1>3, <2>4, <2>6
    <2>9. Run(b[0], b[i - 1]) \o Run(b[i - 1], b[i]) = Run(b[0], b[i])
      BY <2>8, RunsJoin
    <2> QED
      BY <1>2, <1>6, <2>4, <2>5, <2>7, <2>9
  <1>8. FlattenSeq(s) = f[Len(s)]
    BY <1>2, FlattenIs DEF f
  <1> QED
    BY <1>2, <1>7, <1>8

Laid(ts, s, b) ==
    /\ Tiling(b, Len(s))
    /\ \A i \in 1..Len(s) : ts[s[i]].leaves = Run(b[i - 1], b[i])

(* The objects s carry the shards 1 to k, in order and each once.          *)
Tiled(ts, s, k) == \E b : Laid(ts, s, b) /\ b[0] = 0 /\ b[Len(s)] = k

Joined(ts, s) == FlattenSeq([i \in DOMAIN s |-> ts[s[i]].leaves])

OrderInv(r, n, ts) ==
    /\ r.status = "Submitted" => r.shards = 0
    /\ \A k \in 1..r.shards : ts[<<n, 0, k>>].leaves = <<k>>
    /\ r.status = "Reducing" =>
          /\ Tiled(ts, r.inputs, r.shards)
          /\ r.items # <<>> => Tiled(ts, [i \in DOMAIN r.items |-> r.items[i].id], r.shards)
    /\ (r.status = "Completed" /\ r.shards > 0) =>
          /\ Tiled(ts, r.outputs, r.shards)
          /\ FanIn[n] # 0 => Len(r.outputs) = 1

Ordered(rs, ts) == \A n \in Role : OrderInv(rs[n], n, ts)

(* What every stage of a handler does to the order.                        *)
OrderStays(rs, ts, rs2, ts2) == Ordered(rs, ts) => Ordered(rs2, ts2)

SameLeaves(ts, ts2) == \A t \in DOMAIN ts : ts2[t].leaves = ts[t].leaves

LEMMA TiledKept ==
    ASSUME NEW ts, NEW ts2, NEW k, NEW s \in Seq(TaskId), Range(s) \subseteq DOMAIN ts,
           SameLeaves(ts, ts2), Tiled(ts, s, k)
    PROVE  Tiled(ts2, s, k)
  <1>1. PICK b : Laid(ts, s, b) /\ b[0] = 0 /\ b[Len(s)] = k
    BY DEF Tiled
  <1>2. \A i \in 1..Len(s) : s[i] \in DOMAIN ts
    BY RangeFacts
  <1>3. Laid(ts2, s, b)
    BY <1>1, <1>2 DEF SameLeaves, Laid
  <1> QED
    BY <1>1, <1>3 DEF Tiled

LEMMA ItemIds ==
    ASSUME NEW items \in Seq(ItemType), NEW ts,
           \A i \in DOMAIN items : items[i].id \in DOMAIN ts
    PROVE  LET ids == [i \in DOMAIN items |-> items[i].id]
           IN  /\ ids \in Seq(TaskId) /\ Len(ids) = Len(items)
               /\ Range(ids) \subseteq DOMAIN ts
  <1> DEFINE ids == [i \in DOMAIN items |-> items[i].id]
             m == Len(items)
  <1>1. m \in Nat /\ DOMAIN items = 1..m /\ \A i \in 1..m : items[i] \in ItemType
    OBVIOUS
  <1> HIDE DEF m
  <1>2. ids \in [1..m -> TaskId] /\ DOMAIN ids = 1..m
        /\ \A i \in 1..m : ids[i] \in DOMAIN ts
    BY <1>1 DEF ItemType
  <1> HIDE DEF ids
  <1>3. ids \in Seq(TaskId) /\ Len(ids) = m
    BY <1>1, <1>2
  <1>4. Range(ids) \subseteq DOMAIN ts
    BY <1>2 DEF Range
  <1> QED
    BY <1>3, <1>4 DEF ids, m

(* A role that a stage leaves alone stays in order.                        *)
LEMMA OrderKept ==
    ASSUME NEW rs, NEW ts, NEW ts2, NEW n \in Role, Inv(rs, ts),
           OrderInv(rs[n], n, ts), SameLeaves(ts, ts2)
    PROVE  OrderInv(rs[n], n, ts2)
  <1> DEFINE r == rs[n]
             ids == [i \in DOMAIN r.items |-> r.items[i].id]
  <1>1. r \in RoleType /\ WaitInv(rs, ts, n) /\ LevelInv(rs, ts, n)
    BY DEF Inv, Shape, RoleInv
  <1>2. /\ r.inputs \in Seq(TaskId) /\ r.outputs \in Seq(TaskId)
        /\ r.items \in Seq(ItemType)
    BY <1>1, RoleFields
  <1>3. /\ Range(r.inputs) \subseteq DOMAIN ts /\ Range(r.outputs) \subseteq DOMAIN ts
        /\ \A i \in DOMAIN r.items : r.items[i].id \in DOMAIN ts
        /\ \A k \in 1..r.shards : <<n, 0, k>> \in DOMAIN ts
    BY <1>1 DEF LevelInv, WaitInv
  <1>4. OrderInv(r, n, ts)
    OBVIOUS
  <1> HIDE DEF r
  <1>5. ids \in Seq(TaskId) /\ Range(ids) \subseteq DOMAIN ts
    BY <1>2, <1>3, ItemIds
  <1> HIDE DEF ids
  <1>6. \A k \in 1..r.shards : ts2[<<n, 0, k>>].leaves = <<k>>
    BY <1>3, <1>4 DEF OrderInv, SameLeaves
  <1>7. Tiled(ts, r.inputs, r.shards) => Tiled(ts2, r.inputs, r.shards)
    BY <1>2, <1>3, TiledKept
  <1>8. Tiled(ts, r.outputs, r.shards) => Tiled(ts2, r.outputs, r.shards)
    BY <1>2, <1>3, TiledKept
  <1>9. Tiled(ts, ids, r.shards) => Tiled(ts2, ids, r.shards)
    BY <1>5, TiledKept
  <1>10. OrderInv(r, n, ts2)
    BY <1>4, <1>6, <1>7, <1>8, <1>9 DEF OrderInv, ids
  <1> QED
    BY <1>10 DEF r

-----------------------------------------------------------------------------
(* materialize_ready_roles, from the role states rs and tasks ts to rs2    *)
(* and ts2, for the ready roles L.                                         *)

Launching(rs, ts, L, plan, rs2, ts2) ==
    /\ Inv(rs, ts) /\ L \subseteq Role
    /\ \A n \in L : IsReady(rs, n) /\ plan[n] \in RolePlans(rs, n)
    /\ rs2 = [n \in Role |-> MaterializedRole(rs, L, plan, n)]
    /\ ts2 = With(ts, RoleTasks(L, plan))

LEMMA PlanFacts ==
    ASSUME NEW rs, NEW n \in Role, NEW p \in RolePlans(rs, n)
    PROVE  /\ p.kind \in {"none", "single", "shards", "fuse"}
           /\ p.kind = "shards" => p.parts[1] \in Nat \ {0}
           /\ p.kind = "fuse" => p.parts \in FusionPrefixes(rs, n)
           /\ TaskCount(p) \in Nat
           /\ p.kind = "none" => TaskCount(p) = 0
           /\ p.kind = "shards" => TaskCount(p) = p.parts[1]
           /\ p.kind \in {"single", "fuse"} => TaskCount(p) = 1
  <1>1. /\ p.kind \in {"none", "single", "shards", "fuse"}
        /\ p.kind = "shards" => p.parts[1] \in Nat \ {0}
        /\ p.kind = "fuse" => p.parts \in FusionPrefixes(rs, n)
    <2>1. CASE p = NoPlan \/ p = Plan("single", <<>>)
      BY <2>1 DEF NoPlan, Plan
    <2>2. ASSUME NEW k \in ShardCounts[n], p = Plan("shards", <<k>>)
          PROVE  p.kind = "shards" /\ p.parts[1] \in Nat \ {0}
      BY <2>2, JobsAssumption DEF Plan
    <2>3. ASSUME NEW s \in FusionPrefixes(rs, n), p = Plan("fuse", s)
          PROVE  p.kind = "fuse" /\ p.parts \in FusionPrefixes(rs, n)
      BY <2>3 DEF Plan
    <2>4. \/ p = NoPlan \/ p = Plan("single", <<>>)
          \/ \E k \in ShardCounts[n] : p = Plan("shards", <<k>>)
          \/ \E s \in FusionPrefixes(rs, n) : p = Plan("fuse", s)
      BY DEF RolePlans, ShardPlans
    <2> QED
      BY <2>1, <2>2, <2>3, <2>4
  <1> QED
    BY <1>1 DEF TaskCount

(* What becomes of a role.                                                 *)
Kept(rs, L, plan, rs2, n) ==
    /\ rs2[n] = rs[n] /\ n \notin L
    /\ \A m \in L : plan[m].kind = "fuse" => n \notin Range(plan[m].parts)

Marked(rs, L, plan, rs2, n) ==
    /\ n \in L /\ plan[n].kind = "none" /\ rs2[n].status = "Ready"
    /\ rs2[n].by = rs[n].by /\ rs2[n].shards = rs[n].shards
    /\ rs2[n].launches = rs[n].launches

Split(rs, L, plan, rs2, n) ==
    /\ n \in L /\ plan[n].kind = "shards" /\ rs2[n].status = "Sharded"
    /\ rs2[n].by = rs[n].by /\ rs2[n].shards = plan[n].parts[1]
    /\ rs2[n].completed = 0 /\ rs2[n].launches = 1

Sent(rs, L, plan, rs2, n) ==
    /\ n \in L /\ plan[n].kind \in {"single", "fuse"} /\ rs2[n].status = "Submitted"
    /\ rs2[n].by = n /\ rs2[n].shards = rs[n].shards /\ rs2[n].launches = 1

Fused(rs, L, plan, rs2, n) ==
    /\ n \notin L /\ rs[n].status = "Waiting" /\ rs2[n].status = "Submitted"
    /\ rs2[n].shards = rs[n].shards /\ rs2[n].launches = 1
    /\ rs2[n].by \in L /\ plan[rs2[n].by].kind = "fuse"
    /\ n \in Range(plan[rs2[n].by].parts)

LEMMA LaunchedRole ==
    ASSUME NEW rs, NEW ts, NEW L, NEW plan, NEW rs2, NEW ts2,
           Launching(rs, ts, L, plan, rs2, ts2), NEW n \in Role
    PROVE  /\ rs2[n] \in RoleType
           /\ rs2[n].outputs = rs[n].outputs /\ rs2[n].level = rs[n].level
           /\ rs2[n].inputs = rs[n].inputs /\ rs2[n].items = rs[n].items
           /\ \/ Kept(rs, L, plan, rs2, n) \/ Marked(rs, L, plan, rs2, n)
              \/ Split(rs, L, plan, rs2, n) \/ Sent(rs, L, plan, rs2, n)
              \/ Fused(rs, L, plan, rs2, n)
  <1>1. rs2[n] = MaterializedRole(rs, L, plan, n) /\ L \subseteq Role
    BY DEF Launching
  <1>2. /\ rs[n] \in RoleType
        /\ rs[n].status \in Early => rs[n].launches = 0
    BY DEF Launching, Inv, Shape, RoleInv, LaunchInv
  <1>3. CASE n \in L
    <2>1. /\ rs[n].status \in {"Waiting", "Ready"}
          /\ plan[n].kind \in {"none", "single", "shards", "fuse"}
          /\ plan[n].kind = "shards" => plan[n].parts[1] \in Nat
      BY <1>3, PlanFacts DEF Launching, IsReady
    <2>2. rs[n].launches = 0 /\ rs[n].launches + 1 = 1
      BY <1>2, <2>1 DEF Early
    <2>3. CASE plan[n].kind = "none"
      <3> DEFINE r == [rs[n] EXCEPT !.status = "Ready"]
      <3>1. rs2[n] = r
        BY <1>1, <1>3, <2>3 DEF MaterializedRole
      <3>2. /\ r \in RoleType /\ r.status = "Ready" /\ r.by = rs[n].by
            /\ r.shards = rs[n].shards /\ r.launches = rs[n].launches
            /\ r.outputs = rs[n].outputs /\ r.level = rs[n].level
            /\ r.inputs = rs[n].inputs /\ r.items = rs[n].items
        BY <1>2 DEF RoleType, RoleState
      <3> HIDE DEF r
      <3>3. Marked(rs, L, plan, rs2, n)
        BY <1>3, <2>3, <3>1, <3>2 DEF Marked
      <3> QED
        BY <3>1, <3>2, <3>3
    <2>4. CASE plan[n].kind = "shards"
      <3> DEFINE r == [rs[n] EXCEPT !.status = "Sharded", !.shards = plan[n].parts[1],
                                    !.completed = 0, !.launches = 1]
      <3>1. rs2[n] = r
        BY <1>1, <1>2, <1>3, <2>2, <2>4 DEF MaterializedRole, RoleType
      <3>2. /\ r \in RoleType /\ r.status = "Sharded" /\ r.by = rs[n].by
            /\ r.shards = plan[n].parts[1] /\ r.completed = 0 /\ r.launches = 1
            /\ r.outputs = rs[n].outputs /\ r.level = rs[n].level
            /\ r.inputs = rs[n].inputs /\ r.items = rs[n].items
        BY <1>2, <2>1, <2>4 DEF RoleType, RoleState
      <3> HIDE DEF r
      <3>3. Split(rs, L, plan, rs2, n)
        BY <1>3, <2>4, <3>1, <3>2 DEF Split
      <3> QED
        BY <3>1, <3>2, <3>3
    <2>5. CASE plan[n].kind \in {"single", "fuse"}
      <3> DEFINE r == [rs[n] EXCEPT !.status = "Submitted", !.by = n, !.launches = 1]
      <3>1. rs2[n] = r
        BY <1>1, <1>2, <1>3, <2>2, <2>5 DEF MaterializedRole, RoleType
      <3>2. n \in Nat
        BY JobsAssumption
      <3>3. /\ r \in RoleType /\ r.status = "Submitted" /\ r.by = n
            /\ r.shards = rs[n].shards /\ r.launches = 1
            /\ r.outputs = rs[n].outputs /\ r.level = rs[n].level
            /\ r.inputs = rs[n].inputs /\ r.items = rs[n].items
        BY <1>2, <3>2 DEF RoleType, RoleState
      <3> HIDE DEF r
      <3>4. Sent(rs, L, plan, rs2, n)
        BY <1>3, <2>5, <3>1, <3>3 DEF Sent
      <3> QED
        BY <3>1, <3>3, <3>4
    <2> QED
      BY <2>1, <2>3, <2>4, <2>5
  <1>4. CASE n \notin L
    <2> DEFINE heads == {m \in L : plan[m].kind = "fuse" /\ n \in Range(plan[m].parts)}
               h == CHOOSE m \in heads : TRUE
    <2>1. CASE heads = {}
      <3>1. rs2[n] = rs[n]
        BY <1>1, <1>4, <2>1 DEF MaterializedRole
      <3>2. Kept(rs, L, plan, rs2, n)
        BY <1>4, <2>1, <3>1 DEF Kept
      <3> QED
        BY <1>2, <3>1, <3>2
    <2>2. CASE heads # {}
      <3> DEFINE r == [rs[n] EXCEPT !.status = "Submitted", !.by = h, !.launches = 1]
      <3>1. h \in heads
        BY <2>2
      <3>2. /\ h \in L /\ plan[h].kind = "fuse" /\ n \in Range(plan[h].parts)
            /\ h \in Nat /\ h \in Role
        BY <3>1, <1>1, JobsAssumption
      <3>3. /\ IsReady(rs, h) /\ plan[h].parts \in FusionPrefixes(rs, h)
        BY <3>2, PlanFacts DEF Launching
      <3>4. rs[n].status = "Waiting"
        <4>1. /\ plan[h].parts \in Seq(Role) /\ plan[h].parts[1] = h
          BY <3>3, ChainFacts
        <4>2. PICK i \in 1..Len(plan[h].parts) : plan[h].parts[i] = n
          BY <3>2, <4>1, RangeFacts
        <4>3. i # 1
          BY <1>4, <3>2, <4>1, <4>2
        <4> QED
          BY <3>3, <4>2, <4>3, InsideChain
      <3>5. rs[n].launches = 0 /\ rs[n].launches + 1 = 1
        BY <1>2, <3>4 DEF Early
      <3>6. rs2[n] = r
        BY <1>1, <1>2, <1>4, <2>2, <3>5 DEF MaterializedRole, RoleType
      <3> HIDE DEF h
      <3>7. /\ r \in RoleType /\ r.status = "Submitted" /\ r.by = h
            /\ r.shards = rs[n].shards /\ r.launches = 1
            /\ r.outputs = rs[n].outputs /\ r.level = rs[n].level
            /\ r.inputs = rs[n].inputs /\ r.items = rs[n].items
        BY <1>2, <3>2 DEF RoleType, RoleState
      <3> HIDE DEF r
      <3>8. Fused(rs, L, plan, rs2, n)
        BY <1>4, <3>2, <3>4, <3>6, <3>7 DEF Fused
      <3> QED
        BY <3>6, <3>7, <3>8
    <2> QED
      BY <2>1, <2>2
  <1> QED
    BY <1>3, <1>4

(* A task as it is submitted for role n.                                   *)
Fresh(plan, ts2, n, t) ==
    /\ ts2[t] \in TaskType(ts2[t].leaves) /\ ts2[t].status = "Open"
    /\ plan[n].kind = "shards" => /\ ts2[t].binding = "Shard" /\ ts2[t].roles = <<n>>
                                  /\ ts2[t].leaves = <<t[3]>>
    /\ plan[n].kind = "single" => ts2[t].binding = "Role" /\ ts2[t].roles = <<n>>
    /\ plan[n].kind = "fuse" => ts2[t].binding = "Role" /\ ts2[t].roles = plan[n].parts

LEMMA LaunchedTasks ==
    ASSUME NEW rs, NEW ts, NEW L, NEW plan, NEW rs2, NEW ts2,
           Launching(rs, ts, L, plan, rs2, ts2)
    PROVE  /\ \A t \in DOMAIN ts : t \in DOMAIN ts2 /\ ts2[t] = ts[t] /\ t[1] \notin L
           /\ \A n \in L : \A k \in 1..TaskCount(plan[n]) :
                 <<n, 0, k>> \in DOMAIN ts2 /\ Fresh(plan, ts2, n, <<n, 0, k>>)
           /\ \A t \in DOMAIN ts2 : t \notin DOMAIN ts =>
                 /\ t[1] \in L /\ t[3] \in 1..TaskCount(plan[t[1]])
                 /\ t = <<t[1], 0, t[3]>> /\ t \in TaskId
  <1> DEFINE new == RoleTasks(L, plan)
             Ids(n) == {<<n, 0, k>> : k \in 1..TaskCount(plan[n])}
  <1>1. ts2 = With(ts, new) /\ L \subseteq Role
    BY DEF Launching
  <1>2. DOMAIN new = UNION {Ids(n) : n \in L}
    BY DEF RoleTasks
  <1>3. \A n \in L : /\ TaskCount(plan[n]) \in Nat
                     /\ plan[n].kind \in {"none", "single", "shards", "fuse"}
                     /\ plan[n].kind = "none" => TaskCount(plan[n]) = 0
                     /\ plan[n].kind = "fuse" => plan[n].parts \in Seq(Role)
    BY <1>1, PlanFacts, ChainFacts DEF Launching
  <1>0. /\ DOMAIN ts2 = DOMAIN ts \cup DOMAIN new
        /\ \A t \in DOMAIN new : ts2[t] = new[t]
        /\ \A t \in DOMAIN ts : t \notin DOMAIN new => ts2[t] = ts[t]
    <2> HIDE DEF new
    <2> QED
      BY <1>1 DEF With
  <1>4. ASSUME NEW t \in DOMAIN new
        PROVE  /\ t[1] \in L /\ t[3] \in 1..TaskCount(plan[t[1]])
               /\ t = <<t[1], 0, t[3]>> /\ t \in TaskId
    <2>1. PICK n \in L : t \in Ids(n)
      BY <1>2
    <2>2. PICK k \in 1..TaskCount(plan[n]) : t = <<n, 0, k>>
      BY <2>1
    <2>3. k \in Nat /\ n \in Role
      BY <1>1, <1>3
    <2> QED
      BY <2>2, <2>3, TaskIdFacts
  <1>5. ASSUME NEW t \in DOMAIN ts PROVE t[1] \notin L /\ t \notin DOMAIN new
    <2>1. t[1] \in Role /\ rs[t[1]].launches = 1
      BY TaskIdFacts DEF Launching, Inv, Shape, TaskInv
    <2>2. rs[t[1]].status \notin Early
      BY <2>1 DEF Launching, Inv, RoleInv, LaunchInv
    <2>3. t[1] \notin L
      BY <2>2 DEF Launching, IsReady, Early
    <2> QED
      BY <1>4, <2>3
  <1>6. ASSUME NEW n \in L, NEW k \in 1..TaskCount(plan[n])
        PROVE  <<n, 0, k>> \in DOMAIN ts2 /\ Fresh(plan, ts2, n, <<n, 0, k>>)
    <2> DEFINE t == <<n, 0, k>>
    <2>1. k \in Nat /\ n \in Role
      BY <1>1, <1>3
    <2>2. t \in DOMAIN new /\ t[1] = n /\ t[3] = k
      BY <1>2
    <2>3. new[t] = CASE plan[n].kind = "shards" -> NewTask("Shard", <<n>>, <<k>>)
                     [] plan[n].kind = "fuse" -> NewTask("Role", plan[n].parts, <<k>>)
                     [] OTHER -> NewTask("Role", <<n>>, <<k>>)
      BY <2>2 DEF RoleTasks
    <2>4. t \in DOMAIN ts2 /\ ts2[t] = new[t]
      BY <1>0, <2>2
    <2> HIDE DEF t, new
    <2>5. <<n>> \in Seq(Role)
      BY <2>1
    <2>6. CASE plan[n].kind = "shards"
      <3>1. ts2[t] = NewTask("Shard", <<n>>, <<k>>)
        BY <2>3, <2>4, <2>6
      <3>2. /\ ts2[t] \in TaskType(ts2[t].leaves) /\ ts2[t].status = "Open"
            /\ ts2[t].binding = "Shard" /\ ts2[t].roles = <<n>> /\ ts2[t].leaves = <<k>>
        BY <2>5, <3>1 DEF NewTask, TaskType
      <3>3. Fresh(plan, ts2, n, t)
        BY <2>2, <2>6, <3>2 DEF Fresh
      <3> QED
        BY <2>4, <3>3 DEF t
    <2>7. CASE plan[n].kind = "fuse"
      <3>1. ts2[t] = NewTask("Role", plan[n].parts, <<k>>)
        BY <2>3, <2>4, <2>7
      <3>2. /\ ts2[t] \in TaskType(ts2[t].leaves) /\ ts2[t].status = "Open"
            /\ ts2[t].binding = "Role" /\ ts2[t].roles = plan[n].parts
        BY <1>3, <2>7, <3>1 DEF NewTask, TaskType
      <3> QED
        BY <2>4, <2>7, <3>2 DEF Fresh, t
    <2>8. CASE plan[n].kind = "single"
      <3>1. ts2[t] = NewTask("Role", <<n>>, <<k>>)
        BY <2>3, <2>4, <2>8
      <3>2. /\ ts2[t] \in TaskType(ts2[t].leaves) /\ ts2[t].status = "Open"
            /\ ts2[t].binding = "Role" /\ ts2[t].roles = <<n>>
        BY <2>5, <3>1 DEF NewTask, TaskType
      <3> QED
        BY <2>4, <2>8, <3>2 DEF Fresh, t
    <2>9. plan[n].kind # "none"
      BY <1>3
    <2> QED
      BY <1>3, <2>6, <2>7, <2>8, <2>9
  <1> HIDE DEF new
  <1> QED
    BY <1>0, <1>4, <1>5, <1>6

(* Roles that have been launched before are left alone.                    *)
LEMMA LaunchLeaves ==
    ASSUME NEW rs, NEW ts, NEW L, NEW plan, NEW rs2, NEW ts2,
           Launching(rs, ts, L, plan, rs2, ts2), NEW n \in Role
    PROVE  /\ rs[n].status \notin Early => rs2[n] = rs[n]
           /\ rs[n].launches = 1 => rs2[n] = rs[n]
           /\ rs2[n].status = "Absent" <=> rs[n].status = "Absent"
           /\ rs2[n].status \in {"Completed", "Uncertain", "Reducing"} => rs2[n] = rs[n]
           /\ rs2[n] # rs[n] => /\ rs[n].status \in Early /\ rs[n].launches = 0
                                /\ rs[n].by = 0 /\ rs[n].shards = 0
           /\ n \in L => IsReady(rs, n)
  <1>1. rs[n].status \in Early => rs[n].launches = 0 /\ rs[n].by = 0 /\ rs[n].shards = 0
    BY DEF Launching, Inv, RoleInv, LaunchInv
  <1>2. n \in L => IsReady(rs, n)
    BY DEF Launching
  <1>3. n \in L => rs[n].status \in {"Waiting", "Ready"}
    BY <1>2 DEF IsReady
  <1>4. \/ Kept(rs, L, plan, rs2, n) \/ Marked(rs, L, plan, rs2, n)
        \/ Split(rs, L, plan, rs2, n) \/ Sent(rs, L, plan, rs2, n)
        \/ Fused(rs, L, plan, rs2, n)
    BY LaunchedRole
  <1> QED
    BY <1>1, <1>2, <1>3, <1>4 DEF Kept, Marked, Split, Sent, Fused, Early

LEMMA LaunchKeepsShape ==
    ASSUME NEW rs, NEW ts, NEW L, NEW plan, NEW rs2, NEW ts2,
           Launching(rs, ts, L, plan, rs2, ts2)
    PROVE  Shape(rs2, ts2)
  <1>1. rs2 \in [Role -> RoleType]
    <2>1. rs2 = [n \in Role |-> MaterializedRole(rs, L, plan, n)]
      BY DEF Launching
    <2>2. \A n \in Role : rs2[n] \in RoleType
      BY LaunchedRole
    <2> QED
      BY <2>1, <2>2
  <1>2. ASSUME NEW t \in DOMAIN ts2 PROVE t \in TaskId /\ ts2[t] \in TaskType(ts2[t].leaves)
    <2>1. CASE t \in DOMAIN ts
      BY <2>1, LaunchedTasks DEF Launching, Inv, Shape
    <2>2. CASE t \notin DOMAIN ts
      <3> DEFINE n == t[1]
                 k == t[3]
      <3>1. n \in L /\ k \in 1..TaskCount(plan[n]) /\ t = <<n, 0, k>> /\ t \in TaskId
        BY <2>2, LaunchedTasks
      <3> HIDE DEF n, k
      <3>2. Fresh(plan, ts2, n, t)
        BY <3>1, LaunchedTasks
      <3> QED
        BY <3>1, <3>2 DEF Fresh
    <2> QED
      BY <2>1, <2>2
  <1> QED
    BY <1>1, <1>2 DEF Shape

LEMMA LaunchKeepsLaunch ==
    ASSUME NEW rs, NEW ts, NEW L, NEW plan, NEW rs2, NEW ts2,
           Launching(rs, ts, L, plan, rs2, ts2), NEW n \in Role
    PROVE  LaunchInv(rs2, n)
  <1>1. LaunchInv(rs, n)
    BY DEF Launching, Inv, RoleInv
  <1>2. \/ Kept(rs, L, plan, rs2, n) \/ Marked(rs, L, plan, rs2, n)
        \/ Split(rs, L, plan, rs2, n) \/ Sent(rs, L, plan, rs2, n)
        \/ Fused(rs, L, plan, rs2, n)
    BY LaunchedRole
  <1>3. /\ rs2[n].launches <= 1
        /\ rs2[n].status \in Early =>
              rs2[n].launches = 0 /\ rs2[n].by = 0 /\ rs2[n].shards = 0
        /\ rs2[n].status \notin Early => rs2[n].launches = 1
    <2>1. CASE Kept(rs, L, plan, rs2, n)
      BY <1>1, <2>1 DEF Kept, LaunchInv
    <2>2. CASE Marked(rs, L, plan, rs2, n)
      BY <1>1, <2>2, LaunchLeaves DEF Marked, LaunchInv, IsReady, Early
    <2>3. CASE Split(rs, L, plan, rs2, n) \/ Sent(rs, L, plan, rs2, n) \/ Fused(rs, L, plan, rs2, n)
      BY <2>3 DEF Split, Sent, Fused, Early
    <2> QED
      BY <1>2, <2>1, <2>2, <2>3
  <1>4. \A m \in Role : (JobOf[m] = JobOf[n] /\ rs2[m].status = "Absent") =>
          rs2[n].status = "Absent"
    BY <1>1, LaunchLeaves DEF LaunchInv
  <1> QED
    BY <1>3, <1>4 DEF LaunchInv

LEMMA RoleDependencies ==
    \A n \in Role : Range(DependsOn[n]) \subseteq Role
  <1> TAKE n \in Role
  <1>1. DependsOn[n] \in Seq(Role)
    BY JobsAssumption
  <1> QED
    BY <1>1 DEF Range

LEMMA LaunchKeepsResults ==
    ASSUME NEW rs, NEW ts, NEW L, NEW plan, NEW rs2, NEW ts2,
           Launching(rs, ts, L, plan, rs2, ts2), NEW n \in Role
    PROVE  ResultInv(rs2, n)
  <1>1. \A m \in Role : ResultInv(rs, m) /\ LaunchInv(rs, m)
    BY DEF Launching, Inv, RoleInv
  <1>2. ASSUME rs2[n].status = "Completed", rs2[n].outputs = <<>> PROVE Swallowed(rs2, n)
    <2>1. rs2[n] = rs[n]
      BY <1>2, LaunchLeaves
    <2>2. Swallowed(rs, n)
      BY <1>1, <1>2, <2>1 DEF ResultInv
    <2> QED
      BY <2>2, LaunchLeaves DEF Swallowed
  <1>3. ASSUME rs2[n].launches > 0, rs2[n].by \in {0, n}, NEW d \in Range(DependsOn[n])
        PROVE  rs2[d].status = "Completed" /\ rs2[d].outputs # <<>>
    <2>0. d \in Role
      BY RoleDependencies
    <2>1. CASE rs2[n] = rs[n]
      <3>1. rs[d].status = "Completed" /\ rs[d].outputs # <<>>
        BY <1>1, <1>3, <2>1 DEF ResultInv
      <3>2. rs2[d] = rs[d]
        BY <2>0, <3>1, LaunchLeaves DEF Early
      <3> QED
        BY <3>1, <3>2
    <2>2. CASE rs2[n] # rs[n]
      <3>1. rs[n].launches = 0
        BY <2>2, LaunchLeaves
      <3>2. n \in L
        <4>1. \/ Kept(rs, L, plan, rs2, n) \/ Marked(rs, L, plan, rs2, n)
              \/ Split(rs, L, plan, rs2, n) \/ Sent(rs, L, plan, rs2, n)
              \/ Fused(rs, L, plan, rs2, n)
          BY LaunchedRole
        <4>2. ASSUME Fused(rs, L, plan, rs2, n) PROVE FALSE
          <5>1. rs2[n].by \in L /\ n \notin L /\ L \subseteq Role
            BY <4>2 DEF Fused, Launching
          <5>2. rs2[n].by # 0
            BY <5>1, JobsAssumption
          <5> QED
            BY <1>3, <5>1, <5>2
        <4> QED
          BY <2>2, <4>1, <4>2 DEF Kept, Marked, Split, Sent
      <3>3. rs[d].status = "Completed"
        BY <3>2 DEF Launching, IsReady
      <3>4. rs[d].outputs # <<>>
        BY <1>1, <2>0, <3>1, <3>3 DEF ResultInv, Swallowed
      <3>5. rs2[d] = rs[d]
        BY <2>0, <3>3, LaunchLeaves DEF Early
      <3> QED
        BY <3>3, <3>4, <3>5
    <2> QED
      BY <2>1, <2>2
  <1> QED
    BY <1>2, <1>3 DEF ResultInv

LEMMA LaunchKeepsWait ==
    ASSUME NEW rs, NEW ts, NEW L, NEW plan, NEW rs2, NEW ts2,
           Launching(rs, ts, L, plan, rs2, ts2), NEW n \in Role
    PROVE  WaitInv(rs2, ts2, n)
  <1>1. WaitInv(rs, ts, n) /\ L \subseteq Role
    BY DEF Launching, Inv, RoleInv
  <1>2. \A t \in DOMAIN ts : t \in DOMAIN ts2 /\ ts2[t] = ts[t]
    BY LaunchedTasks
  <1>3. \/ Kept(rs, L, plan, rs2, n) \/ Marked(rs, L, plan, rs2, n)
        \/ Split(rs, L, plan, rs2, n) \/ Sent(rs, L, plan, rs2, n)
        \/ Fused(rs, L, plan, rs2, n)
    BY LaunchedRole
  <1>4. rs[n].status \in Early => rs[n].shards = 0
    BY DEF Launching, Inv, RoleInv, LaunchInv
  <1>5. CASE rs2[n] = rs[n]
    <2>1. DoneShards(rs2, ts2, n) = DoneShards(rs, ts, n)
      BY <1>1, <1>2, <1>5 DEF DoneShards, WaitInv
    <2>2. \A k \in 1..rs2[n].shards :
             <<n, 0, k>> \in DOMAIN ts2 /\ ts2[<<n, 0, k>>].binding = "Shard"
      BY <1>1, <1>2, <1>5 DEF WaitInv
    <2>3. rs2[n].status = "Submitted" =>
            LET t == <<rs2[n].by, 0, 1>>
            IN  /\ t \in DOMAIN ts2 /\ ts2[t].status = "Open"
                /\ ts2[t].binding = "Role" /\ n \in Range(ts2[t].roles)
      BY <1>1, <1>2, <1>5 DEF WaitInv
    <2>4. rs2[n].status = "Sharded" =>
            /\ rs2[n].shards > 0
            /\ rs2[n].completed = Cardinality(DoneShards(rs2, ts2, n))
            /\ DoneShards(rs2, ts2, n) # 1..rs2[n].shards
      BY <1>1, <1>5, <2>1 DEF WaitInv
    <2> QED
      BY <2>2, <2>3, <2>4 DEF WaitInv
  <1>6. CASE Marked(rs, L, plan, rs2, n)
    <2>1. rs2[n].shards = 0 /\ rs2[n].status = "Ready"
      BY <1>4, <1>6, LaunchLeaves DEF Marked, IsReady, Early
    <2>2. 1..rs2[n].shards = {}
      BY <2>1
    <2> QED
      BY <2>1, <2>2 DEF WaitInv
  <1>7. CASE Split(rs, L, plan, rs2, n)
    <2> DEFINE c == rs2[n].shards
    <2>1. /\ n \in L /\ plan[n].kind = "shards" /\ c \in Nat \ {0}
          /\ TaskCount(plan[n]) = c
      BY <1>7, PlanFacts DEF Split, Launching
    <2>2. \A k \in 1..c : <<n, 0, k>> \in DOMAIN ts2 /\ Fresh(plan, ts2, n, <<n, 0, k>>)
      BY <2>1, LaunchedTasks
    <2>3. \A k \in 1..c : /\ <<n, 0, k>> \in DOMAIN ts2
                          /\ ts2[<<n, 0, k>>].binding = "Shard"
                          /\ ts2[<<n, 0, k>>].status = "Open"
      BY <2>1, <2>2 DEF Fresh
    <2>4. DoneShards(rs2, ts2, n) = {}
      BY <2>3 DEF DoneShards
    <2>5. 1 \in 1..c /\ c > 0
      BY <2>1
    <2>6. rs2[n].completed = Cardinality(DoneShards(rs2, ts2, n))
      BY <1>7, <2>4, FS_EmptySet DEF Split
    <2>7. rs2[n].status = "Sharded"
      BY <1>7 DEF Split
    <2> QED
      BY <2>3, <2>4, <2>5, <2>6, <2>7 DEF WaitInv
  <1>8. CASE Sent(rs, L, plan, rs2, n)
    <2>1. n \in L /\ plan[n].kind \in {"single", "fuse"} /\ TaskCount(plan[n]) = 1
      BY <1>8, PlanFacts DEF Sent, Launching
    <2>2. rs2[n].shards = 0 /\ rs2[n].status = "Submitted" /\ rs2[n].by = n
      BY <1>4, <1>8, LaunchLeaves DEF Sent, IsReady, Early
    <2>3. 1..rs2[n].shards = {}
      BY <2>2
    <2>4. 1 \in 1..TaskCount(plan[n])
      BY <2>1
    <2> DEFINE t == <<n, 0, 1>>
    <2>5. t \in DOMAIN ts2 /\ Fresh(plan, ts2, n, t)
      BY <2>1, <2>4, LaunchedTasks
    <2> HIDE DEF t
    <2>6. /\ ts2[t].status = "Open" /\ ts2[t].binding = "Role"
          /\ n \in Range(ts2[t].roles)
      <3>1. CASE plan[n].kind = "single"
        <4>1. Range(<<n>>) = {n}
          BY RangeFacts
        <4> QED
          BY <2>5, <3>1, <4>1 DEF Fresh
      <3>2. CASE plan[n].kind = "fuse"
        <4>1. plan[n].parts \in FusionPrefixes(rs, n)
          BY <2>1, <3>2, PlanFacts DEF Launching
        <4>2. plan[n].parts[1] = n /\ 1 \in DOMAIN plan[n].parts
          BY <4>1, ChainFacts
        <4>3. n \in Range(plan[n].parts)
          BY <4>2 DEF Range
        <4> QED
          BY <2>5, <3>2, <4>3 DEF Fresh
      <3> QED
        BY <2>1, <3>1, <3>2
    <2> QED
      BY <2>2, <2>3, <2>5, <2>6 DEF WaitInv, t
  <1>9. CASE Fused(rs, L, plan, rs2, n)
    <2> DEFINE h == rs2[n].by
               t == <<h, 0, 1>>
    <2>1. /\ h \in L /\ h \in Role /\ plan[h].kind = "fuse" /\ TaskCount(plan[h]) = 1
          /\ n \in Range(plan[h].parts)
      BY <1>1, <1>9, PlanFacts DEF Fused, Launching
    <2>2. rs2[n].shards = 0 /\ rs2[n].status = "Submitted"
      BY <1>4, <1>9 DEF Fused, Early
    <2>3. 1..rs2[n].shards = {}
      BY <2>2
    <2>4. 1 \in 1..TaskCount(plan[h])
      BY <2>1
    <2> HIDE DEF h
    <2>5. t \in DOMAIN ts2 /\ Fresh(plan, ts2, h, t)
      BY <2>1, <2>4, LaunchedTasks
    <2> HIDE DEF t
    <2>6. /\ ts2[t].status = "Open" /\ ts2[t].binding = "Role"
          /\ n \in Range(ts2[t].roles)
      BY <2>1, <2>5 DEF Fresh
    <2> QED
      BY <2>2, <2>3, <2>5, <2>6 DEF WaitInv, t, h
  <1> QED
    BY <1>3, <1>5, <1>6, <1>7, <1>8, <1>9 DEF Kept

LEMMA LaunchKeepsLevel ==
    ASSUME NEW rs, NEW ts, NEW L, NEW plan, NEW rs2, NEW ts2,
           Launching(rs, ts, L, plan, rs2, ts2), NEW n \in Role
    PROVE  LevelInv(rs2, ts2, n)
  <1>1. LevelInv(rs, ts, n)
    BY DEF Launching, Inv, RoleInv
  <1>2. \A t \in DOMAIN ts : t \in DOMAIN ts2 /\ ts2[t] = ts[t]
    BY LaunchedTasks
  <1>3. /\ rs2[n].outputs = rs[n].outputs /\ rs2[n].level = rs[n].level
        /\ rs2[n].inputs = rs[n].inputs /\ rs2[n].items = rs[n].items
    BY LaunchedRole
  <1>4. /\ Range(rs2[n].outputs) \subseteq DOMAIN ts2
        /\ Range(rs2[n].inputs) \subseteq DOMAIN ts2
        /\ \A i \in DOMAIN rs2[n].items :
              /\ rs2[n].items[i].id \in DOMAIN ts2
              /\ ~rs2[n].items[i].carry =>
                    /\ rs2[n].items[i].id = <<n, rs2[n].level + 1, i>>
                    /\ ts2[rs2[n].items[i].id].binding = "Reduction"
    BY <1>1, <1>2, <1>3 DEF LevelInv
  <1>5. CASE rs2[n] = rs[n]
    <2>1. WorkItems(rs2, n) = WorkItems(rs, n)
      BY <1>5 DEF WorkItems
    <2>2. DoneItems(rs2, ts2, n) = DoneItems(rs, ts, n)
      BY <1>1, <1>2, <1>5, <2>1 DEF DoneItems, WorkItems, LevelInv
    <2> QED
      BY <1>1, <1>4, <1>5, <2>1, <2>2 DEF LevelInv
  <1>6. CASE rs2[n] # rs[n]
    <2>1. rs[n].status \in Early /\ rs2[n].status \notin {"Completed", "Reducing"}
      BY <1>6, LaunchLeaves
    <2>2. rs[n].items = <<>> /\ rs[n].level = 0 /\ rs[n].inputs = <<>>
      BY <1>1, <2>1 DEF LevelInv, Early
    <2> QED
      BY <1>3, <1>4, <2>1, <2>2 DEF LevelInv
  <1> QED
    BY <1>5, <1>6

LEMMA LaunchKeepsTasks ==
    ASSUME NEW rs, NEW ts, NEW L, NEW plan, NEW rs2, NEW ts2,
           Launching(rs, ts, L, plan, rs2, ts2), NEW t \in DOMAIN ts2
    PROVE  TaskInv(rs2, ts2, t)
  <1> DEFINE n == t[1]
             k == t[3]
  <1>1. CASE t \in DOMAIN ts
    <2>0. TaskInv(rs, ts, t) /\ t \in TaskId /\ ts[t] \in TaskType(ts[t].leaves)
      BY <1>1 DEF Launching, Inv, Shape
    <2>1. ts2[t] = ts[t] /\ TaskInv(rs, ts, t) /\ n \in Role /\ ts[t].roles \in Seq(Role)
      <3>1. ts2[t] = ts[t]
        BY <1>1, LaunchedTasks
      <3>2. n \in Role
        BY <2>0, TaskIdFacts
      <3>3. ts[t].roles \in Seq(Role)
        BY <2>0 DEF TaskType
      <3> QED
        BY <2>0, <3>1, <3>2, <3>3
    <2>2. rs2[n] = rs[n]
      BY <2>1, LaunchLeaves DEF TaskInv
    <2>3. \A i \in DOMAIN ts[t].roles : ts[t].roles[i] \in Role
      BY <2>1
    <2>4. ts2[t].status = "Uncertain" =>
             \A m \in Range(ts2[t].roles) : rs2[m].status = "Uncertain"
      BY <2>1, <2>3, LaunchLeaves DEF TaskInv, Range, Early
    <2>5. ts2[t].binding = "Role" => ChainInv(rs2, ts2, t)
      <3>1. SUFFICES ASSUME ts[t].binding = "Role" PROVE ChainInv(rs2, ts2, t)
        BY <2>1
      <3>2. ChainInv(rs, ts, t)
        BY <2>1, <3>1 DEF TaskInv
      <3>3. \A i \in DOMAIN ts[t].roles : rs2[ts[t].roles[i]] = rs[ts[t].roles[i]]
        BY <2>3, <3>2, LaunchLeaves DEF ChainInv
      <3> DEFINE chain == ts[t].roles
      <3>4. ts2[t].roles = chain /\ ts2[t].status = ts[t].status
        BY <2>1
      <3>5. \A i \in DOMAIN chain : /\ rs[chain[i]].launches = 1
                                    /\ rs[chain[i]].by = t[1]
                                    /\ ts[t].status = "Open" =>
                                          rs[chain[i]].status = "Submitted"
        BY <3>2 DEF ChainInv
      <3>6. \A i \in DOMAIN chain : rs2[chain[i]] = rs[chain[i]]
        BY <3>3
      <3>7. /\ t = <<t[1], 0, 1>> /\ chain # <<>> /\ chain[1] = t[1]
            /\ \A i \in DOMAIN chain : i # Len(chain) =>
                  /\ chain[i] \notin OutputRoles
                  /\ Consumers(chain[i]) = {chain[i + 1]}
                  /\ chain[i + 1] # t[1]
        BY <3>2 DEF ChainInv
      <3> HIDE DEF chain, n
      <3>8. \A i \in DOMAIN chain : /\ rs2[chain[i]].launches = 1
                                    /\ rs2[chain[i]].by = t[1]
                                    /\ ts2[t].status = "Open" =>
                                          rs2[chain[i]].status = "Submitted"
        BY <3>4, <3>5, <3>6
      <3> QED
        BY <3>4, <3>7, <3>8 DEF ChainInv
    <2> HIDE DEF n
    <2> QED
      BY <2>1, <2>2, <2>4, <2>5 DEF TaskInv, n
  <1>2. CASE t \notin DOMAIN ts
    <2>1. /\ n \in L /\ k \in 1..TaskCount(plan[n]) /\ t = <<n, 0, k>> /\ n \in Role
          /\ t[2] = 0
      BY <1>2, LaunchedTasks DEF Launching
    <2>2. Fresh(plan, ts2, n, t)
      <3> HIDE DEF n, k
      <3> QED
        BY <2>1, LaunchedTasks
    <2>3. IsReady(rs, n) /\ plan[n] \in RolePlans(rs, n)
      BY <2>1 DEF Launching
    <2>4. /\ plan[n].kind \in {"single", "shards", "fuse"}
          /\ plan[n].kind = "shards" => TaskCount(plan[n]) = plan[n].parts[1]
          /\ plan[n].kind \in {"single", "fuse"} => k = 1
          /\ plan[n].kind = "fuse" => plan[n].parts \in FusionPrefixes(rs, n)
      BY <2>1, <2>3, PlanFacts
    <2>5. \/ Split(rs, L, plan, rs2, n) \/ Sent(rs, L, plan, rs2, n)
      BY <2>1, <2>4, LaunchedRole DEF Kept, Marked, Split, Sent, Fused
    <2>6. rs2[n].launches = 1 /\ rs2[n].level = 0 /\ rs2[n].items = <<>>
      <3>1. LevelInv(rs, ts, n)
        BY <2>1 DEF Launching, Inv, RoleInv
      <3> QED
        BY <2>1, <2>3, <2>5, <3>1, LaunchedRole DEF Split, Sent, LevelInv, IsReady
    <2>7. ts2[t].status = "Open"
      BY <2>2 DEF Fresh
    <2> HIDE DEF n, k
    <2>8. CASE plan[n].kind = "shards"
      <3>1. ts2[t].binding = "Shard" /\ ts2[t].roles = <<n>>
        BY <2>2, <2>8 DEF Fresh
      <3>2. rs2[n].status = "Sharded" /\ k \in 1..rs2[n].shards
        BY <2>1, <2>4, <2>5, <2>8 DEF Split, Sent
      <3> QED
        BY <2>1, <2>6, <2>7, <3>1, <3>2 DEF TaskInv, n, k
    <2>9. CASE plan[n].kind = "single"
      <3>1. ts2[t].binding = "Role" /\ ts2[t].roles = <<n>>
        BY <2>2, <2>9 DEF Fresh
      <3>2. rs2[n].status = "Submitted" /\ rs2[n].by = n
        BY <2>5, <2>9 DEF Split, Sent
      <3>3. t = <<t[1], 0, 1>>
        BY <2>1, <2>4, <2>9 DEF n
      <3>4. ChainInv(rs2, ts2, t)
        <4> DEFINE s == <<n>>
        <4>1. DOMAIN s = {1} /\ s[1] = n /\ Len(s) = 1 /\ s # <<>>
          OBVIOUS
        <4> HIDE DEF s
        <4>2. ts2[t].roles = s
          BY <3>1 DEF s
        <4> QED
          BY <2>6, <3>2, <3>3, <4>1, <4>2 DEF ChainInv, n
      <3> QED
        BY <2>1, <2>6, <2>7, <3>1, <3>4 DEF TaskInv, n
    <2>10. CASE plan[n].kind = "fuse"
      <3> DEFINE s == plan[n].parts
      <3>1. ts2[t].binding = "Role" /\ ts2[t].roles = s
        BY <2>2, <2>10 DEF Fresh
      <3>2. rs2[n].status = "Submitted" /\ rs2[n].by = n
        BY <2>5, <2>10 DEF Split, Sent
      <3>3. t = <<t[1], 0, 1>>
        BY <2>1, <2>4, <2>10 DEF n
      <3>4. s \in FusionPrefixes(rs, n)
        BY <2>4, <2>10
      <3> HIDE DEF s
      <3>5. /\ Len(s) \in Nat /\ Len(s) >= 2 /\ s[1] = n /\ DOMAIN s = 1..Len(s)
            /\ \A i \in 1..Len(s) : s[i] \in Role
            /\ \A i \in 1..Len(s) : i # Len(s) => Continues(rs, s[i], s[i + 1])
        BY <3>4, ChainFacts
      <3>6. ASSUME NEW i \in 1..Len(s)
            PROVE  /\ rs2[s[i]].launches = 1 /\ rs2[s[i]].by = n
                   /\ rs2[s[i]].status = "Submitted"
        <4>1. CASE i = 1
          BY <2>6, <3>2, <3>5, <4>1
        <4>2. CASE i # 1
          <5>1. s[i] \in Role /\ s[i] \in Range(s)
            BY <3>5 DEF Range
          <5>2. s[i] \notin L
            BY <2>3, <3>4, <4>2, <5>1, InsideChain, LaunchLeaves
          <5>3. ~Kept(rs, L, plan, rs2, s[i])
            BY <2>1, <2>10, <5>1 DEF Kept, s
          <5>4. Fused(rs, L, plan, rs2, s[i])
            <6> DEFINE m == s[i]
            <6>1. m \in Role /\ m \notin L /\ ~Kept(rs, L, plan, rs2, m)
              BY <5>1, <5>2, <5>3
            <6> HIDE DEF m
            <6>2. Fused(rs, L, plan, rs2, m)
              BY <6>1, LaunchedRole DEF Marked, Split, Sent
            <6> QED
              BY <6>2 DEF m
          <5> DEFINE h == rs2[s[i]].by
          <5>5. /\ h \in L /\ h \in Role /\ plan[h].kind = "fuse"
                /\ s[i] \in Range(plan[h].parts)
            BY <5>4 DEF Fused, Launching
          <5> HIDE DEF h
          <5>6. IsReady(rs, h) /\ plan[h].parts \in FusionPrefixes(rs, h)
            BY <5>5, PlanFacts DEF Launching
          <5>7. h = n
            BY <2>3, <3>4, <5>1, <5>5, <5>6, ChainsDisjoint
          <5> QED
            BY <5>4, <5>7 DEF Fused, h
        <4> QED
          BY <4>1, <4>2
      <3>7. ASSUME NEW i \in 1..Len(s), i # Len(s)
            PROVE  /\ s[i] \notin OutputRoles /\ Consumers(s[i]) = {s[i + 1]}
                   /\ s[i + 1] # n
        <4>1. Continues(rs, s[i], s[i + 1])
          BY <3>5, <3>7
        <4> DEFINE l == Len(s)
        <4>2. i + 1 \in 1..Len(s) /\ i + 1 # 1
          <5>1. l \in Nat /\ i \in 1..l /\ i # l
            BY <3>5, <3>7
          <5> HIDE DEF l
          <5>2. i + 1 \in 1..l /\ i + 1 # 1
            BY <5>1
          <5> QED
            BY <5>2 DEF l
        <4>3. ~IsReady(rs, s[i + 1])
          BY <2>3, <3>4, <4>2, InsideChain
        <4> QED
          BY <2>3, <4>1, <4>3 DEF Continues
      <3>8. ChainInv(rs2, ts2, t)
        <4>1. s # <<>>
          <5>0. DOMAIN s = 1..Len(s) /\ Len(s) \in Nat /\ Len(s) >= 2
            BY <3>5
          <5>1. 1 \in DOMAIN s
            BY <5>0
          <5>2. DOMAIN <<>> = {}
            OBVIOUS
          <5> QED
            BY <5>1, <5>2
        <4> QED
          BY <3>1, <3>3, <3>5, <3>6, <3>7, <4>1 DEF ChainInv, n
      <3> QED
        BY <2>1, <2>6, <2>7, <3>1, <3>8 DEF TaskInv, n
    <2> QED
      BY <2>4, <2>8, <2>9, <2>10
  <1> QED
    BY <1>1, <1>2

LEMMA LaunchKeepsOrder ==
    ASSUME NEW rs, NEW ts, NEW L, NEW plan, NEW rs2, NEW ts2,
           Launching(rs, ts, L, plan, rs2, ts2)
    PROVE  OrderStays(rs, ts, rs2, ts2)
  <1>1. SUFFICES ASSUME Ordered(rs, ts), NEW n \in Role
                 PROVE  OrderInv(rs2[n], n, ts2)
    BY DEF OrderStays, Ordered
  <1>2. SameLeaves(ts, ts2)
    BY LaunchedTasks DEF SameLeaves
  <1>3. OrderInv(rs[n], n, ts) /\ Inv(rs, ts)
    BY <1>1 DEF Ordered, Launching
  <1>4. CASE rs2[n] = rs[n]
    <2>1. OrderInv(rs[n], n, ts2)
      BY <1>2, <1>3, OrderKept
    <2> QED
      BY <1>4, <2>1
  <1>5. CASE rs2[n] # rs[n]
    <2>1. /\ rs2[n].status \notin {"Completed", "Uncertain", "Reducing"}
          /\ rs[n].shards = 0
      BY <1>5, LaunchLeaves
    <2>2. \/ Marked(rs, L, plan, rs2, n) \/ Split(rs, L, plan, rs2, n)
          \/ Sent(rs, L, plan, rs2, n) \/ Fused(rs, L, plan, rs2, n)
      BY <1>5, LaunchedRole DEF Kept
    <2>3. CASE Split(rs, L, plan, rs2, n)
      <3>1. /\ n \in L /\ plan[n].kind = "shards" /\ rs2[n].status = "Sharded"
            /\ rs2[n].shards = plan[n].parts[1]
        BY <2>3 DEF Split
      <3>2. plan[n] \in RolePlans(rs, n)
        BY <3>1 DEF Launching
      <3>3. TaskCount(plan[n]) = rs2[n].shards /\ TaskCount(plan[n]) \in Nat
        BY <3>1, <3>2, PlanFacts
      <3>4. ASSUME NEW k \in 1..rs2[n].shards PROVE ts2[<<n, 0, k>>].leaves = <<k>>
        <4>1. Fresh(plan, ts2, n, <<n, 0, k>>)
          BY <3>1, <3>3, LaunchedTasks
        <4>2. <<n, 0, k>>[3] = k
          OBVIOUS
        <4> QED
          BY <3>1, <4>1, <4>2 DEF Fresh
      <3> QED
        BY <3>1, <3>4 DEF OrderInv
    <2>4. CASE ~Split(rs, L, plan, rs2, n)
      <3>1. rs2[n].shards = 0
        BY <2>1, <2>2, <2>4 DEF Marked, Sent, Fused
      <3>2. 1..0 = {}
        OBVIOUS
      <3> QED
        BY <2>1, <3>1, <3>2 DEF OrderInv
    <2> QED
      BY <2>3, <2>4
  <1> QED
    BY <1>4, <1>5

(* What has settled.                                                       *)
RolesStay(rs, rs2) ==
    \A n \in Role : rs[n].status \in {"Completed", "Uncertain"} =>
        rs2[n].status = rs[n].status /\ rs2[n].outputs = rs[n].outputs

TasksStay(ts, ts2) ==
    \A t \in DOMAIN ts : ts[t].status # "Open" => t \in DOMAIN ts2 /\ ts2[t] = ts[t]

LEMMA LaunchSound ==
    ASSUME NEW rs, NEW ts, NEW L, NEW plan, NEW rs2, NEW ts2,
           Launching(rs, ts, L, plan, rs2, ts2)
    PROVE  /\ Inv(rs2, ts2) /\ RolesStay(rs, rs2) /\ TasksStay(ts, ts2)
           /\ OrderStays(rs, ts, rs2, ts2)
  <1>1. Shape(rs2, ts2)
    BY LaunchKeepsShape
  <1>2. \A n \in Role : RoleInv(rs2, ts2, n)
    BY LaunchKeepsLaunch, LaunchKeepsResults, LaunchKeepsWait, LaunchKeepsLevel DEF RoleInv
  <1>3. \A t \in DOMAIN ts2 : TaskInv(rs2, ts2, t)
    BY LaunchKeepsTasks
  <1>4. RolesStay(rs, rs2)
    BY LaunchLeaves DEF RolesStay, Early
  <1>5. TasksStay(ts, ts2)
    BY LaunchedTasks DEF TasksStay
  <1> QED
    BY <1>1, <1>2, <1>3, <1>4, <1>5, LaunchKeepsOrder DEF Inv

-----------------------------------------------------------------------------
(* materialize_reduction_level, from rs and ts to rs2 and ts2, for the     *)
(* roles D.                                                                *)

Reducing(rs, ts, D, plan, rs2, ts2) ==
    /\ Inv(rs, ts) /\ D \subseteq Role
    /\ \A n \in D : /\ rs[n].status = "Reducing" /\ rs[n].items = <<>>
                    /\ plan[n] \in ReductionPlans(rs, n)
    /\ rs2 = ReducedRoles(rs, D, plan)
    /\ ts2 = WithReductions(rs, ts, D, plan)

(* The ends of the groups of m inputs: the groups are not empty, they take *)
(* all the inputs, and not all of them are of one input.                   *)
GroupEnds(e, m) ==
    /\ e \in Seq(Nat) /\ DOMAIN e = 1..Len(e) /\ Len(e) \in Nat
    /\ \A i \in DOMAIN e : /\ GroupStart(e, i) \in Nat /\ e[i] \in Nat
                           /\ GroupStart(e, i) < e[i] /\ e[i] <= m
    /\ e # <<>> => e[Len(e)] = m /\ \E i \in DOMAIN e : e[i] # GroupStart(e, i) + 1

LEMMA ReductionPlanFacts ==
    ASSUME NEW rs, NEW n, Len(rs[n].inputs) \in Nat, Len(rs[n].inputs) >= 2,
           NEW p \in ReductionPlans(rs, n)
    PROVE  GroupEnds(p.parts, Len(rs[n].inputs))
  <1> DEFINE m == Len(rs[n].inputs)
  <1>0. m \in Nat /\ m >= 2
    OBVIOUS
  <1>1. CASE p = NoPlan
    <2>1. p.parts = <<>>
      BY <1>1 DEF NoPlan, Plan
    <2> DEFINE e == <<>>
    <2>2. e \in Seq(Nat) /\ DOMAIN e = {} /\ DOMAIN e = 1..Len(e) /\ Len(e) = 0
      OBVIOUS
    <2> HIDE DEF e
    <2>3. p.parts = e /\ e = <<>>
      BY <2>1 DEF e
    <2> QED
      BY <2>2, <2>3 DEF GroupEnds
  <1>2. CASE p # NoPlan
    <2>1. PICK e \in SeqOf(1..m, m - 1) :
             /\ p = Plan("reduce", e) /\ e # <<>> /\ e[Len(e)] = m
             /\ \A i \in DOMAIN e : /\ GroupStart(e, i) < e[i]
                                    /\ e[i] <= GroupStart(e, i) + FanIn[n]
      BY <1>2 DEF ReductionPlans
    <2>2. p.parts = e
      BY <2>1 DEF Plan
    <2>3. PICK k \in 0..(m - 1) : e \in [1..k -> 1..m]
      BY DEF SeqOf
    <2> HIDE DEF m
    <2>4. k \in Nat /\ k < m
      BY <1>0
    <2>5. /\ e \in Seq(1..m) /\ Len(e) = k /\ DOMAIN e = 1..k
      <3> DEFINE S == 1..m
      <3>1. e \in [1..k -> S]
        BY <2>3
      <3> HIDE DEF S
      <3>2. e \in Seq(S) /\ Len(e) = k /\ DOMAIN e = 1..k
        BY <2>4, <3>1
      <3> QED
        BY <3>2 DEF S
    <2>6. e \in Seq(Nat)
      <3>1. e \in [1..k -> Nat]
        BY <1>0, <2>3
      <3> QED
        BY <2>4, <3>1
    <2>7. k # 0
      <3>1. e # <<>>
        BY <2>1
      <3> QED
        BY <2>5, <3>1, EmptySeq
    <2>8. \A i \in 1..k : e[i] \in 1..m
      BY <2>3
    <2>9. \A i \in 1..k : i # 1 => i - 1 \in 1..k
      BY <2>4
    <2>10. ASSUME NEW i \in DOMAIN e
           PROVE  /\ GroupStart(e, i) \in Nat /\ e[i] \in Nat
                  /\ GroupStart(e, i) < e[i] /\ e[i] <= m
      <3>1. e[i] \in Nat /\ e[i] <= m
        BY <1>0, <2>5, <2>8
      <3>2. GroupStart(e, i) \in Nat
        BY <1>0, <2>5, <2>8, <2>9 DEF GroupStart
      <3> QED
        BY <2>1, <3>1, <3>2
    <2>11. \E i \in DOMAIN e : e[i] # GroupStart(e, i) + 1
      <3> DEFINE T == {i \in 1..k : e[i] # i}
      <3>1. k \in 1..k /\ e[k] = m
        BY <2>1, <2>4, <2>5, <2>7
      <3>2. T \in SUBSET Nat /\ T # {}
        BY <1>0, <2>4, <3>1
      <3>3. PICK i \in T : \A j \in T : i <= j
        BY <3>2, LeastNumber
      <3>4. CASE i = 1
        <4>1. e[i] # GroupStart(e, i) + 1
          BY <3>4 DEF GroupStart
        <4> QED
          BY <2>5, <4>1
      <3>5. CASE i # 1
        <4>1. i - 1 \in 1..k /\ i \in Nat /\ ~(i <= i - 1)
          BY <2>4, <2>9, <3>5
        <4>2. i - 1 \notin T
          BY <3>3, <4>1
        <4>3. e[i - 1] = i - 1
          BY <4>1, <4>2
        <4>4. GroupStart(e, i) + 1 = i
          BY <3>5, <4>1, <4>3 DEF GroupStart
        <4> QED
          BY <2>5, <4>4
      <3> QED
        BY <3>4, <3>5
    <2>12. Len(e) \in Nat
      BY <2>4, <2>5
    <2> QED
      BY <2>1, <2>2, <2>5, <2>6, <2>10, <2>11, <2>12 DEF GroupEnds, m
  <1> QED
    BY <1>1, <1>2

LEMMA GroupFacts ==
    ASSUME NEW S, NEW s \in Seq(S), NEW a \in Nat, NEW b \in Nat, a < b, b <= Len(s)
    PROVE  LET g == SubSeq(s, a + 1, b)
           IN  /\ g \in Seq(S) /\ Len(g) = b - a /\ Len(g) \in Nat \ {0}
               /\ g[1] = s[a + 1] /\ a + 1 \in DOMAIN s
  <1> DEFINE c == a + 1
             g == SubSeq(s, c, b)
             k == Len(s)
  <1>1. k \in Nat /\ DOMAIN s = 1..k /\ \A i \in 1..k : s[i] \in S
    OBVIOUS
  <1>2. c \in Int /\ b \in Int /\ b <= k
    OBVIOUS
  <1> HIDE DEF k
  <1>3. \A i \in c..b : s[i] \in S
    BY <1>1, <1>2
  <1>4. c \in DOMAIN s /\ c <= b /\ b - c + 1 = b - a /\ 1 \in 1..(b - c + 1)
        /\ c + 1 - 1 = c /\ b - a \in Nat \ {0}
    BY <1>1, <1>2
  <1> HIDE DEF c
  <1>5. /\ g \in Seq(S) /\ Len(g) = IF c <= b THEN b - c + 1 ELSE 0
        /\ \A i \in 1..(b - c + 1) : g[i] = s[c + i - 1]
    BY <1>2, <1>3, SubSeqProperties
  <1> HIDE DEF g
  <1>6. Len(g) = b - a /\ g[1] = s[c]
    BY <1>4, <1>5
  <1>7. g \in Seq(S) /\ Len(g) = b - a /\ Len(g) \in Nat \ {0} /\ g[1] = s[c] /\ c \in DOMAIN s
    BY <1>4, <1>5, <1>6
  <1> QED
    BY <1>7 DEF g, c

LEMMA GroupElements ==
    ASSUME NEW S, NEW s \in Seq(S), NEW a \in Nat, NEW c \in Nat, a < c, c <= Len(s)
    PROVE  LET g == SubSeq(s, a + 1, c)
           IN  DOMAIN g = 1..(c - a) /\ \A x \in 1..(c - a) : g[x] = s[a + x]
  <1> DEFINE d == a + 1
             g == SubSeq(s, d, c)
             k == Len(s)
  <1>1. k \in Nat /\ DOMAIN s = 1..k /\ \A i \in 1..k : s[i] \in S /\ c <= k
    OBVIOUS
  <1> HIDE DEF k
  <1>2. d \in Int /\ c \in Int /\ d <= c /\ c - d + 1 = c - a /\ \A i \in d..c : i \in 1..k
    BY <1>1
  <1>3. \A i \in d..c : s[i] \in S
    BY <1>1, <1>2
  <1>4. \A x \in 1..(c - a) : d + x - 1 = a + x
    OBVIOUS
  <1> HIDE DEF d
  <1>5. /\ g \in Seq(S) /\ Len(g) = IF d <= c THEN c - d + 1 ELSE 0
        /\ \A x \in 1..(c - d + 1) : g[x] = s[d + x - 1]
    BY <1>2, <1>3, SubSeqProperties
  <1> HIDE DEF g
  <1>6. Len(g) = c - a /\ DOMAIN g = 1..Len(g)
    BY <1>2, <1>5
  <1>7. DOMAIN g = 1..(c - a) /\ \A x \in 1..(c - a) : g[x] = s[a + x]
    BY <1>2, <1>4, <1>5, <1>6
  <1> QED
    BY <1>7 DEF g, d

IsGroup(s, a, c, g) ==
    a \in Nat /\ c \in Nat /\ a < c /\ c <= Len(s) /\ g = SubSeq(s, a + 1, c)

GroupRun(ts, b, a, c, g) == Joined(ts, g) = Run(b[a], b[c])

(* The inputs of a group, joined, are one run again.                       *)
LEMMA GroupLeaves ==
    ASSUME NEW ts, NEW s \in Seq(TaskId), NEW b, Laid(ts, s, b),
           NEW a, NEW c, NEW g, IsGroup(s, a, c, g)
    PROVE  /\ GroupRun(ts, b, a, c, g)
           /\ c = a + 1 => ts[g[1]].leaves = Run(b[a], b[c])
  <1> DEFINE m == Len(s)
             d == c - a
             h == [x \in 0..d |-> b[a + x]]
             w == [x \in DOMAIN g |-> ts[g[x]].leaves]
  <1>0. a \in Nat /\ c \in Nat /\ a < c /\ c <= Len(s) /\ g = SubSeq(s, a + 1, c)
    BY DEF IsGroup
  <1>1. m \in Nat /\ d \in Nat /\ d # 0 /\ 1 \in 1..d /\ c <= m
    BY <1>0
  <1>2. DOMAIN g = 1..d /\ \A x \in 1..d : g[x] = s[a + x]
    BY <1>0, GroupElements
  <1>3. /\ b \in [0..m -> Nat]
        /\ \A i \in 1..m : b[i - 1] <= b[i] /\ ts[s[i]].leaves = Run(b[i - 1], b[i])
    BY DEF Laid, Tiling
  <1>4. /\ \A x \in 0..d : a + x \in 0..m
        /\ \A x \in 1..d : /\ a + x \in 1..m /\ x \in 0..d /\ x - 1 \in 0..d
                          /\ a + (x - 1) = (a + x) - 1
        /\ a + 0 = a /\ a + d = c /\ 0 \in 0..d /\ d \in 0..d
    BY <1>0, <1>1
  <1> HIDE DEF m, d
  <1>5. /\ h \in [0..d -> Nat]
        /\ \A x \in 1..d : h[x] = b[a + x] /\ h[x - 1] = b[(a + x) - 1]
        /\ h[0] = b[a] /\ h[d] = b[c]
    BY <1>3, <1>4
  <1> HIDE DEF h
  <1>6. \A x \in 1..d : h[x - 1] <= h[x]
    BY <1>3, <1>4, <1>5
  <1>7. Tiling(h, d)
    BY <1>5, <1>6 DEF Tiling
  <1>8. \A x \in 1..d : ts[g[x]].leaves = Run(h[x - 1], h[x])
    BY <1>2, <1>3, <1>4, <1>5
  <1>9. w = [x \in 1..d |-> Run(h[x - 1], h[x])]
    BY <1>2, <1>8
  <1> HIDE DEF w
  <1>10. FlattenSeq(w) = Run(b[a], b[c])
    <2>1. FlattenSeq(w) = Run(h[0], h[d])
      BY <1>1, <1>7, <1>9, RunsFlatten
    <2> QED
      BY <1>5, <2>1
  <1>11. ASSUME c = a + 1 PROVE ts[g[1]].leaves = Run(b[a], b[c])
    <2>1. d = 1 /\ 1 - 1 = 0
      BY <1>0, <1>11 DEF d
    <2> QED
      BY <1>1, <1>5, <1>8, <2>1
  <1> QED
    BY <1>10, <1>11 DEF w, Joined, GroupRun

(* What becomes of a role: the carried items are inputs, the others are    *)
(* the groups of two or more.                                              *)
Levelled(role, n, e, r2) ==
    /\ r2 \in RoleType /\ r2.status = "Reducing" /\ r2.completed = 0
    /\ r2.by = role.by /\ r2.shards = role.shards /\ r2.outputs = role.outputs
    /\ r2.level = role.level /\ r2.inputs = role.inputs /\ r2.launches = role.launches
    /\ DOMAIN r2.items = DOMAIN e
    /\ \A i \in DOMAIN e :
          /\ r2.items[i].carry => /\ r2.items[i].id \in Range(role.inputs)
                                  /\ r2.items[i].id = Groups(role.inputs, e)[i][1]
                                  /\ e[i] = GroupStart(e, i) + 1
          /\ ~r2.items[i].carry =>
                r2.items[i] = [carry |-> FALSE, id |-> <<n, role.level + 1, i>>]
          /\ ~r2.items[i].carry <=> Len(Groups(role.inputs, e)[i]) > 1
    /\ r2.items # <<>> => \E i \in DOMAIN e : ~r2.items[i].carry

LEMMA ReducedRoleFacts ==
    ASSUME NEW role \in RoleType, NEW n \in Role, NEW p,
           GroupEnds(p.parts, Len(role.inputs))
    PROVE  Levelled(role, n, p.parts, ReducedRole(role, n, p))
  <1> DEFINE e == p.parts
             s == role.inputs
             groups == Groups(s, e)
             item(i) == IF Len(groups[i]) = 1 THEN [carry |-> TRUE, id |-> groups[i][1]]
                        ELSE [carry |-> FALSE, id |-> <<n, role.level + 1, i>>]
             items == [i \in DOMAIN groups |-> item(i)]
             r2 == [role EXCEPT !.status = "Reducing", !.completed = 0, !.items = items]
  <1>1. s \in Seq(TaskId) /\ role.level \in Nat
    BY RoleFields
  <1>2. /\ Len(e) \in Nat /\ DOMAIN e = 1..Len(e) /\ DOMAIN groups = DOMAIN e
        /\ e \in Seq(Nat)
    BY DEF GroupEnds, Groups
  <1>3. ReducedRole(role, n, p) = r2
    BY DEF ReducedRole
  <1>4. ASSUME NEW i \in DOMAIN e
        PROVE  /\ groups[i] \in Seq(TaskId) /\ Len(groups[i]) \in Nat \ {0}
               /\ groups[i][1] \in Range(s) /\ groups[i][1] \in TaskId
               /\ e[i] # GroupStart(e, i) + 1 => Len(groups[i]) # 1
    <2> DEFINE a == GroupStart(e, i)
               b == e[i]
               g == SubSeq(s, a + 1, b)
    <2>1. groups[i] = g
      BY DEF Groups
    <2>2. a \in Nat /\ b \in Nat /\ a < b /\ b <= Len(s)
      BY DEF GroupEnds
    <2> HIDE DEF a, b, s, groups
    <2>3. /\ g \in Seq(TaskId) /\ Len(g) = b - a /\ Len(g) \in Nat \ {0}
          /\ g[1] = s[a + 1] /\ a + 1 \in DOMAIN s
      BY <1>1, <2>2, GroupFacts
    <2>4. s[a + 1] \in Range(s) /\ s[a + 1] \in TaskId
      BY <1>1, <2>3 DEF Range
    <2> HIDE DEF g
    <2>5. b # a + 1 => Len(g) # 1
      BY <2>2, <2>3
    <2> QED
      BY <2>1, <2>3, <2>4, <2>5 DEF a, b
  <1> HIDE DEF groups, e, s
  <1>5. ASSUME NEW i \in DOMAIN e
        PROVE  /\ item(i) \in ItemType
               /\ item(i).carry => /\ item(i).id \in Range(s) /\ item(i).id = groups[i][1]
                                   /\ e[i] = GroupStart(e, i) + 1
               /\ ~item(i).carry => item(i) = [carry |-> FALSE, id |-> <<n, role.level + 1, i>>]
               /\ ~item(i).carry <=> Len(groups[i]) > 1
               /\ e[i] # GroupStart(e, i) + 1 => ~item(i).carry
    <2>1. i \in Nat /\ role.level + 1 \in Nat
      BY <1>1, <1>2
    <2>2. <<n, role.level + 1, i>> \in TaskId
      BY <2>1, TaskIdFacts
    <2>3. CASE Len(groups[i]) = 1
      <3> DEFINE x == groups[i][1]
      <3>1. item(i) = [carry |-> TRUE, id |-> x] /\ x \in TaskId /\ x \in Range(s)
        BY <1>4, <2>3
      <3> HIDE DEF x, item
      <3>2. item(i) \in ItemType /\ item(i).carry /\ item(i).id \in Range(s) /\ item(i).id = x
        BY <3>1 DEF ItemType
      <3>3. ~(Len(groups[i]) > 1) /\ e[i] = GroupStart(e, i) + 1
        BY <1>4, <2>3
      <3> QED
        BY <3>2, <3>3 DEF x
    <2>4. CASE Len(groups[i]) # 1
      <3> DEFINE x == <<n, role.level + 1, i>>
      <3>1. item(i) = [carry |-> FALSE, id |-> x] /\ x \in TaskId
        BY <2>2, <2>4
      <3> HIDE DEF x, item
      <3>2. item(i) \in ItemType /\ ~item(i).carry
        BY <3>1 DEF ItemType
      <3>3. Len(groups[i]) > 1
        <4> DEFINE c == Len(groups[i])
        <4>1. c \in Nat \ {0} /\ c # 1
          BY <1>4, <2>4
        <4> HIDE DEF c
        <4>2. c > 1
          BY <4>1
        <4> QED
          BY <4>2 DEF c
      <3> QED
        BY <3>1, <3>2, <3>3 DEF x
    <2> QED
      BY <2>3, <2>4
  <1> HIDE DEF item
  <1>6. items \in Seq(ItemType) /\ DOMAIN items = DOMAIN e /\ \A i \in DOMAIN e : items[i] = item(i)
    <2> DEFINE k == Len(e)
    <2>1. k \in Nat /\ DOMAIN groups = 1..k
      BY <1>2
    <2> HIDE DEF k
    <2>2. items \in [1..k -> ItemType] /\ \A i \in DOMAIN e : items[i] = item(i)
      BY <1>2, <1>5, <2>1
    <2> HIDE DEF items
    <2>3. items \in Seq(ItemType)
      BY <2>1, <2>2
    <2> QED
      BY <1>2, <2>1, <2>2, <2>3
  <1> HIDE DEF items
  <1>7. /\ r2 \in RoleType /\ r2.status = "Reducing" /\ r2.completed = 0
        /\ r2.by = role.by /\ r2.shards = role.shards /\ r2.outputs = role.outputs
        /\ r2.level = role.level /\ r2.inputs = role.inputs
        /\ r2.launches = role.launches /\ r2.items = items
    BY <1>6 DEF RoleType, RoleState
  <1>8. items # <<>> => \E i \in DOMAIN e : ~items[i].carry
    <2>1. SUFFICES ASSUME items # <<>> PROVE \E i \in DOMAIN e : ~items[i].carry
      OBVIOUS
    <2>2. e # <<>>
      <3>1. ASSUME e = <<>> PROVE FALSE
        <4>1. DOMAIN items = {}
          BY <1>6, <3>1
        <4>2. Len(items) \in Nat \ {0} /\ DOMAIN items = 1..Len(items)
          BY <1>6, <2>1, EmptySeq
        <4>3. 1 \in 1..Len(items)
          BY <4>2
        <4> QED
          BY <4>1, <4>2, <4>3
      <3> QED
        BY <3>1
    <2>3. PICK i \in DOMAIN e : e[i] # GroupStart(e, i) + 1
      BY <2>2 DEF GroupEnds, e
    <2> QED
      BY <1>5, <1>6, <2>3
  <1> HIDE DEF r2
  <1>9. Levelled(role, n, e, r2)
    BY <1>5, <1>6, <1>7, <1>8 DEF Levelled, groups, s
  <1> QED
    BY <1>3, <1>9 DEF e

LEMMA ReducedStates ==
    ASSUME NEW rs, NEW ts, NEW D, NEW plan, NEW rs2, NEW ts2,
           Reducing(rs, ts, D, plan, rs2, ts2), NEW n \in Role
    PROVE  /\ n \in D => Levelled(rs[n], n, plan[n].parts, rs2[n])
           /\ n \notin D => rs2[n] = rs[n]
           /\ rs2[n] \in RoleType /\ rs2[n].status = rs[n].status
           /\ rs2[n].by = rs[n].by /\ rs2[n].shards = rs[n].shards
           /\ rs2[n].outputs = rs[n].outputs /\ rs2[n].level = rs[n].level
           /\ rs2[n].inputs = rs[n].inputs /\ rs2[n].launches = rs[n].launches
           /\ rs[n].items # <<>> => rs2[n] = rs[n]
  <1>1. rs[n] \in RoleType /\ LevelInv(rs, ts, n)
    BY DEF Reducing, Inv, Shape, RoleInv
  <1>2. CASE n \in D
    <2>1. /\ rs[n].status = "Reducing" /\ rs[n].items = <<>>
          /\ plan[n] \in ReductionPlans(rs, n) /\ rs2[n] = ReducedRole(rs[n], n, plan[n])
      BY <1>2 DEF Reducing, ReducedRoles
    <2>2. rs[n].inputs \in Seq(TaskId) /\ Len(rs[n].inputs) >= 2
      BY <1>1, <2>1, RoleFields DEF LevelInv
    <2>3. Len(rs[n].inputs) \in Nat
      BY <2>2
    <2>4. GroupEnds(plan[n].parts, Len(rs[n].inputs))
      BY <2>1, <2>2, <2>3, ReductionPlanFacts
    <2>5. Levelled(rs[n], n, plan[n].parts, rs2[n])
      BY <1>1, <2>1, <2>4, ReducedRoleFacts
    <2> QED
      BY <1>2, <2>1, <2>5 DEF Levelled
  <1>3. CASE n \notin D
    <2>1. rs2[n] = rs[n]
      BY <1>3 DEF Reducing, ReducedRoles
    <2> QED
      BY <1>1, <1>3, <2>1
  <1> QED
    BY <1>2, <1>3

NewReduction(ts2, n, t) ==
    /\ ts2[t] \in TaskType(ts2[t].leaves) /\ ts2[t].status = "Open"
    /\ ts2[t].binding = "Reduction" /\ ts2[t].roles = <<n>>

LEMMA ReductionTaskFacts ==
    ASSUME NEW role, NEW n \in Role, NEW p, NEW ts, NEW r2, Levelled(role, n, p.parts, r2)
    PROVE  LET new == ReductionTasks(role, n, p, ts)
           IN  /\ DOMAIN new = {<<n, role.level + 1, i>> :
                                   i \in {k \in DOMAIN r2.items : ~r2.items[k].carry}}
               /\ \A t \in DOMAIN new : NewReduction(new, n, t)
  <1> DEFINE new == ReductionTasks(role, n, p, ts)
             groups == Groups(role.inputs, p.parts)
             W == {k \in DOMAIN groups : Len(groups[k]) > 1}
             leaves(g) == FlattenSeq([x \in DOMAIN g |-> ts[g[x]].leaves])
  <1>1. new = [t \in {<<n, role.level + 1, i>> : i \in W} |->
                  NewTask("Reduction", <<n>>, leaves(groups[t[3]]))]
    BY DEF ReductionTasks
  <1>2. DOMAIN groups = DOMAIN p.parts
    BY DEF Groups
  <1>3. W = {k \in DOMAIN r2.items : ~r2.items[k].carry}
    BY <1>2 DEF Levelled
  <1> HIDE DEF leaves, new, groups, W
  <1>4. ASSUME NEW t \in DOMAIN new PROVE NewReduction(new, n, t)
    <2> DEFINE x == leaves(groups[t[3]])
    <2>1. new[t] = NewTask("Reduction", <<n>>, x)
      BY <1>1
    <2> HIDE DEF x
    <2>2. <<n>> \in Seq(Role)
      OBVIOUS
    <2> QED
      BY <2>1, <2>2 DEF NewReduction, NewTask, TaskType
  <1>5. DOMAIN new = {<<n, role.level + 1, i>> : i \in W}
    BY <1>1
  <1> QED
    BY <1>3, <1>4, <1>5 DEF new

LEMMA ReducedTasks ==
    ASSUME NEW rs, NEW ts, NEW D, NEW plan, NEW rs2, NEW ts2,
           Reducing(rs, ts, D, plan, rs2, ts2)
    PROVE  /\ \A t \in DOMAIN ts : t \in DOMAIN ts2 /\ ts2[t] = ts[t]
           /\ \A n \in D : \A i \in WorkItems(rs2, n) :
                 LET t == <<n, rs[n].level + 1, i>>
                 IN  t \in DOMAIN ts2 /\ t \notin DOMAIN ts /\ NewReduction(ts2, n, t)
           /\ \A t \in DOMAIN ts2 : t \notin DOMAIN ts =>
                 /\ t[1] \in D /\ t[3] \in WorkItems(rs2, t[1]) /\ t \in TaskId
                 /\ t = <<t[1], rs[t[1]].level + 1, t[3]>> /\ NewReduction(ts2, t[1], t)
  <1> DEFINE of == [n \in D |-> ReductionTasks(rs[n], n, plan[n], ts)]
             new == [t \in UNION {DOMAIN of[n] : n \in D} |-> of[t[1]][t]]
             Ids(n) == {<<n, rs[n].level + 1, i>> : i \in WorkItems(rs2, n)}
  <1>1. ts2 = With(ts, new) /\ D \subseteq Role
    BY DEF Reducing, WithReductions
  <1>2. ASSUME NEW n \in D
        PROVE  /\ DOMAIN of[n] = Ids(n) /\ \A t \in Ids(n) : NewReduction(of[n], n, t)
               /\ WorkItems(rs2, n) \subseteq Nat
               /\ rs[n].level \in Nat /\ rs[n].level + 1 \in Nat /\ rs[n].items = <<>>
    <2>1. n \in Role /\ Levelled(rs[n], n, plan[n].parts, rs2[n]) /\ rs2[n] \in RoleType
      BY <1>1, ReducedStates
    <2> DEFINE own == ReductionTasks(rs[n], n, plan[n], ts)
               W == {k \in DOMAIN rs2[n].items : ~rs2[n].items[k].carry}
    <2>2. of[n] = own /\ W = WorkItems(rs2, n)
      BY DEF WorkItems
    <2> HIDE DEF of
    <2>3. DOMAIN of[n] = Ids(n) /\ \A t \in DOMAIN of[n] : NewReduction(of[n], n, t)
      <3>1. /\ DOMAIN own = {<<n, rs[n].level + 1, i>> : i \in W}
            /\ \A t \in DOMAIN own : NewReduction(own, n, t)
        BY <2>1, ReductionTaskFacts
      <3> HIDE DEF own, W
      <3> QED
        BY <2>2, <3>1
    <2>4. rs[n] \in RoleType /\ rs[n].items = <<>>
      BY <2>1 DEF Reducing, Inv, Shape
    <2>5. rs[n].level \in Nat /\ rs2[n].items \in Seq(ItemType)
      BY <2>1, <2>4, RoleFields
    <2>6. WorkItems(rs2, n) \subseteq Nat
      <3>1. DOMAIN rs2[n].items \subseteq Nat
        BY <2>5
      <3> QED
        BY <3>1 DEF WorkItems
    <2> QED
      BY <2>3, <2>4, <2>5, <2>6
  <1>3. ASSUME NEW n \in D, NEW i \in WorkItems(rs2, n)
        PROVE  LET t == <<n, rs[n].level + 1, i>>
               IN  /\ t \in DOMAIN new /\ new[t] = of[n][t] /\ t \in TaskId
                   /\ t[1] = n /\ t[2] = rs[n].level + 1 /\ t[3] = i
                   /\ t \notin DOMAIN ts
    <2> DEFINE l == rs[n].level + 1
               t == <<n, l, i>>
    <2>1. n \in Role /\ l \in Nat /\ i \in Nat
      BY <1>1, <1>2
    <2>2. t \in DOMAIN of[n]
      BY <1>2
    <2>3. t \in DOMAIN new
      BY <2>2
    <2>4. t \in TaskId /\ t[1] = n /\ t[2] = l /\ t[3] = i
      <3> HIDE DEF l
      <3> QED
        BY <2>1, TaskIdFacts
    <2>5. new[t] = of[n][t]
      <3> HIDE DEF of, t
      <3> QED
        BY <2>3, <2>4
    <2>6. t \notin DOMAIN ts
      <3>1. SUFFICES ASSUME t \in DOMAIN ts PROVE FALSE
        OBVIOUS
      <3>2. TaskInv(rs, ts, t)
        BY <3>1 DEF Reducing, Inv
      <3> HIDE DEF t
      <3>3. t[2] <= rs[n].level + 0
        BY <1>2, <2>4, <3>2 DEF TaskInv
      <3>4. rs[n].level \in Nat /\ t[2] = rs[n].level + 1
        BY <1>2, <2>4
      <3> QED
        BY <3>3, <3>4
    <2> HIDE DEF new, of
    <2> QED
      BY <2>3, <2>4, <2>5, <2>6
  <1>4. ASSUME NEW t \in DOMAIN new
        PROVE  /\ t[1] \in D /\ t[3] \in WorkItems(rs2, t[1]) /\ t \in TaskId
               /\ t = <<t[1], rs[t[1]].level + 1, t[3]>> /\ NewReduction(new, t[1], t)
               /\ t \notin DOMAIN ts
    <2>1. PICK n \in D : t \in Ids(n)
      BY <1>2
    <2>2. PICK i \in WorkItems(rs2, n) : t = <<n, rs[n].level + 1, i>>
      BY <2>1
    <2> HIDE DEF new, of
    <2>3. /\ t[1] = n /\ t[3] = i /\ t \in TaskId /\ new[t] = of[n][t] /\ t \notin DOMAIN ts
      BY <1>3, <2>2
    <2>4. NewReduction(new, n, t)
      BY <1>2, <2>1, <2>3 DEF NewReduction
    <2> QED
      BY <2>2, <2>3, <2>4
  <1>5. /\ DOMAIN ts2 = DOMAIN ts \cup DOMAIN new
        /\ \A t \in DOMAIN new : ts2[t] = new[t]
        /\ \A t \in DOMAIN ts : t \notin DOMAIN new => ts2[t] = ts[t]
    <2> HIDE DEF new
    <2> QED
      BY <1>1 DEF With
  <1> HIDE DEF new, of
  <1>6. \A t \in DOMAIN ts : t \in DOMAIN ts2 /\ ts2[t] = ts[t]
    BY <1>4, <1>5
  <1>7. ASSUME NEW t \in DOMAIN ts2, t \notin DOMAIN ts
        PROVE  /\ t[1] \in D /\ t[3] \in WorkItems(rs2, t[1]) /\ t \in TaskId
               /\ t = <<t[1], rs[t[1]].level + 1, t[3]>> /\ NewReduction(ts2, t[1], t)
    <2>1. t \in DOMAIN new /\ ts2[t] = new[t]
      BY <1>5, <1>7
    <2> QED
      BY <1>4, <2>1 DEF NewReduction
  <1>8. ASSUME NEW n \in D, NEW i \in WorkItems(rs2, n)
        PROVE  LET t == <<n, rs[n].level + 1, i>>
               IN  t \in DOMAIN ts2 /\ t \notin DOMAIN ts /\ NewReduction(ts2, n, t)
    <2> DEFINE t == <<n, rs[n].level + 1, i>>
    <2>1. t \in DOMAIN new /\ t[1] = n /\ t \notin DOMAIN ts
      BY <1>3
    <2> HIDE DEF t
    <2>2. t \in DOMAIN ts2 /\ ts2[t] = new[t] /\ NewReduction(new, n, t)
      BY <1>4, <1>5, <2>1
    <2>3. NewReduction(ts2, n, t)
      BY <2>2 DEF NewReduction
    <2> QED
      BY <2>1, <2>2, <2>3 DEF t
  <1> QED
    BY <1>6, <1>7, <1>8

LEMMA ReduceKeepsShape ==
    ASSUME NEW rs, NEW ts, NEW D, NEW plan, NEW rs2, NEW ts2,
           Reducing(rs, ts, D, plan, rs2, ts2)
    PROVE  Shape(rs2, ts2)
  <1>1. rs2 \in [Role -> RoleType]
    <2>1. DOMAIN rs2 = Role /\ rs2 = [n \in Role |-> rs2[n]]
      BY DEF Reducing, ReducedRoles
    <2>2. \A n \in Role : rs2[n] \in RoleType
      BY ReducedStates
    <2> QED
      BY <2>1, <2>2
  <1>2. ASSUME NEW t \in DOMAIN ts2 PROVE t \in TaskId /\ ts2[t] \in TaskType(ts2[t].leaves)
    <2>1. CASE t \in DOMAIN ts
      BY <2>1, ReducedTasks DEF Reducing, Inv, Shape
    <2>2. CASE t \notin DOMAIN ts
      BY <2>2, ReducedTasks DEF NewReduction
    <2> QED
      BY <2>1, <2>2
  <1> QED
    BY <1>1, <1>2 DEF Shape

LEMMA ReduceKeepsRoles ==
    ASSUME NEW rs, NEW ts, NEW D, NEW plan, NEW rs2, NEW ts2,
           Reducing(rs, ts, D, plan, rs2, ts2), NEW n \in Role
    PROVE  RoleInv(rs2, ts2, n)
  <1>1. RoleInv(rs, ts, n)
    BY DEF Reducing, Inv
  <1>2. \A m \in Role :
          /\ rs2[m].status = rs[m].status /\ rs2[m].outputs = rs[m].outputs
          /\ rs2[m].by = rs[m].by /\ rs2[m].shards = rs[m].shards
          /\ rs2[m].launches = rs[m].launches
    BY ReducedStates
  <1>3. \A t \in DOMAIN ts : t \in DOMAIN ts2 /\ ts2[t] = ts[t]
    BY ReducedTasks
  <1>4. LaunchInv(rs2, n)
    BY <1>1, <1>2 DEF RoleInv, LaunchInv
  <1>5. ResultInv(rs2, n)
    BY <1>1, <1>2, RoleDependencies DEF RoleInv, ResultInv, Swallowed
  <1>6. WaitInv(rs2, ts2, n)
    <2>1. WaitInv(rs, ts, n)
      BY <1>1 DEF RoleInv
    <2>2. DoneShards(rs2, ts2, n) = DoneShards(rs, ts, n)
      BY <1>2, <1>3, <2>1 DEF DoneShards, WaitInv
    <2>3. \A k \in 1..rs2[n].shards :
             <<n, 0, k>> \in DOMAIN ts2 /\ ts2[<<n, 0, k>>].binding = "Shard"
      BY <1>2, <1>3, <2>1 DEF WaitInv
    <2>4. rs2[n].status = "Submitted" =>
            LET t == <<rs2[n].by, 0, 1>>
            IN  /\ t \in DOMAIN ts2 /\ ts2[t].status = "Open"
                /\ ts2[t].binding = "Role" /\ n \in Range(ts2[t].roles)
      BY <1>2, <1>3, <2>1 DEF WaitInv
    <2>5. rs2[n].status = "Sharded" =>
            /\ rs2[n].shards > 0
            /\ rs2[n].completed = Cardinality(DoneShards(rs2, ts2, n))
            /\ DoneShards(rs2, ts2, n) # 1..rs2[n].shards
      <3>1. SUFFICES ASSUME rs[n].status = "Sharded"
                     PROVE  /\ rs2[n].shards > 0
                            /\ rs2[n].completed = Cardinality(DoneShards(rs2, ts2, n))
                            /\ DoneShards(rs2, ts2, n) # 1..rs2[n].shards
        BY <1>2
      <3>2. n \notin D
        BY <3>1 DEF Reducing
      <3>3. rs2[n] = rs[n]
        BY <3>2, ReducedStates
      <3> QED
        BY <2>1, <2>2, <3>1, <3>3 DEF WaitInv
    <2> QED
      BY <2>3, <2>4, <2>5 DEF WaitInv
  <1>7. LevelInv(rs2, ts2, n)
    <2>1. LevelInv(rs, ts, n)
      BY <1>1 DEF RoleInv
    <2>2. CASE n \notin D
      <3>1. rs2[n] = rs[n]
        BY <2>2, ReducedStates
      <3>2. WorkItems(rs2, n) = WorkItems(rs, n)
        BY <3>1 DEF WorkItems
      <3>3. DoneItems(rs2, ts2, n) = DoneItems(rs, ts, n)
        BY <1>3, <2>1, <3>1, <3>2 DEF DoneItems, WorkItems, LevelInv
      <3> QED
        BY <1>3, <2>1, <3>1, <3>2, <3>3 DEF LevelInv
    <2>3. CASE n \in D
      <3>1. /\ Levelled(rs[n], n, plan[n].parts, rs2[n])
            /\ rs2[n].outputs = rs[n].outputs /\ rs2[n].inputs = rs[n].inputs
            /\ rs2[n].level = rs[n].level /\ rs2[n].status = "Reducing"
            /\ rs2[n].completed = 0
        BY <2>3, ReducedStates DEF Levelled
      <3>2. Len(rs2[n].inputs) >= 2
        BY <1>2, <2>1, <3>1 DEF LevelInv
      <3>3. Range(rs2[n].outputs) \subseteq DOMAIN ts2 /\ Range(rs2[n].inputs) \subseteq DOMAIN ts2
        BY <1>3, <2>1, <3>1 DEF LevelInv
      <3>4. ASSUME NEW i \in WorkItems(rs2, n)
            PROVE  /\ rs2[n].items[i].id = <<n, rs2[n].level + 1, i>>
                   /\ rs2[n].items[i].id \in DOMAIN ts2
                   /\ ts2[rs2[n].items[i].id].binding = "Reduction"
                   /\ ts2[rs2[n].items[i].id].status = "Open"
        <4> DEFINE t == <<n, rs[n].level + 1, i>>
        <4>1. t \in DOMAIN ts2 /\ NewReduction(ts2, n, t)
          BY <2>3, ReducedTasks
        <4>2. rs2[n].items[i] = [carry |-> FALSE, id |-> t]
          BY <3>1 DEF Levelled, WorkItems
        <4> HIDE DEF t
        <4>3. rs2[n].items[i].id = t
          BY <4>2
        <4> QED
          BY <3>1, <4>1, <4>3 DEF NewReduction, t
      <3>5. ASSUME NEW i \in DOMAIN rs2[n].items
            PROVE  /\ rs2[n].items[i].id \in DOMAIN ts2
                   /\ ~rs2[n].items[i].carry =>
                         /\ rs2[n].items[i].id = <<n, rs2[n].level + 1, i>>
                         /\ ts2[rs2[n].items[i].id].binding = "Reduction"
        <4>1. CASE rs2[n].items[i].carry
          BY <3>1, <3>3, <4>1 DEF Levelled
        <4>2. CASE ~rs2[n].items[i].carry
          BY <3>4, <4>2 DEF WorkItems
        <4> QED
          BY <4>1, <4>2
      <3>6. DoneItems(rs2, ts2, n) = {}
        BY <3>4 DEF DoneItems
      <3>7. Cardinality(DoneItems(rs2, ts2, n)) = 0
        BY <3>6, FS_EmptySet
      <3>8. rs2[n].items # <<>> => WorkItems(rs2, n) # {}
        BY <3>1 DEF Levelled, WorkItems
      <3> QED
        BY <3>1, <3>2, <3>3, <3>5, <3>6, <3>7, <3>8 DEF LevelInv
    <2> QED
      BY <2>2, <2>3
  <1> QED
    BY <1>4, <1>5, <1>6, <1>7 DEF RoleInv

LEMMA ReduceKeepsTasks ==
    ASSUME NEW rs, NEW ts, NEW D, NEW plan, NEW rs2, NEW ts2,
           Reducing(rs, ts, D, plan, rs2, ts2), NEW t \in DOMAIN ts2
    PROVE  TaskInv(rs2, ts2, t)
  <1> DEFINE n == t[1]
  <1>1. \A m \in Role :
          /\ rs2[m].status = rs[m].status /\ rs2[m].shards = rs[m].shards
          /\ rs2[m].by = rs[m].by /\ rs2[m].launches = rs[m].launches
          /\ rs2[m].level = rs[m].level
    BY ReducedStates
  <1>2. CASE t \in DOMAIN ts
    <2>1. ts2[t] = ts[t] /\ TaskInv(rs, ts, t) /\ ts[t].roles \in Seq(Role) /\ t \in TaskId
      BY <1>2, ReducedTasks DEF Reducing, Inv, Shape, TaskType
    <2>2. n \in Role /\ t[2] \in Nat /\ rs[n] \in RoleType
      BY <2>1, TaskIdFacts DEF Reducing, Inv, Shape
    <2>3. \A i \in DOMAIN ts[t].roles : ts[t].roles[i] \in Role
      BY <2>1
    <2>4. \A m \in Range(ts[t].roles) : m \in Role
      BY <2>3 DEF Range
    <2>5. rs[n].items # <<>> => rs2[n] = rs[n]
      BY <2>2, ReducedStates
    <2>6. t[2] <= rs2[n].level + (IF rs2[n].items = <<>> THEN 0 ELSE 1)
      <3> DEFINE l == rs[n].level
      <3>1. l \in Nat /\ rs2[n].level = l
        BY <1>1, <2>2, RoleFields
      <3>2. t[2] <= l + (IF rs[n].items = <<>> THEN 0 ELSE 1)
        BY <2>1 DEF TaskInv
      <3> HIDE DEF l
      <3>3. CASE rs[n].items = <<>>
        BY <2>2, <3>1, <3>2, <3>3
      <3>4. CASE rs[n].items # <<>>
        BY <2>5, <3>1, <3>2, <3>4
      <3> QED
        BY <3>3, <3>4
    <2>7. ts2[t].status = "Uncertain" =>
             \A m \in Range(ts2[t].roles) : rs2[m].status = "Uncertain"
      BY <1>1, <2>1, <2>4 DEF TaskInv
    <2>8. ts2[t].binding = "Role" => ChainInv(rs2, ts2, t)
      <3>1. SUFFICES ASSUME ts[t].binding = "Role" PROVE ChainInv(rs2, ts2, t)
        BY <2>1
      <3>2. ChainInv(rs, ts, t)
        BY <2>1, <3>1 DEF TaskInv
      <3>3. \A i \in DOMAIN ts[t].roles :
               /\ rs2[ts[t].roles[i]].launches = rs[ts[t].roles[i]].launches
               /\ rs2[ts[t].roles[i]].by = rs[ts[t].roles[i]].by
               /\ rs2[ts[t].roles[i]].status = rs[ts[t].roles[i]].status
        BY <1>1, <2>3
      <3> QED
        BY <2>1, <3>2, <3>3 DEF ChainInv
    <2>9. ts2[t].binding = "Reduction" =>
            /\ ts2[t].roles = <<n>> /\ ts2[t].status # "Uncertain"
            /\ ts2[t].status = "Open" =>
                  /\ t[3] \in DOMAIN rs2[n].items
                  /\ rs2[n].items[t[3]] = [carry |-> FALSE, id |-> t]
      <3>1. SUFFICES ASSUME ts[t].binding = "Reduction"
                     PROVE  /\ ts[t].roles = <<n>> /\ ts[t].status # "Uncertain"
                            /\ ts[t].status = "Open" =>
                                  /\ t[3] \in DOMAIN rs2[n].items
                                  /\ rs2[n].items[t[3]] = [carry |-> FALSE, id |-> t]
        BY <2>1
      <3>2. ASSUME ts[t].status = "Open"
            PROVE  /\ t[3] \in DOMAIN rs2[n].items
                   /\ rs2[n].items[t[3]] = [carry |-> FALSE, id |-> t]
        <4>1. /\ t[3] \in DOMAIN rs[n].items
              /\ rs[n].items[t[3]] = [carry |-> FALSE, id |-> t]
          BY <2>1, <3>1, <3>2 DEF TaskInv
        <4>2. DOMAIN <<>> = {}
          OBVIOUS
        <4>3. rs[n].items # <<>>
          BY <4>1, <4>2
        <4> QED
          BY <2>5, <4>1, <4>3
      <3> QED
        BY <2>1, <3>1, <3>2 DEF TaskInv
    <2>10. ts2[t].binding = "Shard" =>
            /\ t[2] = 0 /\ t[3] \in 1..rs2[n].shards /\ ts2[t].roles = <<n>>
            /\ ts2[t].status = "Open" => rs2[n].status \in {"Sharded", "Uncertain"}
      BY <1>1, <2>1, <2>2 DEF TaskInv
    <2>11. rs2[n].launches = 1
      BY <1>1, <2>1, <2>2 DEF TaskInv
    <2> QED
      BY <2>6, <2>7, <2>8, <2>9, <2>10, <2>11 DEF TaskInv
  <1>3. CASE t \notin DOMAIN ts
    <2> DEFINE i == t[3]
    <2>1. /\ n \in D /\ i \in WorkItems(rs2, n) /\ t = <<n, rs[n].level + 1, i>>
          /\ NewReduction(ts2, n, t) /\ n \in Role
      BY <1>3, ReducedTasks DEF Reducing
    <2>2. Levelled(rs[n], n, plan[n].parts, rs2[n])
      BY <2>1, ReducedStates
    <2>3. i \in DOMAIN rs2[n].items /\ ~rs2[n].items[i].carry
      BY <2>1 DEF WorkItems
    <2>4. rs2[n].items[i] = [carry |-> FALSE, id |-> t]
      BY <2>1, <2>2, <2>3 DEF Levelled
    <2>5. rs2[n].items # <<>>
      <3>1. DOMAIN <<>> = {}
        OBVIOUS
      <3> QED
        BY <2>3, <3>1
    <2>6. rs2[n].launches = 1
      <3>1. rs[n].status = "Reducing" /\ LaunchInv(rs, n)
        BY <2>1 DEF Reducing, Inv, RoleInv
      <3> QED
        BY <1>1, <2>1, <3>1 DEF LaunchInv, Early
    <2>7. t[2] <= rs2[n].level + (IF rs2[n].items = <<>> THEN 0 ELSE 1)
      <3>1. rs[n] \in RoleType
        BY <2>1 DEF Reducing, Inv, Shape
      <3>2. rs[n].level \in Nat
        BY <3>1, RoleFields
      <3>3. t[2] = rs[n].level + 1
        BY <2>1
      <3> QED
        BY <1>1, <2>1, <2>5, <3>2, <3>3
    <2> HIDE DEF n, i
    <2> QED
      BY <2>1, <2>3, <2>4, <2>6, <2>7 DEF TaskInv, NewReduction, n, i
  <1> QED
    BY <1>2, <1>3

(* The items of a level carry what its inputs carried, in the same order:  *)
(* u are their objects, carried or made of the groups that end at e.       *)
MadeOf(ts, s, e, ts2, u) ==
    /\ Len(u) = Len(e)
    /\ \A i \in 1..Len(e) :
          LET g == Groups(s, e)[i]
          IN  \/ ts2[u[i]].leaves = Joined(ts, g)
              \/ e[i] = GroupStart(e, i) + 1 /\ ts2[u[i]].leaves = ts[g[1]].leaves

LEMMA LevelTiled ==
    ASSUME NEW ts, NEW ts2, NEW k, NEW s \in Seq(TaskId), Tiled(ts, s, k),
           NEW e, GroupEnds(e, Len(s)), e # <<>>, NEW u, MadeOf(ts, s, e, ts2, u)
    PROVE  Tiled(ts2, u, k)
  <1> DEFINE m == Len(s)
             l == Len(e)
  <1>0. PICK b : Laid(ts, s, b) /\ b[0] = 0 /\ b[m] = k
    BY DEF Tiled
  <1>1. Tiling(b, m) /\ b[0] = 0 /\ b[m] = k
    BY <1>0 DEF Laid
  <1>2. /\ m \in Nat /\ l \in Nat /\ l # 0 /\ DOMAIN e = 1..l
        /\ e[l] = m /\ b \in [0..m -> Nat]
    <2>1. l # 0
      BY EmptySeq DEF GroupEnds
    <2> QED
      BY <1>1, <2>1 DEF GroupEnds, Tiling
  <1>3. \A i \in 1..l : /\ GroupStart(e, i) \in Nat /\ e[i] \in Nat
                        /\ GroupStart(e, i) < e[i] /\ e[i] <= m
    BY <1>2 DEF GroupEnds
  <1>4. ASSUME NEW i \in 1..l PROVE ts2[u[i]].leaves = Run(b[GroupStart(e, i)], b[e[i]])
    <2> DEFINE a == GroupStart(e, i)
               c == e[i]
               g == Groups(s, e)[i]
    <2>1. a \in Nat /\ c \in Nat /\ a < c /\ c <= Len(s)
      BY <1>3
    <2>2. g = SubSeq(s, a + 1, c)
      BY <1>2 DEF Groups
    <2>3. \/ ts2[u[i]].leaves = Joined(ts, g)
          \/ c = a + 1 /\ ts2[u[i]].leaves = ts[g[1]].leaves
      BY DEF MadeOf
    <2> HIDE DEF a, c, g, m, l
    <2>4. /\ Joined(ts, g) = Run(b[a], b[c])
          /\ c = a + 1 => ts[g[1]].leaves = Run(b[a], b[c])
      <3>1. IsGroup(s, a, c, g)
        BY <2>1, <2>2 DEF IsGroup
      <3>2. Laid(ts, s, b)
        BY <1>0
      <3>3. Joined(ts, g) = Run(b[a], b[c])
        <4>1. GroupRun(ts, b, a, c, g)
          BY <3>1, <3>2, GroupLeaves
        <4> QED
          BY <4>1 DEF GroupRun
      <3>4. c = a + 1 => ts[g[1]].leaves = Run(b[a], b[c])
        BY <3>1, <3>2, GroupLeaves
      <3> QED
        BY <3>3, <3>4
    <2>5. ts2[u[i]].leaves = Run(b[a], b[c])
      BY <2>3, <2>4
    <2> QED
      BY <2>5 DEF a, c
  <1> DEFINE h == [i \in 0..l |-> IF i = 0 THEN 0 ELSE b[e[i]]]
  <1> HIDE DEF m, l
  <1>5. \A i \in 1..l : i \in 0..l /\ i - 1 \in 0..l /\ i # 0 /\ (i - 1 = 0 <=> i = 1)
    BY <1>2
  <1>6. /\ h[0] = 0 /\ h[l] = k
        /\ \A i \in 1..l : h[i] = b[e[i]] /\ h[i - 1] = b[GroupStart(e, i)]
    <2>1. 0 \in 0..l /\ l \in 0..l
      BY <1>2
    <2>2. ASSUME NEW i \in 1..l PROVE h[i] = b[e[i]] /\ h[i - 1] = b[GroupStart(e, i)]
      BY <1>1, <1>5 DEF GroupStart
    <2> QED
      BY <1>1, <1>2, <2>1, <2>2
  <1>7. \A i \in 1..l : e[i] \in 0..m /\ GroupStart(e, i) \in 0..m /\ GroupStart(e, i) <= e[i]
    <2> SUFFICES ASSUME NEW i \in 1..l
                 PROVE  e[i] \in 0..m /\ GroupStart(e, i) \in 0..m /\ GroupStart(e, i) <= e[i]
      OBVIOUS
    <2> DEFINE a == GroupStart(e, i)
               c == e[i]
    <2>1. a \in Nat /\ c \in Nat /\ a < c /\ c <= m
      BY <1>3
    <2> HIDE DEF a, c
    <2>2. c \in 0..m /\ a \in 0..m /\ a <= c
      BY <1>2, <2>1
    <2> QED
      BY <2>2 DEF a, c
  <1>8. \A i \in 1..l : h[i - 1] <= h[i]
    BY <1>1, <1>2, <1>6, <1>7, TilingMonotone
  <1>9. h \in [0..l -> Nat]
    <2>1. ASSUME NEW i \in 0..l, i # 0 PROVE b[e[i]] \in Nat
      <3>1. i \in 1..l
        BY <2>1, <1>2
      <3> QED
        BY <1>2, <1>7, <3>1
    <2> QED
      BY <2>1
  <1> HIDE DEF h
  <1>10. Tiling(h, l)
    BY <1>8, <1>9 DEF Tiling
  <1>11. \A i \in 1..l : ts2[u[i]].leaves = Run(h[i - 1], h[i])
    BY <1>4, <1>6
  <1>12. Len(u) = l
    BY DEF l, MadeOf
  <1> QED
    BY <1>6, <1>10, <1>11, <1>12 DEF Tiled, Laid

(* What the reduction of a group is made of.                               *)
LEMMA ReductionLeaves ==
    ASSUME NEW rs, NEW ts, NEW D, NEW plan, NEW rs2, NEW ts2,
           Reducing(rs, ts, D, plan, rs2, ts2), NEW n \in D, NEW i \in WorkItems(rs2, n),
           NEW g, g = Groups(rs[n].inputs, plan[n].parts)[i]
    PROVE  ts2[<<n, rs[n].level + 1, i>>].leaves = Joined(ts, g)
  <1> DEFINE groups == Groups(rs[n].inputs, plan[n].parts)
             t == <<n, rs[n].level + 1, i>>
             leaves(y) == FlattenSeq([x \in DOMAIN y |-> ts[y[x]].leaves])
             own == ReductionTasks(rs[n], n, plan[n], ts)
             of == [q \in D |-> ReductionTasks(rs[q], q, plan[q], ts)]
             new == [q \in UNION {DOMAIN of[q] : q \in D} |-> of[q[1]][q]]
  <1>1. t \in DOMAIN ts2 /\ t \notin DOMAIN ts
    BY ReducedTasks
  <1>2. ts2 = With(ts, new) /\ D \subseteq Role
    BY DEF Reducing, WithReductions
  <1>3. of[n] = own /\ t[1] = n /\ t[3] = i
    OBVIOUS
  <1>4. own = [q \in {<<n, rs[n].level + 1, y>> : y \in {z \in DOMAIN groups : Len(groups[z]) > 1}} |->
                  NewTask("Reduction", <<n>>, leaves(groups[q[3]]))]
    BY DEF ReductionTasks
  <1>5. t \in DOMAIN own
    <2>1. Levelled(rs[n], n, plan[n].parts, rs2[n])
      BY <1>2, ReducedStates
    <2>2. i \in DOMAIN groups /\ Len(groups[i]) > 1
      BY <2>1 DEF Levelled, WorkItems, Groups
    <2> HIDE DEF groups, leaves, own
    <2> QED
      BY <1>4, <2>2
  <1>6. own[t] = NewTask("Reduction", <<n>>, leaves(groups[i]))
    <2> HIDE DEF groups, leaves, own
    <2>1. own[t] = NewTask("Reduction", <<n>>, leaves(groups[t[3]]))
      BY <1>4, <1>5
    <2> QED
      BY <1>3, <2>1
  <1> HIDE DEF own, of, t
  <1>7. t \in DOMAIN new /\ new[t] = own[t]
    BY <1>3, <1>5
  <1> HIDE DEF new
  <1>8. ts2[t] = new[t]
    BY <1>1, <1>2, <1>7 DEF With
  <1> HIDE DEF leaves, groups
  <1>9. ts2[t].leaves = leaves(groups[i])
    BY <1>6, <1>7, <1>8 DEF NewTask
  <1> QED
    BY <1>9 DEF leaves, groups, t, Joined

LEMMA ReduceKeepsOrder ==
    ASSUME NEW rs, NEW ts, NEW D, NEW plan, NEW rs2, NEW ts2,
           Reducing(rs, ts, D, plan, rs2, ts2)
    PROVE  OrderStays(rs, ts, rs2, ts2)
  <1>1. SUFFICES ASSUME Ordered(rs, ts), NEW n \in Role
                 PROVE  OrderInv(rs2[n], n, ts2)
    BY DEF OrderStays, Ordered
  <1>2. SameLeaves(ts, ts2)
    BY ReducedTasks DEF SameLeaves
  <1>3. OrderInv(rs[n], n, ts) /\ Inv(rs, ts)
    BY <1>1 DEF Ordered, Reducing
  <1>4. OrderInv(rs[n], n, ts2)
    BY <1>2, <1>3, OrderKept
  <1>5. CASE n \notin D
    BY <1>4, <1>5, ReducedStates
  <1>6. CASE n \in D
    <2> DEFINE e == plan[n].parts
               s == rs[n].inputs
               k == rs[n].shards
               items == rs2[n].items
               ids == [i \in DOMAIN items |-> items[i].id]
    <2>1. /\ Levelled(rs[n], n, e, rs2[n]) /\ rs2[n].status = "Reducing"
          /\ rs2[n].inputs = s /\ rs2[n].shards = k /\ rs2[n] \in RoleType
          /\ rs2[n].outputs = rs[n].outputs
      BY <1>6, ReducedStates DEF Levelled
    <2>2. /\ rs[n].status = "Reducing" /\ plan[n] \in ReductionPlans(rs, n)
          /\ rs[n] \in RoleType /\ LevelInv(rs, ts, n)
      BY <1>3, <1>6 DEF Reducing, Inv, Shape, RoleInv
    <2>3. s \in Seq(TaskId) /\ Len(s) >= 2 /\ Len(s) \in Nat
      BY <2>2, RoleFields DEF LevelInv
    <2>4. GroupEnds(e, Len(s))
      BY <2>2, <2>3, ReductionPlanFacts
    <2>5. Tiled(ts, s, k) /\ Tiled(ts2, s, k)
      BY <1>3, <1>4, <2>2 DEF OrderInv
    <2>6. ASSUME items # <<>> PROVE Tiled(ts2, ids, k)
      <3>1. items \in Seq(ItemType) /\ DOMAIN items = DOMAIN e
        BY <2>1 DEF Levelled, RoleType
      <3>2. /\ DOMAIN e = 1..Len(e) /\ Len(e) \in Nat
        BY <2>4 DEF GroupEnds
      <3>3. ids \in Seq(TaskId) /\ Len(ids) = Len(e) /\ e # <<>>
        <4> DEFINE l == Len(e)
        <4> HIDE DEF items
        <4>1. DOMAIN items = 1..l /\ l \in Nat /\ \A i \in 1..l : items[i] \in ItemType
          BY <3>1, <3>2
        <4> HIDE DEF l
        <4>2. ids \in [1..l -> TaskId]
          BY <4>1 DEF ItemType
        <4>3. ids \in Seq(TaskId) /\ Len(ids) = l
          BY <4>1, <4>2
        <4>4. e # <<>>
          <5>1. DOMAIN <<>> = {}
            OBVIOUS
          <5>2. items # <<>>
            BY <2>6
          <5>3. Len(items) # 0
            BY <3>1, <5>2, EmptySeq
          <5>4. 1 \in DOMAIN items
            BY <3>1, <5>3
          <5> QED
            BY <3>1, <5>1, <5>4
        <4> QED
          BY <4>3, <4>4 DEF l
      <3>4. ASSUME NEW i \in 1..Len(e)
            PROVE  LET g == Groups(s, e)[i]
                   IN  \/ ts2[ids[i]].leaves = Joined(ts, g)
                       \/ e[i] = GroupStart(e, i) + 1 /\ ts2[ids[i]].leaves = ts[g[1]].leaves
        <4> DEFINE g == Groups(s, e)[i]
        <4>1. i \in DOMAIN e /\ ids[i] = items[i].id /\ i \in DOMAIN items
          BY <3>1, <3>2
        <4>2. CASE items[i].carry
          <5>1. items[i].id \in Range(s) /\ items[i].id = g[1] /\ e[i] = GroupStart(e, i) + 1
            BY <2>1, <4>1, <4>2 DEF Levelled
          <5>2. Range(s) \subseteq DOMAIN ts
            BY <2>2 DEF LevelInv
          <5> QED
            BY <1>2, <4>1, <5>1, <5>2 DEF SameLeaves
        <4>3. CASE ~items[i].carry
          <5>1. i \in WorkItems(rs2, n)
            BY <4>1, <4>3 DEF WorkItems
          <5>2. items[i] = [carry |-> FALSE, id |-> <<n, rs[n].level + 1, i>>]
            BY <2>1, <4>1, <4>3 DEF Levelled
          <5>3. ids[i] = <<n, rs[n].level + 1, i>>
            BY <4>1, <5>2
          <5> HIDE DEF ids, g
          <5>4. ts2[<<n, rs[n].level + 1, i>>].leaves = Joined(ts, g)
            BY <1>6, <5>1, ReductionLeaves DEF g
          <5>5. ts2[ids[i]].leaves = Joined(ts, g)
            BY <5>3, <5>4
          <5> QED
            BY <5>5 DEF g
        <4> QED
          BY <4>2, <4>3
      <3> HIDE DEF ids, e, s, k
      <3>5. MadeOf(ts, s, e, ts2, ids)
        BY <3>3, <3>4 DEF MadeOf
      <3> QED
        BY <2>3, <2>4, <2>5, <3>3, <3>5, LevelTiled
    <2>7. \A i \in 1..rs2[n].shards : ts2[<<n, 0, i>>].leaves = <<i>>
      BY <1>4, <2>1 DEF OrderInv
    <2> QED
      BY <2>1, <2>5, <2>6, <2>7 DEF OrderInv
  <1> QED
    BY <1>5, <1>6

LEMMA ReduceSound ==
    ASSUME NEW rs, NEW ts, NEW D, NEW plan, NEW rs2, NEW ts2,
           Reducing(rs, ts, D, plan, rs2, ts2)
    PROVE  /\ Inv(rs2, ts2) /\ RolesStay(rs, rs2) /\ TasksStay(ts, ts2)
           /\ OrderStays(rs, ts, rs2, ts2)
  <1>1. RolesStay(rs, rs2)
    BY ReducedStates DEF RolesStay
  <1>2. TasksStay(ts, ts2)
    BY ReducedTasks DEF TasksStay
  <1> QED
    BY <1>1, <1>2, ReduceKeepsShape, ReduceKeepsRoles, ReduceKeepsTasks, ReduceKeepsOrder
    DEF Inv

-----------------------------------------------------------------------------
(* The handlers.                                                           *)

LEMMA PlansFacts ==
    ASSUME NEW rs, NEW R, NEW D, NEW plan \in Plans(rs, R, D)
    PROVE  /\ \A n \in R : plan[n] \in RolePlans(rs, n)
           /\ \A n \in D : n \notin R => plan[n] \in ReductionPlans(rs, n)
  <1> DEFINE answers(n) == IF n \in R THEN RolePlans(rs, n) ELSE ReductionPlans(rs, n)
  <1>1. \A n \in R \cup D : plan[n] \in answers(n)
    BY DEF Plans
  <1> QED
    BY <1>1

LEMMA ReadyFacts ==
    ASSUME NEW rs, NEW j
    PROVE  /\ ReadyRoles(rs, j) \subseteq Role
           /\ \A n \in ReadyRoles(rs, j) : IsReady(rs, n)
  BY DEF ReadyRoles, RolesOf, IsReady

LEMMA MaterializeSound ==
    ASSUME NEW rs, NEW ts, NEW R \in SUBSET Role, NEW plan, Inv(rs, ts),
           \A n \in R : IsReady(rs, n) /\ plan[n] \in RolePlans(rs, n),
           Materialize(rs, ts, R, plan), failed \in BOOLEAN
    PROVE  /\ Inv(roles', tasks') /\ failed' \in BOOLEAN
           /\ RolesStay(rs, roles') /\ TasksStay(ts, tasks')
           /\ OrderStays(rs, ts, roles', tasks')
  <1> DEFINE L == Launched(R, plan)
  <1>1. L \subseteq R
    BY DEF Launched
  <1>2. /\ roles' = [n \in Role |-> MaterializedRole(rs, L, plan, n)]
        /\ tasks' = With(ts, RoleTasks(L, plan))
        /\ failed' \in BOOLEAN
    BY DEF Materialize
  <1> HIDE DEF L
  <1>3. Launching(rs, ts, L, plan, roles', tasks')
    BY <1>1, <1>2 DEF Launching
  <1> QED
    BY <1>2, <1>3, LaunchSound

LEMMA IdleFields ==
    ASSUME NEW st \in RoleState
    PROVE  /\ Idle(st) \in RoleType /\ Idle(st).status = st /\ Idle(st).by = 0
           /\ Idle(st).shards = 0 /\ Idle(st).outputs = <<>> /\ Idle(st).level = 0
           /\ Idle(st).inputs = <<>> /\ Idle(st).items = <<>> /\ Idle(st).launches = 0
           /\ Idle(st).completed = 0
  BY DEF Idle, RoleType

(* A role nothing is known of yet.                                         *)
LEMMA IdleRole ==
    ASSUME NEW rs, NEW ts, NEW n \in Role, NEW st \in {"Absent", "Waiting"},
           rs[n] = Idle(st)
    PROVE  /\ ResultInv(rs, n) /\ WaitInv(rs, ts, n) /\ LevelInv(rs, ts, n)
           /\ rs[n].status = st /\ rs[n].launches = 0 /\ rs[n].by = 0
           /\ rs[n].shards = 0 /\ rs[n] \in RoleType
  <1>1. st \in RoleState
    BY DEF RoleState
  <1>2. /\ rs[n] \in RoleType /\ rs[n].status = st /\ rs[n].by = 0
        /\ rs[n].shards = 0 /\ rs[n].outputs = <<>> /\ rs[n].level = 0
        /\ rs[n].inputs = <<>> /\ rs[n].items = <<>> /\ rs[n].launches = 0
    BY <1>1, IdleFields
  <1>3. ResultInv(rs, n)
    BY <1>2 DEF ResultInv
  <1>4. WaitInv(rs, ts, n)
    <2>1. 1..0 = {}
      OBVIOUS
    <2> QED
      BY <1>2, <2>1 DEF WaitInv
  <1>5. LevelInv(rs, ts, n)
    <2>1. DOMAIN <<>> = {}
      OBVIOUS
    <2>2. Range(<<>>) = {}
      BY <2>1 DEF Range
    <2> QED
      BY <1>2, <2>1, <2>2 DEF LevelInv
  <1> QED
    BY <1>2, <1>3, <1>4, <1>5

LEMMA SubmitRecorded ==
    ASSUME NEW j, JobsInv, ~Submitted(j), NEW rs,
           rs = [n \in Role |-> IF JobOf[n] = j THEN Idle("Waiting") ELSE roles[n]]
    PROVE  /\ Inv(rs, tasks) /\ RolesStay(roles, rs)
           /\ OrderStays(roles, tasks, rs, tasks)
  <1>1. PICK a \in Role : JobOf[a] = j /\ roles[a].status = "Absent"
    BY DEF Submitted, RolesOf
  <1>2. ASSUME NEW n \in Role, JobOf[n] = j
        PROVE  /\ roles[n].status = "Absent" /\ roles[n].launches = 0
               /\ rs[n] = Idle("Waiting")
    <2>1. LaunchInv(roles, n)
      BY DEF JobsInv, Inv, RoleInv
    <2> QED
      BY <1>1, <1>2, <2>1 DEF LaunchInv, Early
  <1>3. \A n \in Role : JobOf[n] # j => rs[n] = roles[n]
    OBVIOUS
  <1>4. \A n \in Role : roles[n].launches = 1 \/ roles[n].status # "Absent" => rs[n] = roles[n]
    BY <1>2, <1>3
  <1>5. ASSUME NEW n \in Role, JobOf[n] = j
        PROVE  /\ ResultInv(rs, n) /\ WaitInv(rs, tasks, n) /\ LevelInv(rs, tasks, n)
               /\ rs[n].status = "Waiting" /\ rs[n].launches = 0 /\ rs[n].by = 0
               /\ rs[n].shards = 0 /\ rs[n] \in RoleType
    <2> DEFINE st == "Waiting"
    <2>1. st \in {"Absent", "Waiting"} /\ rs[n] = Idle(st)
      BY <1>2, <1>5
    <2> HIDE DEF st
    <2>2. /\ ResultInv(rs, n) /\ WaitInv(rs, tasks, n) /\ LevelInv(rs, tasks, n)
          /\ rs[n].status = st /\ rs[n].launches = 0 /\ rs[n].by = 0
          /\ rs[n].shards = 0 /\ rs[n] \in RoleType
      BY <2>1, IdleRole
    <2> QED
      BY <2>2 DEF st
  <1>6. Shape(rs, tasks)
    <2>1. Shape(roles, tasks)
      BY DEF JobsInv, Inv
    <2>2. \A n \in Role : rs[n] \in RoleType
      BY <1>3, <1>5, <2>1 DEF Shape
    <2>3. rs = [n \in Role |-> rs[n]]
      OBVIOUS
    <2> HIDE DEF JobsInv
    <2>4. rs \in [Role -> RoleType]
      BY <2>2, <2>3
    <2> QED
      BY <2>1, <2>4 DEF Shape
  <1>7. ASSUME NEW n \in Role PROVE RoleInv(rs, tasks, n)
    <2>1. RoleInv(roles, tasks, n)
      BY DEF JobsInv, Inv
    <2>2. CASE JobOf[n] = j
      <3>1. LaunchInv(rs, n)
        BY <1>5, <2>2 DEF LaunchInv, Early
      <3> QED
        BY <1>5, <2>2, <3>1 DEF RoleInv
    <2>3. CASE JobOf[n] # j
      <3>1. rs[n] = roles[n]
        BY <1>3, <2>3
      <3>2. LaunchInv(rs, n)
        BY <1>3, <2>1, <2>3, <3>1 DEF RoleInv, LaunchInv
      <3>3. ResultInv(rs, n)
        <4>1. ResultInv(roles, n)
          BY <2>1 DEF RoleInv
        <4>2. (rs[n].status = "Completed" /\ rs[n].outputs = <<>>) => Swallowed(rs, n)
          BY <1>4, <3>1, <4>1 DEF ResultInv, Swallowed
        <4>3. (rs[n].launches > 0 /\ rs[n].by \in {0, n}) =>
                \A d \in Range(DependsOn[n]) :
                    rs[d].status = "Completed" /\ rs[d].outputs # <<>>
          BY <1>4, <3>1, <4>1, RoleDependencies DEF ResultInv
        <4> QED
          BY <4>2, <4>3 DEF ResultInv
      <3>4. WaitInv(rs, tasks, n)
        BY <2>1, <3>1 DEF RoleInv, WaitInv, DoneShards
      <3>5. LevelInv(rs, tasks, n)
        BY <2>1, <3>1 DEF RoleInv, LevelInv, DoneItems, WorkItems
      <3> QED
        BY <3>2, <3>3, <3>4, <3>5 DEF RoleInv
    <2> QED
      BY <2>2, <2>3
  <1>8. ASSUME NEW t \in DOMAIN tasks PROVE TaskInv(rs, tasks, t)
    <2>1. /\ TaskInv(roles, tasks, t) /\ t[1] \in Role /\ tasks[t].roles \in Seq(Role)
      BY TaskIdFacts DEF JobsInv, Inv, Shape, TaskType
    <2>2. rs[t[1]] = roles[t[1]]
      BY <1>4, <2>1 DEF TaskInv
    <2>3. \A i \in DOMAIN tasks[t].roles : tasks[t].roles[i] \in Role
      BY <2>1
    <2>4. tasks[t].status = "Uncertain" =>
             \A m \in Range(tasks[t].roles) : rs[m].status = "Uncertain"
      BY <1>4, <2>1, <2>3 DEF TaskInv, Range
    <2>5. tasks[t].binding = "Role" => ChainInv(rs, tasks, t)
      <3>1. SUFFICES ASSUME tasks[t].binding = "Role" PROVE ChainInv(rs, tasks, t)
        OBVIOUS
      <3>2. ChainInv(roles, tasks, t)
        BY <2>1, <3>1 DEF TaskInv
      <3>3. \A i \in DOMAIN tasks[t].roles : rs[tasks[t].roles[i]] = roles[tasks[t].roles[i]]
        BY <1>4, <2>3, <3>2 DEF ChainInv
      <3> QED
        BY <3>2, <3>3 DEF ChainInv
    <2> QED
      BY <2>1, <2>2, <2>4, <2>5 DEF TaskInv
  <1>9. RolesStay(roles, rs)
    BY <1>4 DEF RolesStay
  <1>10. OrderStays(roles, tasks, rs, tasks)
    <2>1. ASSUME NEW n \in Role, JobOf[n] = j PROVE OrderInv(rs[n], n, tasks)
      <3>1. rs[n].status = "Waiting" /\ rs[n].shards = 0
        <4>1. "Waiting" \in RoleState
          BY DEF RoleState
        <4> QED
          BY <1>2, <2>1, <4>1, IdleFields
      <3>2. 1..0 = {}
        OBVIOUS
      <3> QED
        BY <3>1, <3>2 DEF OrderInv
    <2> QED
      BY <1>3, <2>1 DEF OrderStays, Ordered
  <1> QED
    BY <1>6, <1>7, <1>8, <1>9, <1>10 DEF Inv

Sound ==
    /\ JobsInv' /\ RolesStay(roles, roles') /\ TasksStay(tasks, tasks')
    /\ OrderStays(roles, tasks, roles', tasks')

LEMMA StayTransitive ==
    /\ \A a, b, c : RolesStay(a, b) /\ RolesStay(b, c) => RolesStay(a, c)
    /\ \A a, b, c : TasksStay(a, b) /\ TasksStay(b, c) => TasksStay(a, c)
    /\ \A a, t, b, u, c, v :
          OrderStays(a, t, b, u) /\ OrderStays(b, u, c, v) => OrderStays(a, t, c, v)
  <1>1. ASSUME NEW a, NEW b, NEW c, RolesStay(a, b), RolesStay(b, c) PROVE RolesStay(a, c)
    BY <1>1 DEF RolesStay
  <1>2. ASSUME NEW a, NEW b, NEW c, TasksStay(a, b), TasksStay(b, c) PROVE TasksStay(a, c)
    BY <1>2 DEF TasksStay
  <1>3. \A a, t, b, u, c, v :
          OrderStays(a, t, b, u) /\ OrderStays(b, u, c, v) => OrderStays(a, t, c, v)
    BY DEF OrderStays
  <1> QED
    BY <1>1, <1>2, <1>3

(* A handler that records its change as rs and ts and then materializes    *)
(* the roles of job j that are ready.                                      *)
LEMMA RecordedThenMaterialized ==
    ASSUME JobsInv, NEW rs, NEW ts, NEW j, Inv(rs, ts),
           RolesStay(roles, rs), TasksStay(tasks, ts), OrderStays(roles, tasks, rs, ts),
           NEW plan \in Plans(rs, ReadyRoles(rs, j), {}),
           Materialize(rs, ts, ReadyRoles(rs, j), plan)
    PROVE  Sound
  <1> DEFINE R == ReadyRoles(rs, j)
  <1>1. R \in SUBSET Role /\ \A n \in R : IsReady(rs, n) /\ plan[n] \in RolePlans(rs, n)
    BY ReadyFacts, PlansFacts
  <1>2. Materialize(rs, ts, R, plan) /\ failed \in BOOLEAN
    BY DEF JobsInv
  <1> HIDE DEF R
  <1>3. /\ Inv(roles', tasks') /\ failed' \in BOOLEAN
        /\ RolesStay(rs, roles') /\ TasksStay(ts, tasks')
        /\ OrderStays(rs, ts, roles', tasks')
    BY <1>1, <1>2, MaterializeSound
  <1> QED
    BY <1>3, StayTransitive DEF Sound, JobsInv

LEMMA SubmitJobStep ==
    ASSUME JobsInv, NEW j \in Job, SubmitJob(j)
    PROVE  Sound
  <1> DEFINE rs == [n \in Role |-> IF JobOf[n] = j THEN Idle("Waiting") ELSE roles[n]]
  <1>1. PICK plan \in Plans(rs, ReadyRoles(rs, j), {}) :
           Materialize(rs, tasks, ReadyRoles(rs, j), plan)
    BY DEF SubmitJob
  <1>2. ~Submitted(j)
    BY DEF SubmitJob
  <1>3. Inv(rs, tasks) /\ RolesStay(roles, rs) /\ OrderStays(roles, tasks, rs, tasks)
    BY <1>2, SubmitRecorded
  <1>4. TasksStay(tasks, tasks)
    BY DEF TasksStay
  <1> HIDE DEF rs
  <1> QED
    BY <1>1, <1>3, <1>4, RecordedThenMaterialized

(* complete_execution records the commit of t.                             *)
Committed(ts, t, ts2) ==
    /\ t \in DOMAIN ts /\ ts[t].status = "Open" /\ DOMAIN ts2 = DOMAIN ts
    /\ ts2[t] \in TaskType(ts2[t].leaves) /\ ts2[t].status = "Completed"
    /\ ts2[t].binding = ts[t].binding /\ ts2[t].roles = ts[t].roles
    /\ ts2[t].leaves = ts[t].leaves
    /\ \A u \in DOMAIN ts : u # t => ts2[u] = ts[u]

LEMMA CommitsFacts ==
    ASSUME JobsInv, NEW t \in DOMAIN tasks, tasks[t].status = "Open"
    PROVE  Committed(tasks, t, Commits(t)) /\ TasksStay(tasks, Commits(t))
  <1> DEFINE ts2 == Commits(t)
             x == tasks[t]
             y == [x EXCEPT !.status = "Completed"]
  <1>1. x \in TaskType(x.leaves)
    BY DEF JobsInv, Inv, Shape
  <1>2. /\ DOMAIN ts2 = DOMAIN tasks /\ ts2[t] = y
        /\ \A u \in DOMAIN tasks : u # t => ts2[u] = tasks[u]
    BY DEF Commits
  <1> HIDE DEF ts2, x
  <1>3. /\ y.status = "Completed" /\ y.binding = x.binding /\ y.roles = x.roles
        /\ y.leaves = x.leaves /\ y \in TaskType(x.leaves)
    BY <1>1 DEF TaskType
  <1> HIDE DEF y
  <1>4. Committed(tasks, t, ts2)
    BY <1>2, <1>3 DEF Committed, x
  <1>5. TasksStay(tasks, ts2)
    BY <1>2 DEF TasksStay
  <1> QED
    BY <1>4, <1>5 DEF ts2

LEMMA ChainKept ==
    ASSUME NEW rs, NEW ts, NEW rs2, NEW ts2, NEW t, ChainInv(rs, ts, t),
           ts2[t].roles = ts[t].roles,
           \A i \in DOMAIN ts[t].roles :
              /\ rs2[ts[t].roles[i]].launches = 1 /\ rs2[ts[t].roles[i]].by = t[1]
              /\ ts2[t].status = "Open" => rs2[ts[t].roles[i]].status = "Submitted"
    PROVE  ChainInv(rs2, ts2, t)
  <1> DEFINE chain == ts[t].roles
  <1>1. /\ t = <<t[1], 0, 1>> /\ chain # <<>> /\ chain[1] = t[1]
        /\ \A i \in DOMAIN chain : i # Len(chain) =>
              /\ chain[i] \notin OutputRoles
              /\ Consumers(chain[i]) = {chain[i + 1]}
              /\ chain[i + 1] # t[1]
    BY DEF ChainInv
  <1>2. /\ ts2[t].roles = chain
        /\ \A i \in DOMAIN chain :
              /\ rs2[chain[i]].launches = 1 /\ rs2[chain[i]].by = t[1]
              /\ ts2[t].status = "Open" => rs2[chain[i]].status = "Submitted"
    OBVIOUS
  <1> HIDE DEF chain
  <1> QED
    BY <1>1, <1>2, Zenon DEF ChainInv

LEMMA ChainHead ==
    ASSUME NEW rs, NEW ts, NEW t, ChainInv(rs, ts, t), ts[t].roles \in Seq(Role)
    PROVE  ts[t].status = "Open" => rs[t[1]].status = "Submitted"
  <1> DEFINE chain == ts[t].roles
  <1>1. chain \in Seq(Role) /\ chain # <<>> /\ chain[1] = t[1]
    BY DEF ChainInv
  <1>2. \A i \in DOMAIN chain : ts[t].status = "Open" => rs[chain[i]].status = "Submitted"
    BY DEF ChainInv
  <1> HIDE DEF chain
  <1>3. Len(chain) \in Nat \ {0} /\ DOMAIN chain = 1..Len(chain)
    BY <1>1, EmptySeq
  <1>4. 1 \in DOMAIN chain
    BY <1>3
  <1> QED
    BY <1>1, <1>2, <1>4

(* A commit that changes only the role of its task, a shard or reduction.  *)
OneRole(rs, n, r) ==
    /\ r \in RoleType
    /\ r.by = rs[n].by /\ r.shards = rs[n].shards /\ r.launches = rs[n].launches
    /\ rs[n].status \in {"Sharded", "Reducing", "Uncertain"}
    /\ rs[n].status = "Uncertain" => r = rs[n]
    /\ r.status \notin Early
    /\ r.status = "Completed" => r.outputs # <<>>

OneCommit(rs, ts, t, n, r, rs2, ts2) ==
    /\ Inv(rs, ts) /\ Committed(ts, t, ts2) /\ ts[t].binding # "Role" /\ n = t[1]
    /\ rs2 = [rs EXCEPT ![n] = r] /\ OneRole(rs, n, r)
    /\ WaitInv(rs2, ts2, n) /\ LevelInv(rs2, ts2, n)
    /\ \A u \in DOMAIN ts : u[1] = n => TaskInv(rs2, ts2, u)

LEMMA CommitOne ==
    ASSUME NEW rs, NEW ts, NEW t, NEW n, NEW r, NEW rs2, NEW ts2,
           OneCommit(rs, ts, t, n, r, rs2, ts2)
    PROVE  Inv(rs2, ts2) /\ RolesStay(rs, rs2)
  <1>0. /\ Inv(rs, ts) /\ Committed(ts, t, ts2) /\ ts[t].binding # "Role" /\ n = t[1]
        /\ rs2 = [rs EXCEPT ![n] = r] /\ OneRole(rs, n, r)
        /\ WaitInv(rs2, ts2, n) /\ LevelInv(rs2, ts2, n)
        /\ \A u \in DOMAIN ts : u[1] = n => TaskInv(rs2, ts2, u)
    BY DEF OneCommit
  <1> USE <1>0
  <1>1. n \in Role /\ t \in TaskId /\ Shape(rs, ts) /\ rs \in [Role -> RoleType]
    BY TaskIdFacts DEF Committed, Inv, Shape
  <1>2. rs2[n] = r /\ \A m \in Role : m # n => rs2[m] = rs[m]
    BY <1>1
  <1>3. \A m \in Role : /\ rs2[m].by = rs[m].by /\ rs2[m].shards = rs[m].shards
                        /\ rs2[m].launches = rs[m].launches
    BY <1>2 DEF OneRole
  <1>4. Shape(rs2, ts2)
    <2>1. rs2 \in [Role -> RoleType]
      BY <1>1 DEF OneRole
    <2>2. \A u \in DOMAIN ts2 : ts2[u] \in TaskType(ts2[u].leaves)
      BY <1>1 DEF Committed, Shape
    <2> QED
      BY <1>1, <2>1, <2>2 DEF Shape, Committed
  <1>5. ASSUME NEW m \in Role PROVE RoleInv(rs2, ts2, m)
    <2>1. RoleInv(rs, ts, m) /\ LaunchInv(rs, n)
      BY <1>1 DEF Inv, RoleInv
    <2>2. LaunchInv(rs2, m)
      <3>1. rs[n].status \notin Early /\ rs[n].launches = 1
        BY <2>1 DEF LaunchInv, Early, OneRole
      <3>2. \A x \in Role : rs2[x].status = "Absent" <=> rs[x].status = "Absent"
        BY <1>2, <3>1 DEF Early, OneRole
      <3> QED
        BY <1>2, <1>3, <2>1, <3>1, <3>2 DEF RoleInv, LaunchInv, OneRole
    <2>3. ResultInv(rs2, m)
      <3>1. ResultInv(rs, m)
        BY <2>1 DEF RoleInv
      <3>2. \A x \in Role : rs[x].status = "Completed" => rs2[x] = rs[x]
        BY <1>2 DEF OneRole
      <3>3. (rs2[m].status = "Completed" /\ rs2[m].outputs = <<>>) => Swallowed(rs2, m)
        BY <1>2, <1>3, <3>1 DEF ResultInv, Swallowed, OneRole
      <3>4. (rs2[m].launches > 0 /\ rs2[m].by \in {0, m}) =>
              \A d \in Range(DependsOn[m]) :
                  rs2[d].status = "Completed" /\ rs2[d].outputs # <<>>
        BY <1>3, <3>1, <3>2, RoleDependencies DEF ResultInv
      <3> QED
        BY <3>3, <3>4 DEF ResultInv
    <2>4. CASE m = n
      BY <2>2, <2>3, <2>4 DEF RoleInv
    <2>5. CASE m # n
      <3>1. rs2[m] = rs[m] /\ WaitInv(rs, ts, m) /\ LevelInv(rs, ts, m)
        BY <1>2, <2>1, <2>5 DEF RoleInv
      <3>2. \A k \in 1..rs[m].shards : <<m, 0, k>> # t
        BY <2>5
      <3>3. DoneShards(rs2, ts2, m) = DoneShards(rs, ts, m)
        BY <3>1, <3>2 DEF DoneShards, Committed, WaitInv
      <3>4. WaitInv(rs2, ts2, m)
        <4>1. \A k \in 1..rs2[m].shards :
                 <<m, 0, k>> \in DOMAIN ts2 /\ ts2[<<m, 0, k>>].binding = "Shard"
          BY <3>1, <3>2 DEF WaitInv, Committed
        <4>2. rs2[m].status = "Submitted" =>
                LET u == <<rs2[m].by, 0, 1>>
                IN  /\ u \in DOMAIN ts2 /\ ts2[u].status = "Open"
                    /\ ts2[u].binding = "Role" /\ m \in Range(ts2[u].roles)
          BY <3>1 DEF WaitInv, Committed
        <4>3. rs2[m].status = "Sharded" =>
                /\ rs2[m].shards > 0
                /\ rs2[m].completed = Cardinality(DoneShards(rs2, ts2, m))
                /\ DoneShards(rs2, ts2, m) # 1..rs2[m].shards
          BY <3>1, <3>3 DEF WaitInv
        <4> QED
          BY <4>1, <4>2, <4>3 DEF WaitInv
      <3>5. LevelInv(rs2, ts2, m)
        <4>1. WorkItems(rs2, m) = WorkItems(rs, m)
          BY <3>1 DEF WorkItems
        <4>2. \A i \in WorkItems(rs, m) :
                /\ rs[m].items[i].id \in DOMAIN ts /\ rs[m].items[i].id # t
                /\ rs[m].items[i].id = <<m, rs[m].level + 1, i>>
          BY <2>5, <3>1 DEF LevelInv, WorkItems
        <4>3. \A i \in WorkItems(rs, m) : ts2[rs[m].items[i].id] = ts[rs[m].items[i].id]
          BY <4>2 DEF Committed
        <4>4. DoneItems(rs2, ts2, m) = DoneItems(rs, ts, m)
          BY <3>1, <4>1, <4>3 DEF DoneItems
        <4>5. \A i \in DOMAIN rs2[m].items :
                /\ rs2[m].items[i].id \in DOMAIN ts2
                /\ ~rs2[m].items[i].carry =>
                      /\ rs2[m].items[i].id = <<m, rs2[m].level + 1, i>>
                      /\ ts2[rs2[m].items[i].id].binding = "Reduction"
          BY <3>1, <4>3 DEF LevelInv, WorkItems, Committed
        <4> QED
          BY <3>1, <4>1, <4>4, <4>5 DEF LevelInv, Committed
      <3> QED
        BY <2>2, <2>3, <3>4, <3>5 DEF RoleInv
    <2> QED
      BY <2>4, <2>5
  <1>6. ASSUME NEW u \in DOMAIN ts2 PROVE TaskInv(rs2, ts2, u)
    <2>1. CASE u[1] = n
      BY <2>1 DEF Committed
    <2>2. CASE u[1] # n
      <3>1. u \in DOMAIN ts /\ u # t
        BY <2>2 DEF Committed
      <3>2. /\ ts2[u] = ts[u] /\ TaskInv(rs, ts, u) /\ u[1] \in Role
            /\ ts[u].roles \in Seq(Role)
        BY <3>1, TaskIdFacts DEF Committed, Inv, Shape, TaskType
      <3>3. rs2[u[1]] = rs[u[1]]
        BY <1>2, <2>2, <3>2
      <3>4. \A i \in DOMAIN ts[u].roles : ts[u].roles[i] \in Role
        BY <3>2
      <3>5. \A m \in Role : rs[m].status \in {"Uncertain", "Submitted"} => rs2[m] = rs[m]
        BY <1>2 DEF OneRole
      <3>6. ts2[u].status = "Uncertain" =>
               \A m \in Range(ts2[u].roles) : rs2[m].status = "Uncertain"
        BY <3>2, <3>4, <3>5 DEF TaskInv, Range
      <3>7. ts2[u].binding = "Role" => ChainInv(rs2, ts2, u)
        <4>1. SUFFICES ASSUME ts[u].binding = "Role" PROVE ChainInv(rs2, ts2, u)
          BY <3>2
        <4>2. ChainInv(rs, ts, u)
          BY <3>2, <4>1 DEF TaskInv
        <4>3. \A i \in DOMAIN ts[u].roles :
                 /\ rs2[ts[u].roles[i]].launches = 1 /\ rs2[ts[u].roles[i]].by = u[1]
                 /\ ts2[u].status = "Open" => rs2[ts[u].roles[i]].status = "Submitted"
          BY <1>3, <3>2, <3>4, <3>5, <4>2 DEF ChainInv
        <4>4. ts2[u].roles = ts[u].roles
          BY <3>2
        <4> QED
          BY <4>2, <4>3, <4>4, ChainKept
      <3> QED
        BY <3>2, <3>3, <3>6, <3>7 DEF TaskInv
    <2> QED
      BY <2>1, <2>2
  <1>7. RolesStay(rs, rs2)
    BY <1>2 DEF RolesStay, OneRole
  <1> QED
    BY <1>4, <1>5, <1>6, <1>7 DEF Inv

LEMMA ShardTasksFacts ==
    ASSUME NEW rs, NEW ts, NEW n \in Role, rs[n] \in RoleType, WaitInv(rs, ts, n)
    PROVE  LET all == ShardTasks(rs[n], n)
           IN  /\ all \in Seq(TaskId) /\ Len(all) = rs[n].shards
               /\ DOMAIN all = 1..rs[n].shards /\ Range(all) \subseteq DOMAIN ts
               /\ rs[n].shards > 0 => all # <<>>
  <1> DEFINE all == ShardTasks(rs[n], n)
             c == rs[n].shards
  <1>1. c \in Nat
    BY RoleFields
  <1>2. all = [k \in 1..c |-> <<n, 0, k>>]
    BY DEF ShardTasks
  <1>3. \A k \in 1..c : <<n, 0, k>> \in DOMAIN ts
    BY DEF WaitInv
  <1>4. \A k \in 1..c : <<n, 0, k>> \in TaskId
    BY <1>1, TaskIdFacts
  <1> HIDE DEF c, all
  <1>5. all \in [1..c -> TaskId] /\ DOMAIN all = 1..c /\ \A k \in 1..c : all[k] \in DOMAIN ts
    BY <1>2, <1>3, <1>4
  <1>6. all \in Seq(TaskId) /\ Len(all) = c
    BY <1>1, <1>5
  <1>7. Range(all) \subseteq DOMAIN ts
    BY <1>5 DEF Range
  <1>8. c > 0 => all # <<>>
    <2>1. all = <<>> => Len(all) = 0
      OBVIOUS
    <2> QED
      BY <1>1, <1>6, <2>1
  <1> QED
    BY <1>5, <1>6, <1>7, <1>8 DEF c, all

(* What a shard's commit makes of its role: the shards done say which.     *)
ShardOutcome(rs, n, done, r) ==
    /\ r.by = rs[n].by /\ r.shards = rs[n].shards /\ r.launches = rs[n].launches
    /\ r.level = 0 /\ r.items = <<>>
    /\ \/ rs[n].status = "Uncertain" /\ r = rs[n]
       \/ /\ rs[n].status = "Sharded" /\ done # 1..rs[n].shards
          /\ r.status = "Sharded" /\ r.completed = Cardinality(done)
          /\ r.inputs = <<>> /\ r.outputs = rs[n].outputs
       \/ /\ rs[n].status = "Sharded" /\ done = 1..rs[n].shards
          /\ r.status = "Reducing" /\ rs[n].shards >= 2
          /\ r.inputs = ShardTasks(rs[n], n) /\ r.outputs = rs[n].outputs
       \/ /\ rs[n].status = "Sharded" /\ done = 1..rs[n].shards
          /\ r.status = "Completed" /\ r.inputs = <<>>
          /\ r.outputs = ShardTasks(rs[n], n)
          /\ FanIn[n] # 0 => rs[n].shards <= 1

ShardCommit(rs, ts, t, n, done, r, rs2, ts2) ==
    /\ Inv(rs, ts) /\ Committed(ts, t, ts2) /\ ts[t].binding = "Shard" /\ n = t[1]
    /\ done = {k \in 1..rs[n].shards : ts2[<<n, 0, k>>].status = "Completed"}
    /\ r \in RoleType /\ ShardOutcome(rs, n, done, r) /\ rs2 = [rs EXCEPT ![n] = r]

LEMMA CommittedLeaves ==
    ASSUME NEW ts, NEW t, NEW ts2, Committed(ts, t, ts2)
    PROVE  SameLeaves(ts, ts2)
  BY DEF Committed, SameLeaves

(* The shards themselves carry one shard each, in order.                   *)
LEMMA ShardsTiled ==
    ASSUME NEW rs, NEW ts, NEW n \in Role, rs[n] \in RoleType, WaitInv(rs, ts, n),
           \A k \in 1..rs[n].shards : ts[<<n, 0, k>>].leaves = <<k>>
    PROVE  Tiled(ts, ShardTasks(rs[n], n), rs[n].shards)
  <1> DEFINE all == ShardTasks(rs[n], n)
             c == rs[n].shards
             b == [i \in 0..c |-> i]
  <1>1. c \in Nat /\ Len(all) = c
    BY RoleFields, ShardTasksFacts
  <1>2. \A k \in 1..c : all[k] = <<n, 0, k>>
    BY DEF ShardTasks
  <1>3. \A k \in 1..c : ts[<<n, 0, k>>].leaves = <<k>>
    OBVIOUS
  <1> HIDE DEF all, c
  <1>4. Tiling(b, c) /\ b[0] = 0 /\ b[c] = c /\ \A k \in 1..c : b[k - 1] = k - 1 /\ b[k] = k
    BY <1>1 DEF Tiling
  <1> HIDE DEF b
  <1>5. ASSUME NEW k \in 1..c PROVE Run(k - 1, k) = <<k>>
    <2> DEFINE d == k - 1
    <2>1. k \in Nat /\ d \in Nat /\ d <= k /\ k - d = 1 /\ d + 1 = k
      BY <1>1
    <2> HIDE DEF d
    <2>2. Run(d, k) = [x \in 1..1 |-> d + x]
      BY <2>1 DEF Run
    <2>3. Run(d, k) = <<k>>
      <3>1. \A x \in 1..1 : x = 1 /\ d + x = k
        BY <2>1
      <3>2. Run(d, k) = [x \in 1..1 |-> k]
        BY <2>2, <3>1
      <3> QED
        BY <3>2
    <2> QED
      BY <2>3 DEF d
  <1>6. Laid(ts, all, b)
    <2>1. ASSUME NEW k \in 1..c PROVE ts[all[k]].leaves = Run(b[k - 1], b[k])
      BY <1>2, <1>3, <1>4, <1>5
    <2> QED
      BY <1>1, <1>4, <2>1 DEF Laid
  <1>7. Tiled(ts, all, c)
    BY <1>1, <1>4, <1>6 DEF Tiled
  <1> QED
    BY <1>7 DEF all, c

LEMMA ShardKeepsOrder ==
    ASSUME NEW rs, NEW ts, NEW t, NEW n, NEW done, NEW r, NEW rs2, NEW ts2,
           ShardCommit(rs, ts, t, n, done, r, rs2, ts2)
    PROVE  OrderStays(rs, ts, rs2, ts2)
  <1>0. /\ Inv(rs, ts) /\ Committed(ts, t, ts2) /\ n = t[1]
        /\ r \in RoleType /\ ShardOutcome(rs, n, done, r) /\ rs2 = [rs EXCEPT ![n] = r]
    BY DEF ShardCommit
  <1>1. n \in Role /\ rs \in [Role -> RoleType] /\ rs[n] \in RoleType /\ WaitInv(rs, ts, n)
    BY <1>0, TaskIdFacts DEF Committed, Inv, Shape, RoleInv
  <1>2. rs2[n] = r /\ \A m \in Role : m # n => rs2[m] = rs[m]
    BY <1>0, <1>1
  <1>3. SameLeaves(ts, ts2)
    BY <1>0, CommittedLeaves
  <1>4. SUFFICES ASSUME Ordered(rs, ts) PROVE Ordered(rs2, ts2)
    BY DEF OrderStays
  <1>5. \A m \in Role : OrderInv(rs[m], m, ts2)
    BY <1>0, <1>3, <1>4, OrderKept DEF Ordered
  <1>6. OrderInv(r, n, ts2)
    <2>1. OrderInv(rs[n], n, ts) /\ OrderInv(rs[n], n, ts2)
      BY <1>1, <1>4, <1>5 DEF Ordered
    <2>2. r.shards = rs[n].shards /\ rs[n].shards \in Nat /\ r.items = <<>>
      BY <1>0, <1>1, RoleFields DEF ShardOutcome
    <2>3. \A k \in 1..rs[n].shards : ts2[<<n, 0, k>>].leaves = <<k>>
      BY <2>1 DEF OrderInv
    <2>4. Tiled(ts, ShardTasks(rs[n], n), rs[n].shards)
      BY <1>1, <2>1, ShardsTiled DEF OrderInv
    <2>5. /\ ShardTasks(rs[n], n) \in Seq(TaskId)
          /\ Range(ShardTasks(rs[n], n)) \subseteq DOMAIN ts
          /\ Len(ShardTasks(rs[n], n)) = rs[n].shards
      BY <1>1, ShardTasksFacts
    <2>6. Tiled(ts2, ShardTasks(rs[n], n), rs[n].shards)
      BY <1>3, <2>4, <2>5, TiledKept
    <2>7. CASE r = rs[n]
      BY <2>1, <2>7
    <2>8. CASE r.status = "Sharded"
      BY <2>2, <2>3, <2>8 DEF OrderInv
    <2>9. CASE r.status = "Reducing" /\ r.inputs = ShardTasks(rs[n], n)
      BY <2>2, <2>3, <2>6, <2>9 DEF OrderInv
    <2>10. CASE /\ r.status = "Completed" /\ r.outputs = ShardTasks(rs[n], n)
                /\ FanIn[n] # 0 => rs[n].shards <= 1
      <3>1. (r.shards > 0 /\ FanIn[n] # 0) => Len(r.outputs) = 1
        <4> DEFINE c == rs[n].shards
        <4>1. c \in Nat /\ r.shards = c /\ Len(r.outputs) = c /\ (FanIn[n] # 0 => c <= 1)
          BY <2>2, <2>5, <2>10
        <4> HIDE DEF c
        <4> QED
          BY <4>1
      <3> QED
        BY <2>2, <2>3, <2>6, <2>10, <3>1 DEF OrderInv
    <2> QED
      BY <1>0, <2>7, <2>8, <2>9, <2>10 DEF ShardOutcome
  <1> QED
    BY <1>2, <1>5, <1>6 DEF Ordered

LEMMA ShardCommitted ==
    ASSUME NEW rs, NEW ts, NEW t, NEW n, NEW done, NEW r, NEW rs2, NEW ts2,
           ShardCommit(rs, ts, t, n, done, r, rs2, ts2)
    PROVE  Inv(rs2, ts2) /\ RolesStay(rs, rs2)
  <1>0. /\ Inv(rs, ts) /\ Committed(ts, t, ts2) /\ ts[t].binding = "Shard" /\ n = t[1]
        /\ done = {k \in 1..rs[n].shards : ts2[<<n, 0, k>>].status = "Completed"}
        /\ r \in RoleType /\ ShardOutcome(rs, n, done, r) /\ rs2 = [rs EXCEPT ![n] = r]
    BY DEF ShardCommit
  <1> USE <1>0
  <1>1. n \in Role /\ t \in TaskId /\ rs \in [Role -> RoleType] /\ rs[n] \in RoleType
    BY TaskIdFacts DEF Committed, Inv, Shape
  <1>2. rs2[n] = r /\ \A m \in Role : m # n => rs2[m] = rs[m]
    BY <1>1
  <1>3. LaunchInv(rs, n) /\ WaitInv(rs, ts, n) /\ LevelInv(rs, ts, n)
    BY <1>1 DEF Inv, RoleInv
  <1>4. rs[n].level = 0 /\ rs[n].inputs = <<>> /\ rs[n].items = <<>>
    BY <1>3 DEF LevelInv, ShardOutcome
  <1> DEFINE all == ShardTasks(rs[n], n)
  <1>5. /\ all \in Seq(TaskId) /\ Len(all) = rs[n].shards /\ Range(all) \subseteq DOMAIN ts
        /\ rs[n].shards > 0 => all # <<>>
    BY <1>1, <1>3, ShardTasksFacts
  <1> HIDE DEF all
  <1>6. rs[n].status = "Sharded" => rs[n].shards > 0
    BY <1>3 DEF WaitInv
  <1>7. OneRole(rs, n, r)
    BY <1>5, <1>6 DEF OneRole, ShardOutcome, Early, all
  <1>8. WaitInv(rs2, ts2, n)
    <2>1. done = DoneShards(rs2, ts2, n)
      BY <1>2 DEF DoneShards, ShardOutcome
    <2>2. \A k \in 1..rs2[n].shards :
             <<n, 0, k>> \in DOMAIN ts2 /\ ts2[<<n, 0, k>>].binding = "Shard"
      BY <1>2, <1>3 DEF WaitInv, Committed, ShardOutcome
    <2>3. rs2[n].status # "Submitted"
      BY <1>2 DEF ShardOutcome
    <2>4. rs2[n].status = "Sharded" =>
            /\ rs2[n].shards > 0
            /\ rs2[n].completed = Cardinality(DoneShards(rs2, ts2, n))
            /\ DoneShards(rs2, ts2, n) # 1..rs2[n].shards
      BY <1>2, <1>6, <2>1 DEF ShardOutcome
    <2> QED
      BY <2>2, <2>3, <2>4 DEF WaitInv
  <1>9. LevelInv(rs2, ts2, n)
    <2>1. DOMAIN <<>> = {} /\ Range(<<>>) = {}
      BY DEF Range
    <2>2. DOMAIN ts2 = DOMAIN ts
      BY DEF Committed
    <2>3. Range(r.outputs) \subseteq DOMAIN ts2 /\ Range(r.inputs) \subseteq DOMAIN ts2
      BY <1>3, <1>4, <1>5, <2>1, <2>2 DEF LevelInv, ShardOutcome, all
    <2>4. r.status = "Reducing" => Len(r.inputs) >= 2
      BY <1>5 DEF ShardOutcome, all
    <2>5. r.status \notin {"Reducing", "Completed"} => r.inputs = <<>>
      BY <1>4 DEF ShardOutcome
    <2> QED
      BY <1>2, <2>1, <2>3, <2>4, <2>5 DEF LevelInv, ShardOutcome
  <1>10. ASSUME NEW u \in DOMAIN ts, u[1] = n PROVE TaskInv(rs2, ts2, u)
    <2>1. /\ TaskInv(rs, ts, u) /\ ts[u].roles \in Seq(Role) /\ u = <<n, u[2], u[3]>>
          /\ u[2] \in Nat
      BY <1>10, TaskIdFacts DEF Inv, Shape, TaskType
    <2>2. /\ ts2[u].binding = ts[u].binding /\ ts2[u].roles = ts[u].roles
          /\ ts2[u].status = "Completed" \/ ts2[u].status = ts[u].status
      BY DEF Committed
    <2>3. \A i \in DOMAIN ts[u].roles : ts[u].roles[i] \in Role
      BY <2>1
    <2>4. rs2[n].launches = 1 /\ u[2] <= 0
      BY <1>2, <1>4, <1>10, <2>1 DEF TaskInv, ShardOutcome
    <2>5. ts2[u].status = "Uncertain" =>
             \A m \in Range(ts2[u].roles) : rs2[m].status = "Uncertain"
      <3>1. \A m \in Role : rs[m].status = "Uncertain" => rs2[m] = rs[m]
        BY <1>2 DEF ShardOutcome
      <3> QED
        BY <2>1, <2>2, <2>3, <3>1 DEF TaskInv, Range
    <2>6. ts2[u].binding = "Role" => ChainInv(rs2, ts2, u)
      <3>1. SUFFICES ASSUME ts[u].binding = "Role" PROVE ChainInv(rs2, ts2, u)
        BY <2>2
      <3>2. ChainInv(rs, ts, u)
        BY <2>1, <3>1 DEF TaskInv
      <3>3. ts2[u].status # "Open"
        <4>2. ts[u].status = "Open" => rs[n].status = "Submitted"
          BY <1>10, <2>1, <3>2, ChainHead
        <4> QED
          BY <2>2, <4>2 DEF ShardOutcome
      <3>4. \A m \in Role : rs2[m].launches = rs[m].launches /\ rs2[m].by = rs[m].by
        BY <1>2 DEF ShardOutcome
      <3>5. \A i \in DOMAIN ts[u].roles :
              /\ rs2[ts[u].roles[i]].launches = 1 /\ rs2[ts[u].roles[i]].by = u[1]
              /\ ts2[u].status = "Open" => rs2[ts[u].roles[i]].status = "Submitted"
        BY <2>3, <3>2, <3>3, <3>4 DEF ChainInv
      <3> QED
        <4>1. ts2[u].roles = ts[u].roles
          BY <2>2
        <4> QED
          BY <3>2, <3>5, <4>1, ChainKept
    <2>7. ts2[u].binding = "Shard" =>
            /\ u[2] = 0 /\ u[3] \in 1..rs2[n].shards /\ ts2[u].roles = <<n>>
            /\ ts2[u].status = "Open" => rs2[n].status \in {"Sharded", "Uncertain"}
      <3>1. SUFFICES ASSUME ts[u].binding = "Shard"
                     PROVE  /\ u[2] = 0 /\ u[3] \in 1..rs2[n].shards /\ ts[u].roles = <<n>>
                            /\ ts2[u].status = "Open" => rs2[n].status \in {"Sharded", "Uncertain"}
        BY <2>2
      <3>2. u[2] = 0 /\ u[3] \in 1..rs[n].shards /\ ts[u].roles = <<n>>
        BY <1>10, <2>1, <3>1 DEF TaskInv
      <3>3. ts2[u].status = "Open" => done # 1..rs[n].shards
        <4> DEFINE k == u[3]
        <4>1. k \in 1..rs[n].shards /\ u = <<n, 0, k>>
          BY <2>1, <3>2
        <4> HIDE DEF k
        <4> QED
          BY <4>1
      <3> QED
        BY <1>2, <3>2, <3>3 DEF ShardOutcome
    <2>8. ts2[u].binding = "Reduction" =>
            /\ ts2[u].roles = <<n>> /\ ts2[u].status # "Uncertain"
            /\ ts2[u].status = "Open" => FALSE
      <3>1. DOMAIN <<>> = {}
        OBVIOUS
      <3> QED
        BY <1>4, <1>10, <2>1, <2>2, <3>1 DEF TaskInv
    <2>9. u[2] <= rs2[n].level + (IF rs2[n].items = <<>> THEN 0 ELSE 1)
      BY <1>2, <2>4 DEF ShardOutcome
    <2> QED
      BY <1>10, <2>4, <2>5, <2>6, <2>7, <2>8, <2>9 DEF TaskInv
  <1> QED
    BY <1>7, <1>8, <1>9, <1>10, CommitOne DEF OneCommit

(* A handler that records its change as rs and ts and then materializes    *)
(* the next level of role n.                                               *)
LEMMA RecordedThenReduced ==
    ASSUME JobsInv, NEW rs, NEW ts, NEW n \in Role, Inv(rs, ts),
           RolesStay(roles, rs), TasksStay(tasks, ts), OrderStays(roles, tasks, rs, ts),
           rs[n].status = "Reducing", rs[n].items = <<>>,
           NEW plan \in Plans(rs, {}, {n}),
           roles' = ReducedRoles(rs, {n}, plan),
           tasks' = WithReductions(rs, ts, {n}, plan), UNCHANGED failed
    PROVE  Sound
  <1> DEFINE D == {n}
  <1>1. /\ D \subseteq Role /\ \A m \in D : m = n
        /\ roles' = ReducedRoles(rs, D, plan) /\ tasks' = WithReductions(rs, ts, D, plan)
    OBVIOUS
  <1>2. plan[n] \in ReductionPlans(rs, n)
    BY PlansFacts
  <1> HIDE DEF D
  <1>3. Reducing(rs, ts, D, plan, roles', tasks')
    BY <1>1, <1>2 DEF Reducing
  <1>4. /\ Inv(roles', tasks') /\ RolesStay(rs, roles') /\ TasksStay(ts, tasks')
        /\ OrderStays(rs, ts, roles', tasks')
    BY <1>3, ReduceSound
  <1>5. failed' \in BOOLEAN
    BY DEF JobsInv
  <1> QED
    BY <1>4, <1>5, StayTransitive DEF Sound, JobsInv

LEMMA CompleteShardStep ==
    ASSUME JobsInv, NEW t \in DOMAIN tasks, CompleteShard(t)
    PROVE  Sound
  <1> DEFINE n == t[1]
             ts == Commits(t)
             all == ShardTasks(roles[n], n)
             done == CommittedShards(n, ts)
             last == done = DOMAIN all
             r2 == [roles[n] EXCEPT !.status = "Reducing", !.completed = 0,
                                    !.level = 0, !.inputs = all]
             r3 == IF last THEN [roles[n] EXCEPT !.status = "Completed", !.outputs = all]
                   ELSE [roles[n] EXCEPT !.status = "Sharded",
                                         !.completed = Cardinality(done)]
             rs2 == [roles EXCEPT ![n] = r2]
             rs3 == [roles EXCEPT ![n] = r3]
  <1>1. tasks[t].status = "Open" /\ tasks[t].binding = "Shard"
    BY DEF CompleteShard
  <1>2. \/ /\ ShardIgnored(n) /\ tasks' = ts /\ UNCHANGED <<roles, failed>>
        \/ /\ ~ShardIgnored(n) /\ last /\ Len(all) > 1
           /\ \E plan \in Plans(rs2, {}, {n}) :
                 /\ roles' = ReducedRoles(rs2, {n}, plan)
                 /\ tasks' = WithReductions(rs2, ts, {n}, plan)
                 /\ UNCHANGED failed
        \/ /\ ~ShardIgnored(n) /\ ~(last /\ FanIn[n] # 0 /\ Len(all) > 1)
           /\ \E plan \in Plans(rs3, ReadyRoles(rs3, JobOf[n]), {}) :
                 Materialize(rs3, ts, ReadyRoles(rs3, JobOf[n]), plan)
    BY DEF CompleteShard
  <1>3. Committed(tasks, t, ts) /\ TasksStay(tasks, ts)
    BY <1>1, CommitsFacts
  <1>4. /\ n \in Role /\ roles[n] \in RoleType /\ Inv(roles, tasks)
        /\ roles \in [Role -> RoleType]
        /\ WaitInv(roles, tasks, n) /\ LevelInv(roles, tasks, n) /\ TaskInv(roles, tasks, t)
    BY TaskIdFacts DEF JobsInv, Inv, Shape, RoleInv
  <1>5. roles[n].status \in {"Sharded", "Uncertain"}
    BY <1>1, <1>4 DEF TaskInv
  <1>6. roles[n].level = 0 /\ roles[n].inputs = <<>> /\ roles[n].items = <<>>
    BY <1>4, <1>5 DEF LevelInv
  <1>7. /\ all \in Seq(TaskId) /\ Len(all) = roles[n].shards
        /\ DOMAIN all = 1..roles[n].shards
    BY <1>4, ShardTasksFacts
  <1>8. done = {k \in 1..roles[n].shards : ts[<<n, 0, k>>].status = "Completed"}
    BY DEF CommittedShards
  <1>9. Cardinality(done) \in Nat
    <2>1. roles[n].shards \in Nat
      BY <1>4, RoleFields
    <2>2. IsFiniteSet(1..roles[n].shards) /\ done \subseteq 1..roles[n].shards
      BY <1>8, <2>1, FS_Interval
    <2>3. IsFiniteSet(done)
      BY <2>2, FS_Subset
    <2> QED
      BY <2>3, FS_CardinalityType
  <1> HIDE DEF n, ts, all, done
  <1>10. CASE ShardIgnored(n) /\ tasks' = ts /\ UNCHANGED <<roles, failed>>
    <2>1. ShardOutcome(roles, n, done, roles[n])
      BY <1>6, <1>10 DEF ShardOutcome, ShardIgnored
    <2>2. roles = [roles EXCEPT ![n] = roles[n]]
      BY <1>4
    <2>3. /\ Inv(roles, ts) /\ RolesStay(roles, roles)
          /\ OrderStays(roles, tasks, roles, ts)
      <3>1. ShardCommit(roles, tasks, t, n, done, roles[n], roles, ts)
        BY <1>1, <1>3, <1>4, <1>8, <2>1, <2>2 DEF n, ShardCommit
      <3> QED
        BY <3>1, ShardCommitted, ShardKeepsOrder
    <2> QED
      BY <1>3, <1>10, <2>3 DEF Sound, JobsInv
  <1>11. ASSUME ~ShardIgnored(n), last, Len(all) > 1,
                NEW plan \in Plans(rs2, {}, {n}), roles' = ReducedRoles(rs2, {n}, plan),
                tasks' = WithReductions(rs2, ts, {n}, plan), UNCHANGED failed
         PROVE  Sound
    <2>1. /\ r2 \in RoleType /\ r2.status = "Reducing" /\ r2.by = roles[n].by
          /\ r2.shards = roles[n].shards /\ r2.launches = roles[n].launches
          /\ r2.level = 0 /\ r2.inputs = all /\ r2.items = roles[n].items
          /\ r2.outputs = roles[n].outputs
      BY <1>4, <1>7 DEF RoleType, RoleState
    <2> HIDE DEF r2
    <2>2. roles[n].status = "Sharded"
      BY <1>5, <1>11 DEF ShardIgnored
    <2>3. roles[n].shards >= 2
      <3>1. roles[n].shards \in Nat
        BY <1>4, RoleFields
      <3> QED
        BY <1>7, <1>11, <3>1
    <2>4. ShardOutcome(roles, n, done, r2)
      BY <1>6, <1>7, <1>11, <2>1, <2>2, <2>3 DEF ShardOutcome, all
    <2>5. rs2[n] = r2
      BY <1>4
    <2>6. rs2 = [roles EXCEPT ![n] = r2]
      OBVIOUS
    <2> HIDE DEF rs2
    <2>7. Inv(rs2, ts) /\ RolesStay(roles, rs2) /\ OrderStays(roles, tasks, rs2, ts)
      <3>1. ShardCommit(roles, tasks, t, n, done, r2, rs2, ts)
        BY <1>1, <1>3, <1>4, <1>8, <2>1, <2>4, <2>6 DEF n, ShardCommit
      <3> QED
        BY <3>1, ShardCommitted, ShardKeepsOrder
    <2>8. rs2[n].status = "Reducing" /\ rs2[n].items = <<>>
      BY <1>6, <2>1, <2>5
    <2> QED
      BY <1>3, <1>4, <1>11, <2>7, <2>8, RecordedThenReduced
  <1>12. ASSUME ~ShardIgnored(n), ~(last /\ FanIn[n] # 0 /\ Len(all) > 1),
                NEW plan \in Plans(rs3, ReadyRoles(rs3, JobOf[n]), {}),
                Materialize(rs3, ts, ReadyRoles(rs3, JobOf[n]), plan)
         PROVE  Sound
    <2>1. /\ r3 \in RoleType /\ r3.by = roles[n].by
          /\ r3.shards = roles[n].shards /\ r3.launches = roles[n].launches
          /\ r3.level = roles[n].level /\ r3.inputs = roles[n].inputs
          /\ r3.items = roles[n].items
          /\ last => r3.status = "Completed" /\ r3.outputs = all
          /\ ~last => /\ r3.status = "Sharded" /\ r3.completed = Cardinality(done)
                      /\ r3.outputs = roles[n].outputs
      <3>1. CASE last
        BY <1>4, <1>7, <3>1 DEF RoleType, RoleState
      <3>2. CASE ~last
        BY <1>4, <1>9, <3>2 DEF RoleType, RoleState
      <3> QED
        BY <3>1, <3>2
    <2> HIDE DEF r3
    <2>2. roles[n].status = "Sharded"
      BY <1>5, <1>12 DEF ShardIgnored
    <2>0. last /\ FanIn[n] # 0 => roles[n].shards <= 1
      <3>1. roles[n].shards \in Nat
        BY <1>4, RoleFields
      <3> QED
        BY <1>7, <1>12, <3>1
    <2>3. ShardOutcome(roles, n, done, r3)
      BY <1>6, <1>7, <2>0, <2>1, <2>2 DEF ShardOutcome, all
    <2>4. rs3 = [roles EXCEPT ![n] = r3]
      OBVIOUS
    <2> HIDE DEF rs3
    <2>5. Inv(rs3, ts) /\ RolesStay(roles, rs3) /\ OrderStays(roles, tasks, rs3, ts)
      <3>1. ShardCommit(roles, tasks, t, n, done, r3, rs3, ts)
        BY <1>1, <1>3, <1>4, <1>8, <2>1, <2>3, <2>4 DEF n, ShardCommit
      <3> QED
        BY <3>1, ShardCommitted, ShardKeepsOrder
    <2> QED
      BY <1>3, <1>12, <2>5, RecordedThenMaterialized
  <1> HIDE DEF rs2, rs3, last
  <1> QED
    BY <1>2, <1>10, <1>11, <1>12

(* What a reduction's commit makes of its role.                            *)
NextInputs(rs, n) == [i \in DOMAIN rs[n].items |-> rs[n].items[i].id]

ReductionOutcome(rs, n, done, r) ==
    /\ r.by = rs[n].by /\ r.shards = rs[n].shards /\ r.launches = rs[n].launches
    /\ \/ /\ done # WorkItems(rs, n) /\ r.status = "Reducing"
          /\ r.completed = Cardinality(done) /\ r.level = rs[n].level
          /\ r.inputs = rs[n].inputs /\ r.items = rs[n].items
          /\ r.outputs = rs[n].outputs
       \/ /\ done = WorkItems(rs, n) /\ r.status = "Reducing"
          /\ r.level = rs[n].level + 1 /\ r.items = <<>>
          /\ r.inputs = NextInputs(rs, n) /\ Len(r.inputs) >= 2
          /\ r.outputs = rs[n].outputs
       \/ /\ done = WorkItems(rs, n) /\ r.status = "Completed"
          /\ r.level = rs[n].level + 1 /\ r.items = <<>>
          /\ r.inputs = NextInputs(rs, n)
          /\ r.outputs = NextInputs(rs, n) /\ r.outputs # <<>> /\ Len(r.outputs) = 1

ReductionCommit(rs, ts, t, n, done, r, rs2, ts2) ==
    /\ Inv(rs, ts) /\ Committed(ts, t, ts2) /\ ts[t].binding = "Reduction" /\ n = t[1]
    /\ done = {i \in WorkItems(rs, n) : ts2[rs[n].items[i].id].status = "Completed"}
    /\ r \in RoleType /\ ReductionOutcome(rs, n, done, r) /\ rs2 = [rs EXCEPT ![n] = r]

LEMMA OpenReduction ==
    ASSUME NEW rs, NEW ts, Inv(rs, ts), NEW t \in DOMAIN ts,
           ts[t].status = "Open", ts[t].binding = "Reduction"
    PROVE  /\ t[1] \in Role /\ rs[t[1]] \in RoleType
           /\ rs[t[1]].items # <<>> /\ rs[t[1]].status = "Reducing"
  <1> DEFINE n == t[1]
  <1>1. /\ n \in Role /\ rs[n] \in RoleType /\ LevelInv(rs, ts, n) /\ TaskInv(rs, ts, t)
    BY TaskIdFacts DEF Inv, Shape, RoleInv
  <1>2. t[3] \in DOMAIN rs[n].items
    BY <1>1 DEF TaskInv
  <1>3. DOMAIN <<>> = {}
    OBVIOUS
  <1>4. rs[n].items # <<>>
    BY <1>2, <1>3
  <1> QED
    BY <1>1, <1>4 DEF LevelInv

LEMMA ReductionCommitted ==
    ASSUME NEW rs, NEW ts, NEW t, NEW n, NEW done, NEW r, NEW rs2, NEW ts2,
           ReductionCommit(rs, ts, t, n, done, r, rs2, ts2)
    PROVE  Inv(rs2, ts2) /\ RolesStay(rs, rs2)
  <1>a. Inv(rs, ts) /\ Committed(ts, t, ts2) /\ ts[t].binding = "Reduction" /\ n = t[1]
    BY DEF ReductionCommit
  <1>b. done = {i \in WorkItems(rs, n) : ts2[rs[n].items[i].id].status = "Completed"}
    BY DEF ReductionCommit
  <1>c. ReductionOutcome(rs, n, done, r)
    BY DEF ReductionCommit
  <1>d. r \in RoleType /\ rs2 = [rs EXCEPT ![n] = r]
    BY DEF ReductionCommit
  <1>1. /\ n \in Role /\ rs \in [Role -> RoleType] /\ rs[n] \in RoleType
        /\ rs[n].items # <<>> /\ rs[n].status = "Reducing"
    BY <1>a, OpenReduction DEF Committed, Inv, Shape
  <1>2. rs2[n] = r /\ \A m \in Role : m # n => rs2[m] = rs[m]
    BY <1>1, <1>d
  <1>3. LaunchInv(rs, n) /\ WaitInv(rs, ts, n) /\ LevelInv(rs, ts, n)
    BY <1>1, <1>a DEF Inv, RoleInv
  <1>4. DOMAIN ts2 = DOMAIN ts /\ \A u \in DOMAIN ts : ts2[u].binding = ts[u].binding
    BY <1>a DEF Committed
  <1>5. OneRole(rs, n, r)
    BY <1>1, <1>c, <1>d DEF OneRole, ReductionOutcome, Early
  <1>6. WaitInv(rs2, ts2, n)
    <2>1. \A k \in 1..rs2[n].shards :
             <<n, 0, k>> \in DOMAIN ts2 /\ ts2[<<n, 0, k>>].binding = "Shard"
      BY <1>2, <1>3, <1>4, <1>c DEF WaitInv, ReductionOutcome
    <2>2. rs2[n].status \notin {"Submitted", "Sharded"}
      BY <1>2, <1>c DEF ReductionOutcome
    <2> QED
      BY <2>1, <2>2 DEF WaitInv
  <1>7. LevelInv(rs2, ts2, n)
    <2>1. DOMAIN <<>> = {}
      OBVIOUS
    <2>2. Range(NextInputs(rs, n)) \subseteq DOMAIN ts2
      BY <1>3, <1>4 DEF LevelInv, NextInputs, Range
    <2>3. Range(rs[n].outputs) \subseteq DOMAIN ts2 /\ Range(rs[n].inputs) \subseteq DOMAIN ts2
      BY <1>3, <1>4 DEF LevelInv
    <2>4. CASE done # WorkItems(rs, n)
      <3>1. /\ r.status = "Reducing" /\ r.completed = Cardinality(done)
            /\ r.level = rs[n].level /\ r.inputs = rs[n].inputs
            /\ r.items = rs[n].items /\ r.outputs = rs[n].outputs
        BY <1>c, <2>4 DEF ReductionOutcome
      <3>2. WorkItems(rs2, n) = WorkItems(rs, n)
        BY <1>2, <3>1 DEF WorkItems
      <3>3. DoneItems(rs2, ts2, n) = done
        BY <1>2, <1>b, <3>1, <3>2 DEF DoneItems
      <3>4. Len(r.inputs) >= 2
        BY <1>1, <1>3, <3>1 DEF LevelInv
      <3>5. \A i \in DOMAIN r.items :
              /\ r.items[i].id \in DOMAIN ts2
              /\ ~r.items[i].carry =>
                    /\ r.items[i].id = <<n, r.level + 1, i>>
                    /\ ts2[r.items[i].id].binding = "Reduction"
        BY <1>3, <1>4, <3>1 DEF LevelInv
      <3> QED
        BY <1>2, <2>3, <2>4, <3>1, <3>2, <3>3, <3>4, <3>5 DEF LevelInv
    <2>5. CASE done = WorkItems(rs, n)
      <3>1. /\ r.status \in {"Reducing", "Completed"} /\ r.items = <<>>
            /\ r.inputs = NextInputs(rs, n)
            /\ r.status = "Reducing" => Len(r.inputs) >= 2
            /\ r.outputs \in {rs[n].outputs, NextInputs(rs, n)}
        BY <1>c, <2>5 DEF ReductionOutcome
      <3> QED
        BY <1>2, <2>1, <2>2, <2>3, <3>1 DEF LevelInv
    <2> QED
      BY <2>4, <2>5
  <1>8. ASSUME NEW u \in DOMAIN ts, u[1] = n PROVE TaskInv(rs2, ts2, u)
    <2>1. /\ TaskInv(rs, ts, u) /\ ts[u].roles \in Seq(Role) /\ u[2] \in Nat
      BY <1>8, <1>a, TaskIdFacts DEF Inv, Shape, TaskType
    <2>2. /\ ts2[u].binding = ts[u].binding /\ ts2[u].roles = ts[u].roles
          /\ ts2[u].status = "Completed" \/ ts2[u].status = ts[u].status
      BY <1>a DEF Committed
    <2>3. \A i \in DOMAIN ts[u].roles : ts[u].roles[i] \in Role
      BY <2>1
    <2>4. rs2[n].launches = 1
      BY <1>2, <1>8, <1>c, <2>1 DEF TaskInv, ReductionOutcome
    <2>5. ts2[u].status = "Uncertain" =>
             \A m \in Range(ts2[u].roles) : rs2[m].status = "Uncertain"
      <3>1. \A m \in Role : rs[m].status = "Uncertain" => rs2[m] = rs[m]
        BY <1>1, <1>2
      <3> QED
        BY <2>1, <2>2, <2>3, <3>1 DEF TaskInv, Range
    <2>6. ts2[u].binding = "Role" => ChainInv(rs2, ts2, u)
      <3>1. SUFFICES ASSUME ts[u].binding = "Role" PROVE ChainInv(rs2, ts2, u)
        BY <2>2
      <3>2. ChainInv(rs, ts, u)
        BY <2>1, <3>1 DEF TaskInv
      <3>3. ts2[u].status # "Open"
        <4>1. ts[u].status = "Open" => rs[n].status = "Submitted"
          BY <1>8, <2>1, <3>2, ChainHead
        <4> QED
          BY <1>1, <2>2, <4>1
      <3>4. \A m \in Role : rs2[m].launches = rs[m].launches /\ rs2[m].by = rs[m].by
        BY <1>2, <1>c DEF ReductionOutcome
      <3>5. \A i \in DOMAIN ts[u].roles :
              /\ rs2[ts[u].roles[i]].launches = 1 /\ rs2[ts[u].roles[i]].by = u[1]
              /\ ts2[u].status = "Open" => rs2[ts[u].roles[i]].status = "Submitted"
        BY <2>3, <3>2, <3>3, <3>4 DEF ChainInv
      <3>6. ts2[u].roles = ts[u].roles
        BY <2>2
      <3> QED
        BY <3>2, <3>5, <3>6, ChainKept
    <2>7. ts2[u].binding = "Shard" =>
            /\ u[2] = 0 /\ u[3] \in 1..rs2[n].shards /\ ts2[u].roles = <<n>>
            /\ ts2[u].status # "Open"
      BY <1>1, <1>2, <1>8, <1>c, <2>1, <2>2 DEF TaskInv, ReductionOutcome
    <2>8. ts2[u].binding = "Reduction" =>
            /\ ts2[u].roles = <<n>> /\ ts2[u].status # "Uncertain"
            /\ ts2[u].status = "Open" =>
                  /\ u[3] \in DOMAIN rs2[n].items
                  /\ rs2[n].items[u[3]] = [carry |-> FALSE, id |-> u]
      <3>1. SUFFICES ASSUME ts[u].binding = "Reduction"
                     PROVE  /\ ts[u].roles = <<n>> /\ ts2[u].status # "Uncertain"
                            /\ ts2[u].status = "Open" =>
                                  /\ u[3] \in DOMAIN rs2[n].items
                                  /\ rs2[n].items[u[3]] = [carry |-> FALSE, id |-> u]
        BY <2>2
      <3>2. ts[u].roles = <<n>> /\ ts2[u].status # "Uncertain"
        BY <1>8, <2>1, <2>2, <3>1 DEF TaskInv
      <3>3. ASSUME ts2[u].status = "Open"
            PROVE  /\ u[3] \in DOMAIN rs2[n].items
                   /\ rs2[n].items[u[3]] = [carry |-> FALSE, id |-> u]
        <4> DEFINE i == u[3]
        <4>1. i \in DOMAIN rs[n].items /\ rs[n].items[i] = [carry |-> FALSE, id |-> u]
          BY <1>8, <2>1, <2>2, <3>1, <3>3 DEF TaskInv
        <4> HIDE DEF i
        <4>2. i \in WorkItems(rs, n) /\ rs[n].items[i].id = u
          BY <4>1 DEF WorkItems
        <4>3. done # WorkItems(rs, n)
          BY <1>b, <3>3, <4>2
        <4>4. rs2[n].items = rs[n].items
          BY <1>2, <1>c, <4>3 DEF ReductionOutcome
        <4> QED
          BY <4>1, <4>4 DEF i
      <3> QED
        BY <3>2, <3>3
    <2>9. u[2] <= rs2[n].level + (IF rs2[n].items = <<>> THEN 0 ELSE 1)
      <3> DEFINE l == rs[n].level
      <3>1. l \in Nat
        BY <1>1, RoleFields
      <3>2. u[2] <= l + 1
        BY <1>1, <1>8, <2>1 DEF TaskInv
      <3>3. \/ r.items = rs[n].items /\ r.level = l
            \/ r.items = <<>> /\ r.level = l + 1
        BY <1>c DEF ReductionOutcome
      <3> HIDE DEF l
      <3> QED
        BY <1>1, <1>2, <2>1, <3>1, <3>2, <3>3
    <2> QED
      BY <1>8, <2>4, <2>5, <2>6, <2>7, <2>8, <2>9 DEF TaskInv
  <1> QED
    BY <1>5, <1>6, <1>7, <1>8, <1>a, <1>d, CommitOne DEF OneCommit

LEMMA ReductionKeepsOrder ==
    ASSUME NEW rs, NEW ts, NEW t, NEW n, NEW done, NEW r, NEW rs2, NEW ts2,
           ReductionCommit(rs, ts, t, n, done, r, rs2, ts2)
    PROVE  OrderStays(rs, ts, rs2, ts2)
  <1>a. /\ Inv(rs, ts) /\ Committed(ts, t, ts2) /\ ts[t].binding = "Reduction" /\ n = t[1]
        /\ ReductionOutcome(rs, n, done, r)
    BY DEF ReductionCommit
  <1>b. r \in RoleType /\ rs2 = [rs EXCEPT ![n] = r]
    BY DEF ReductionCommit
  <1>1. /\ n \in Role /\ rs \in [Role -> RoleType] /\ rs[n] \in RoleType
        /\ rs[n].items # <<>> /\ rs[n].status = "Reducing"
    BY <1>a, OpenReduction DEF Committed, Inv, Shape
  <1>2. rs2[n] = r /\ \A m \in Role : m # n => rs2[m] = rs[m]
    BY <1>1, <1>b
  <1>3. SameLeaves(ts, ts2)
    BY <1>a, CommittedLeaves
  <1>4. SUFFICES ASSUME Ordered(rs, ts) PROVE Ordered(rs2, ts2)
    BY DEF OrderStays
  <1>5. \A m \in Role : OrderInv(rs[m], m, ts2)
    BY <1>3, <1>4, <1>a, OrderKept DEF Ordered
  <1>6. OrderInv(r, n, ts2)
    <2> DEFINE k == rs[n].shards
               next == NextInputs(rs, n)
    <2>1. OrderInv(rs[n], n, ts2)
      BY <1>1, <1>5
    <2>2. next = [i \in DOMAIN rs[n].items |-> rs[n].items[i].id]
      BY DEF NextInputs
    <2> HIDE DEF next
    <2>3. /\ Tiled(ts2, rs[n].inputs, k) /\ Tiled(ts2, next, k)
          /\ \A i \in 1..k : ts2[<<n, 0, i>>].leaves = <<i>>
      BY <1>1, <2>1, <2>2 DEF OrderInv
    <2>4. r.shards = k
      BY <1>a DEF ReductionOutcome
    <2> HIDE DEF k
    <2>5. CASE r.status = "Reducing" /\ r.inputs = rs[n].inputs /\ r.items = rs[n].items
      BY <2>2, <2>3, <2>4, <2>5 DEF OrderInv
    <2>6. CASE r.status = "Reducing" /\ r.inputs = next /\ r.items = <<>>
      BY <2>3, <2>4, <2>6 DEF OrderInv
    <2>7. CASE r.status = "Completed" /\ r.outputs = next /\ Len(r.outputs) = 1
      BY <2>3, <2>4, <2>7 DEF OrderInv
    <2> QED
      BY <1>a, <2>5, <2>6, <2>7 DEF ReductionOutcome, next
  <1> QED
    BY <1>2, <1>5, <1>6 DEF Ordered

LEMMA NextInputsFacts ==
    ASSUME NEW rs, NEW n, rs[n] \in RoleType
    PROVE  NextInputs(rs, n) \in Seq(TaskId)
  <1> DEFINE items == rs[n].items
             next == NextInputs(rs, n)
             k == Len(items)
  <1>1. items \in Seq(ItemType)
    BY RoleFields
  <1>2. k \in Nat /\ DOMAIN items = 1..k /\ \A i \in 1..k : items[i] \in ItemType
    BY <1>1
  <1>3. next = [i \in DOMAIN items |-> items[i].id]
    BY DEF NextInputs
  <1> HIDE DEF items, next, k
  <1>4. next \in [1..k -> TaskId]
    BY <1>2, <1>3 DEF ItemType
  <1>5. next \in Seq(TaskId)
    BY <1>2, <1>4
  <1> QED
    BY <1>5 DEF next

LEMMA CompleteReductionStep ==
    ASSUME JobsInv, NEW t \in DOMAIN tasks, CompleteReduction(t)
    PROVE  Sound
  <1> DEFINE n == t[1]
             ts == Commits(t)
             items == roles[n].items
             work == {i \in DOMAIN items : ~items[i].carry}
             done == {i \in work : ts[items[i].id].status = "Completed"}
             next == [i \in DOMAIN items |-> items[i].id]
             r1 == [roles[n] EXCEPT !.completed = Cardinality(done)]
             r2 == [roles[n] EXCEPT !.level = roles[n].level + 1, !.inputs = next,
                                    !.items = <<>>]
             r3 == [r2 EXCEPT !.status = "Completed", !.outputs = next]
             rs1 == [roles EXCEPT ![n].completed = Cardinality(done)]
             rs2 == [roles EXCEPT ![n] = [@ EXCEPT !.level = roles[n].level + 1,
                                                   !.inputs = next, !.items = <<>>]]
             rs3 == [rs2 EXCEPT ![n] = [@ EXCEPT !.status = "Completed",
                                                 !.outputs = next]]
  <1>1. tasks[t].status = "Open" /\ tasks[t].binding = "Reduction"
    BY DEF CompleteReduction
  <1>2. /\ n \in Role /\ roles[n] \in RoleType /\ Inv(roles, tasks)
        /\ roles \in [Role -> RoleType]
        /\ roles[n].items # <<>> /\ roles[n].status = "Reducing"
    BY <1>1, OpenReduction DEF JobsInv, Inv, Shape
  <1>3. \/ done # work /\ roles' = rs1 /\ tasks' = ts /\ UNCHANGED failed
        \/ /\ done = work /\ Len(next) > 1
           /\ \E plan \in Plans(rs2, {}, {n}) :
                 /\ roles' = ReducedRoles(rs2, {n}, plan)
                 /\ tasks' = WithReductions(rs2, ts, {n}, plan)
                 /\ UNCHANGED failed
        \/ /\ done = work /\ Len(next) = 1
           /\ \E plan \in Plans(rs3, ReadyRoles(rs3, JobOf[n]), {}) :
                 Materialize(rs3, ts, ReadyRoles(rs3, JobOf[n]), plan)
    BY DEF CompleteReduction
  <1>4. Committed(tasks, t, ts) /\ TasksStay(tasks, ts)
    BY <1>1, CommitsFacts
  <1>5. next \in Seq(TaskId) /\ roles[n].level + 1 \in Nat
    BY <1>2, NextInputsFacts, RoleFields DEF NextInputs
  <1>6. Cardinality(done) \in Nat
    <2>1. roles[n].items \in Seq(ItemType)
      BY <1>2, RoleFields
    <2>2. Len(roles[n].items) \in Nat /\ DOMAIN roles[n].items = 1..Len(roles[n].items)
      BY <2>1
    <2>3. IsFiniteSet(DOMAIN roles[n].items)
      BY <2>2, FS_Interval
    <2>4. done \subseteq DOMAIN roles[n].items
      OBVIOUS
    <2>5. IsFiniteSet(done)
      BY <2>3, <2>4, FS_Subset
    <2> QED
      BY <2>5, FS_CardinalityType
  <1>7. n = t[1] /\ done = {i \in WorkItems(roles, n) :
                             ts[roles[n].items[i].id].status = "Completed"}
    BY DEF WorkItems
  <1>8. work = WorkItems(roles, n) /\ next = NextInputs(roles, n)
    BY DEF WorkItems, NextInputs
  <1> HIDE DEF n, ts, done, next, work
  <1>9. CASE done # work /\ roles' = rs1 /\ tasks' = ts /\ UNCHANGED failed
    <2>1. /\ r1 \in RoleType /\ r1.status = roles[n].status /\ r1.by = roles[n].by
          /\ r1.shards = roles[n].shards /\ r1.launches = roles[n].launches
          /\ r1.completed = Cardinality(done) /\ r1.level = roles[n].level
          /\ r1.inputs = roles[n].inputs /\ r1.items = roles[n].items
          /\ r1.outputs = roles[n].outputs
      BY <1>2, <1>6 DEF RoleType
    <2>2. rs1 = [roles EXCEPT ![n] = r1]
      OBVIOUS
    <2> HIDE DEF r1, rs1
    <2>3. ReductionOutcome(roles, n, done, r1)
      BY <1>2, <1>8, <1>9, <2>1 DEF ReductionOutcome
    <2>4. ReductionCommit(roles, tasks, t, n, done, r1, rs1, ts)
      BY <1>1, <1>2, <1>4, <1>7, <2>1, <2>2, <2>3 DEF ReductionCommit
    <2>5. Inv(rs1, ts) /\ RolesStay(roles, rs1) /\ OrderStays(roles, tasks, rs1, ts)
      BY <2>4, ReductionCommitted, ReductionKeepsOrder
    <2> QED
      BY <1>4, <1>9, <2>5 DEF Sound, JobsInv
  <1>10. /\ r2 \in RoleType /\ r2.status = roles[n].status /\ r2.by = roles[n].by
         /\ r2.shards = roles[n].shards /\ r2.launches = roles[n].launches
         /\ r2.level = roles[n].level + 1 /\ r2.inputs = next /\ r2.items = <<>>
         /\ r2.outputs = roles[n].outputs
    <2>1. <<>> \in Seq(ItemType)
      OBVIOUS
    <2> QED
      BY <1>2, <1>5, <2>1 DEF RoleType
  <1>11. rs2 = [roles EXCEPT ![n] = r2] /\ rs2[n] = r2
    <2>1. rs2 = [roles EXCEPT ![n] = r2]
      OBVIOUS
    <2> HIDE DEF r2, rs2
    <2> QED
      BY <1>2, <2>1
  <1>12. ASSUME done = work, Len(next) > 1,
                NEW plan \in Plans(rs2, {}, {n}), roles' = ReducedRoles(rs2, {n}, plan),
                tasks' = WithReductions(rs2, ts, {n}, plan), UNCHANGED failed
         PROVE  Sound
    <2>1. rs2 = [roles EXCEPT ![n] = r2] /\ rs2[n] = r2
      BY <1>11
    <2> HIDE DEF r2, rs2
    <2>2. Len(next) >= 2
      <3> DEFINE k == Len(next)
      <3>1. k \in Nat /\ k > 1
        BY <1>5, <1>12
      <3> HIDE DEF k
      <3>2. k >= 2
        BY <3>1
      <3> QED
        BY <3>2 DEF k
    <2>3. ReductionOutcome(roles, n, done, r2)
      BY <1>2, <1>8, <1>10, <1>12, <2>2 DEF ReductionOutcome
    <2>4. ReductionCommit(roles, tasks, t, n, done, r2, rs2, ts)
      BY <1>1, <1>2, <1>4, <1>7, <1>10, <2>1, <2>3 DEF ReductionCommit
    <2>5. Inv(rs2, ts) /\ RolesStay(roles, rs2) /\ OrderStays(roles, tasks, rs2, ts)
      BY <2>4, ReductionCommitted, ReductionKeepsOrder
    <2>6. rs2[n].status = "Reducing" /\ rs2[n].items = <<>>
      BY <1>2, <1>10, <2>1
    <2> QED
      BY <1>2, <1>4, <1>12, <2>5, <2>6, RecordedThenReduced
  <1>13. ASSUME done = work, Len(next) = 1,
                NEW plan \in Plans(rs3, ReadyRoles(rs3, JobOf[n]), {}),
                Materialize(rs3, ts, ReadyRoles(rs3, JobOf[n]), plan)
         PROVE  Sound
    <2> HIDE DEF r2
    <2>1. /\ r3 \in RoleType /\ r3.status = "Completed" /\ r3.by = r2.by
          /\ r3.shards = r2.shards /\ r3.launches = r2.launches
          /\ r3.level = r2.level /\ r3.inputs = r2.inputs /\ r3.items = r2.items
          /\ r3.outputs = next
      BY <1>5, <1>10 DEF RoleType, RoleState
    <2>2. rs3 = [roles EXCEPT ![n] = r3]
      <3> HIDE DEF rs2
      <3>1. r3 = [rs2[n] EXCEPT !.status = "Completed", !.outputs = next]
        BY <1>11
      <3>2. rs3 = [rs2 EXCEPT ![n] = r3]
        BY <3>1
      <3> HIDE DEF rs3, r3
      <3> QED
        BY <1>2, <1>11, <3>2
    <2> HIDE DEF r3, rs3
    <2>3. next # <<>>
      <3>1. next = <<>> => Len(next) = 0
        OBVIOUS
      <3> QED
        BY <1>13, <3>1
    <2>4. ReductionOutcome(roles, n, done, r3)
      BY <1>8, <1>10, <1>13, <2>1, <2>3 DEF ReductionOutcome
    <2>5. ReductionCommit(roles, tasks, t, n, done, r3, rs3, ts)
      BY <1>1, <1>2, <1>4, <1>7, <2>1, <2>2, <2>4 DEF ReductionCommit
    <2>6. Inv(rs3, ts) /\ RolesStay(roles, rs3) /\ OrderStays(roles, tasks, rs3, ts)
      BY <2>5, ReductionCommitted, ReductionKeepsOrder
    <2> QED
      BY <1>4, <1>13, <2>6, RecordedThenMaterialized
  <1> HIDE DEF rs1, rs2, rs3
  <1> QED
    BY <1>3, <1>9, <1>12, <1>13

(* The roles of a chain complete, and only the last has the output.        *)
ChainDone(t, chain, rs) ==
    rs = [n \in Role |->
            IF n \notin Range(chain) THEN roles[n]
            ELSE [roles[n] EXCEPT
                    !.status = "Completed",
                    !.outputs = IF n = chain[Len(chain)] THEN <<t>> ELSE <<>>]]

LEMMA RoleTaskRecorded ==
    ASSUME JobsInv, NEW t \in DOMAIN tasks, tasks[t].status = "Open",
           tasks[t].binding = "Role", NEW chain, chain = tasks[t].roles, NEW rs,
           ChainDone(t, chain, rs)
    PROVE  /\ Inv(rs, Commits(t)) /\ RolesStay(roles, rs)
           /\ OrderStays(roles, tasks, rs, Commits(t))
  <1> DEFINE ts == Commits(t)
  <1>1. Committed(tasks, t, ts)
    BY CommitsFacts
  <1>2. Shape(roles, tasks) /\ roles \in [Role -> RoleType] /\ t \in TaskId
    BY DEF JobsInv, Inv, Shape
  <1>3. chain \in Seq(Role) /\ TaskInv(roles, tasks, t)
    BY DEF JobsInv, Inv, Shape, TaskType
  <1>4. ChainInv(roles, tasks, t)
    BY <1>3 DEF TaskInv
  <1>5. /\ t = <<t[1], 0, 1>>
        /\ \A i \in DOMAIN chain : /\ roles[chain[i]].launches = 1
                                   /\ roles[chain[i]].by = t[1]
                                   /\ roles[chain[i]].status = "Submitted"
        /\ \A i \in DOMAIN chain : i # Len(chain) =>
              /\ chain[i] \notin OutputRoles
              /\ Consumers(chain[i]) = {chain[i + 1]}
              /\ chain[i + 1] # t[1]
    BY <1>4 DEF ChainInv
  <1>6. \A n \in Range(chain) : /\ n \in Role /\ roles[n].launches = 1
                               /\ roles[n].by = t[1] /\ roles[n].status = "Submitted"
    BY <1>3, <1>5 DEF Range
  <1>7. \A n \in Role : n \notin Range(chain) => rs[n] = roles[n]
    BY DEF ChainDone
  <1>8. ASSUME NEW n \in Range(chain)
        PROVE  /\ rs[n] \in RoleType /\ rs[n].status = "Completed"
               /\ rs[n].outputs = IF n = chain[Len(chain)] THEN <<t>> ELSE <<>>
               /\ rs[n].by = roles[n].by /\ rs[n].shards = roles[n].shards
               /\ rs[n].launches = roles[n].launches /\ rs[n].level = roles[n].level
               /\ rs[n].inputs = roles[n].inputs /\ rs[n].items = roles[n].items
    <2> DEFINE r == roles[n]
               o == IF n = chain[Len(chain)] THEN <<t>> ELSE <<>>
               y == [r EXCEPT !.status = "Completed", !.outputs = o]
    <2>1. rs[n] = y /\ r \in RoleType
      BY <1>2, <1>6 DEF ChainDone
    <2>2. o \in Seq(TaskId)
      <3>1. <<t>> \in Seq(TaskId) /\ <<>> \in Seq(TaskId)
        BY <1>2
      <3> QED
        BY <3>1
    <2> HIDE DEF r, o
    <2>3. /\ y \in RoleType /\ y.status = "Completed" /\ y.outputs = o
          /\ y.by = r.by /\ y.shards = r.shards /\ y.launches = r.launches
          /\ y.level = r.level /\ y.inputs = r.inputs /\ y.items = r.items
      BY <2>1, <2>2 DEF RoleType, RoleState
    <2> HIDE DEF y
    <2> QED
      BY <2>1, <2>3 DEF r, o
  <1>9. \A n \in Role :
          /\ rs[n].by = roles[n].by /\ rs[n].shards = roles[n].shards
          /\ rs[n].launches = roles[n].launches /\ rs[n].level = roles[n].level
          /\ rs[n].inputs = roles[n].inputs /\ rs[n].items = roles[n].items
    BY <1>7, <1>8
  <1>10. Shape(rs, ts)
    <2>1. \A n \in Role : rs[n] \in RoleType
      BY <1>2, <1>7, <1>8
    <2>2. DOMAIN rs = Role /\ rs = [n \in Role |-> rs[n]]
      BY DEF ChainDone
    <2>3. rs \in [Role -> RoleType]
      BY <2>1, <2>2
    <2>4. \A u \in DOMAIN ts : ts[u] \in TaskType(ts[u].leaves)
      BY <1>1, <1>2 DEF Committed, Shape
    <2> HIDE DEF ts
    <2> QED
      BY <1>1, <1>2, <2>3, <2>4 DEF Shape, Committed
  <1> HIDE DEF ts
  <1>11. ASSUME NEW n \in Role PROVE RoleInv(rs, ts, n)
    <2>1. /\ LaunchInv(roles, n) /\ ResultInv(roles, n)
          /\ WaitInv(roles, tasks, n) /\ LevelInv(roles, tasks, n)
      BY DEF JobsInv, Inv, RoleInv
    <2>2. LaunchInv(rs, n)
      <3>1. \A m \in Role : rs[m].status \in Early <=> roles[m].status \in Early
        BY <1>6, <1>7, <1>8 DEF Early
      <3>2. \A m \in Role : rs[m].status = "Absent" <=> roles[m].status = "Absent"
        BY <1>6, <1>7, <1>8
      <3> QED
        BY <1>9, <2>1, <3>1, <3>2 DEF LaunchInv
    <2>3. ResultInv(rs, n)
      <3>1. ASSUME rs[n].status = "Completed", rs[n].outputs = <<>> PROVE Swallowed(rs, n)
        <4>1. CASE n \notin Range(chain)
          BY <1>7, <1>9, <2>1, <3>1, <4>1 DEF ResultInv, Swallowed
        <4>2. CASE n \in Range(chain)
          <5>1. n # chain[Len(chain)]
            <6>1. <<t>> # <<>>
              OBVIOUS
            <6> QED
              BY <1>8, <3>1, <4>2, <6>1
          <5>2. PICK i \in DOMAIN chain : chain[i] = n
            BY <4>2 DEF Range
          <5>3. /\ i # Len(chain) /\ n \notin OutputRoles
                /\ Consumers(n) = {chain[i + 1]} /\ chain[i + 1] # t[1]
            BY <1>5, <5>1, <5>2
          <5>4. i + 1 \in DOMAIN chain
            <6> DEFINE k == Len(chain)
            <6>1. k \in Nat /\ DOMAIN chain = 1..k /\ i \in 1..k /\ i # k
              BY <1>3, <5>3
            <6> HIDE DEF k
            <6>2. i + 1 \in 1..k
              BY <6>1
            <6> QED
              BY <6>1, <6>2
          <5> DEFINE m == chain[i + 1]
          <5>5. m \in Role /\ roles[m].launches = 1 /\ roles[m].by = t[1] /\ t[1] # m
            BY <1>3, <1>5, <5>3, <5>4
          <5>6. t[1] # 0
            BY <1>2, TaskIdFacts, JobsAssumption
          <5>7. rs[m].launches = 1 /\ rs[m].by # 0 /\ rs[m].by # m
            BY <1>9, <5>5, <5>6
          <5>8. \A x \in Role : n \in Range(DependsOn[x]) => x = m
            BY <5>3 DEF Consumers
          <5> HIDE DEF m
          <5> QED
            BY <5>3, <5>7, <5>8 DEF Swallowed
        <4> QED
          BY <4>1, <4>2
      <3>2. ASSUME rs[n].launches > 0, rs[n].by \in {0, n}, NEW d \in Range(DependsOn[n])
            PROVE  rs[d].status = "Completed" /\ rs[d].outputs # <<>>
        <4>1. roles[d].status = "Completed" /\ roles[d].outputs # <<>>
          BY <1>9, <2>1, <3>2 DEF ResultInv
        <4>2. d \in Role /\ d \notin Range(chain)
          BY <1>6, <4>1, RoleDependencies
        <4> QED
          BY <1>7, <4>1, <4>2
      <3> QED
        BY <3>1, <3>2 DEF ResultInv
    <2>4. WaitInv(rs, ts, n)
      <3>1. \A k \in 1..roles[n].shards :
              /\ <<n, 0, k>> \in DOMAIN ts /\ ts[<<n, 0, k>>] = tasks[<<n, 0, k>>]
              /\ ts[<<n, 0, k>>].binding = "Shard"
        BY <1>1, <2>1 DEF WaitInv, Committed
      <3>2. DoneShards(rs, ts, n) = DoneShards(roles, tasks, n)
        BY <1>9, <3>1 DEF DoneShards
      <3>3. CASE n \in Range(chain)
        <4>1. rs[n].status = "Completed"
          BY <1>8, <3>3
        <4> QED
          BY <1>9, <3>1, <4>1 DEF WaitInv
      <3>4. CASE n \notin Range(chain)
        <4>1. rs[n] = roles[n]
          BY <1>7, <3>4
        <4>2. roles[n].status = "Submitted" =>
                LET u == <<roles[n].by, 0, 1>>
                IN  /\ u \in DOMAIN ts /\ ts[u].status = "Open"
                    /\ ts[u].binding = "Role" /\ n \in Range(ts[u].roles)
          BY <1>1, <2>1, <3>4 DEF WaitInv, Committed
        <4>3. roles[n].status = "Sharded" =>
                /\ roles[n].shards > 0
                /\ roles[n].completed = Cardinality(DoneShards(rs, ts, n))
                /\ DoneShards(rs, ts, n) # 1..roles[n].shards
          BY <2>1, <3>2 DEF WaitInv
        <4> QED
          BY <3>1, <4>1, <4>2, <4>3 DEF WaitInv
      <3> QED
        BY <3>3, <3>4
    <2>5. LevelInv(rs, ts, n)
      <3>1. WorkItems(rs, n) = WorkItems(roles, n)
        BY <1>9 DEF WorkItems
      <3>2. \A i \in WorkItems(roles, n) :
              ts[roles[n].items[i].id] = tasks[roles[n].items[i].id]
        BY <1>1, <2>1 DEF LevelInv, WorkItems, Committed
      <3>3. DoneItems(rs, ts, n) = DoneItems(roles, tasks, n)
        BY <1>9, <3>1, <3>2 DEF DoneItems
      <3>4. \A i \in DOMAIN rs[n].items :
              /\ rs[n].items[i].id \in DOMAIN ts
              /\ ~rs[n].items[i].carry =>
                    /\ rs[n].items[i].id = <<n, rs[n].level + 1, i>>
                    /\ ts[rs[n].items[i].id].binding = "Reduction"
        BY <1>1, <1>9, <2>1, <3>2 DEF LevelInv, WorkItems, Committed
      <3>5. CASE n \notin Range(chain)
        <4>1. rs[n] = roles[n] /\ DOMAIN ts = DOMAIN tasks
          BY <1>1, <1>7, <3>5 DEF Committed
        <4> QED
          BY <2>1, <3>1, <3>3, <3>4, <4>1 DEF LevelInv
      <3>6. CASE n \in Range(chain)
        <4>1. roles[n].status = "Submitted" /\ rs[n].status = "Completed"
          BY <1>6, <1>8, <3>6
        <4>2. rs[n].items = <<>> /\ rs[n].inputs = <<>>
          BY <1>9, <2>1, <4>1 DEF LevelInv
        <4>3. Range(<<>>) = {} /\ Range(<<t>>) = {t}
          BY RangeFacts DEF Range
        <4>4. Range(rs[n].outputs) \subseteq DOMAIN ts /\ Range(rs[n].inputs) \subseteq DOMAIN ts
          BY <1>1, <1>8, <3>6, <4>2, <4>3 DEF Committed
        <4> QED
          BY <3>4, <4>1, <4>2, <4>4 DEF LevelInv
      <3> QED
        BY <3>5, <3>6
    <2> QED
      BY <2>2, <2>3, <2>4, <2>5 DEF RoleInv
  <1>12. ASSUME NEW u \in DOMAIN ts PROVE TaskInv(rs, ts, u)
    <2>1. u \in DOMAIN tasks
      BY <1>1 DEF Committed
    <2>2. /\ TaskInv(roles, tasks, u) /\ tasks[u].roles \in Seq(Role) /\ u \in TaskId
          /\ u[1] \in Role
      BY <2>1, TaskIdFacts DEF JobsInv, Inv, Shape, TaskType
    <2>3. \A i \in DOMAIN tasks[u].roles : tasks[u].roles[i] \in Role
      BY <2>2
    <2>4. ts[u].binding = tasks[u].binding /\ ts[u].roles = tasks[u].roles
      BY <1>1, <2>1 DEF Committed
    <2>5. u # t => ts[u] = tasks[u]
      BY <1>1, <2>1 DEF Committed
    <2>6. ts[t].status = "Completed"
      BY <1>1 DEF Committed
    <2>7. rs[u[1]].launches = 1
          /\ u[2] <= rs[u[1]].level + (IF rs[u[1]].items = <<>> THEN 0 ELSE 1)
      BY <1>9, <2>2 DEF TaskInv
    <2>8. ts[u].status = "Uncertain" =>
             \A m \in Range(ts[u].roles) : rs[m].status = "Uncertain"
      <3>1. \A m \in Role : roles[m].status = "Uncertain" => rs[m] = roles[m]
        BY <1>6, <1>7
      <3> QED
        BY <2>2, <2>3, <2>4, <2>5, <2>6, <3>1 DEF TaskInv, Range
    <2>9. ts[u].binding = "Role" => ChainInv(rs, ts, u)
      <3>1. SUFFICES ASSUME tasks[u].binding = "Role" PROVE ChainInv(rs, ts, u)
        BY <2>4
      <3>2. ChainInv(roles, tasks, u)
        BY <2>2, <3>1 DEF TaskInv
      <3>3. ASSUME NEW i \in DOMAIN tasks[u].roles, ts[u].status = "Open"
            PROVE  rs[tasks[u].roles[i]].status = "Submitted"
        <4> DEFINE m == tasks[u].roles[i]
        <4>1. m \in Role /\ u # t /\ u = <<u[1], 0, 1>> /\ roles[m].by = u[1]
          BY <2>3, <2>6, <3>2, <3>3 DEF ChainInv
        <4>2. roles[m].status = "Submitted"
          BY <2>5, <3>2, <3>3, <4>1 DEF ChainInv
        <4> HIDE DEF m
        <4>3. m \notin Range(chain)
          <5>1. SUFFICES ASSUME m \in Range(chain) PROVE FALSE
            OBVIOUS
          <5>2. u[1] = t[1]
            BY <1>6, <4>1, <5>1
          <5> QED
            BY <1>5, <4>1, <5>2
        <4> QED
          BY <1>7, <4>1, <4>2, <4>3 DEF m
      <3>4. \A i \in DOMAIN tasks[u].roles :
              /\ rs[tasks[u].roles[i]].launches = 1 /\ rs[tasks[u].roles[i]].by = u[1]
              /\ ts[u].status = "Open" => rs[tasks[u].roles[i]].status = "Submitted"
        BY <1>9, <2>3, <3>2, <3>3 DEF ChainInv
      <3>5. ts[u].roles = tasks[u].roles
        BY <2>4
      <3> QED
        BY <3>2, <3>4, <3>5, ChainKept
    <2>10. ts[u].binding = "Shard" =>
            /\ u[2] = 0 /\ u[3] \in 1..rs[u[1]].shards /\ ts[u].roles = <<u[1]>>
            /\ ts[u].status = "Open" => rs[u[1]].status \in {"Sharded", "Uncertain"}
      <3>1. \A m \in Role : roles[m].status \in {"Sharded", "Uncertain"} => rs[m] = roles[m]
        BY <1>6, <1>7
      <3> QED
        BY <1>9, <2>2, <2>4, <2>5, <2>6, <3>1 DEF TaskInv
    <2>11. ts[u].binding = "Reduction" =>
            /\ ts[u].roles = <<u[1]>> /\ ts[u].status # "Uncertain"
            /\ ts[u].status = "Open" =>
                  /\ u[3] \in DOMAIN rs[u[1]].items
                  /\ rs[u[1]].items[u[3]] = [carry |-> FALSE, id |-> u]
      BY <1>9, <2>2, <2>4, <2>5, <2>6 DEF TaskInv
    <2> QED
      BY <2>7, <2>8, <2>9, <2>10, <2>11 DEF TaskInv
  <1>13. RolesStay(roles, rs)
    BY <1>6, <1>7 DEF RolesStay
  <1>14. OrderStays(roles, tasks, rs, ts)
    <2>1. SUFFICES ASSUME Ordered(roles, tasks), NEW n \in Role
                   PROVE  OrderInv(rs[n], n, ts)
      BY DEF OrderStays, Ordered
    <2>2. SameLeaves(tasks, ts)
      BY <1>1, CommittedLeaves
    <2>3. OrderInv(roles[n], n, tasks) /\ Inv(roles, tasks)
      BY <2>1 DEF Ordered, JobsInv
    <2>4. OrderInv(roles[n], n, ts)
      BY <2>2, <2>3, OrderKept
    <2>5. CASE n \notin Range(chain)
      BY <1>7, <2>4, <2>5
    <2>6. CASE n \in Range(chain)
      <3>1. rs[n].status = "Completed" /\ rs[n].shards = 0
        BY <1>6, <1>8, <2>4, <2>6 DEF OrderInv
      <3>2. 1..0 = {} /\ ~(0 > 0)
        OBVIOUS
      <3> QED
        BY <3>1, <3>2 DEF OrderInv
    <2> QED
      BY <2>5, <2>6
  <1> QED
    BY <1>10, <1>11, <1>12, <1>13, <1>14 DEF Inv, ts

LEMMA CompleteRoleTaskStep ==
    ASSUME JobsInv, NEW t \in DOMAIN tasks, CompleteRoleTask(t)
    PROVE  Sound
  <1> DEFINE chain == tasks[t].roles
             ts == Commits(t)
             rs == [n \in Role |->
                      IF n \notin Range(chain) THEN roles[n]
                      ELSE [roles[n] EXCEPT
                              !.status = "Completed",
                              !.outputs = IF n = chain[Len(chain)] THEN <<t>> ELSE <<>>]]
             j == JobOf[t[1]]
  <1>1. tasks[t].status = "Open" /\ tasks[t].binding = "Role"
    BY DEF CompleteRoleTask
  <1>2. PICK plan \in Plans(rs, ReadyRoles(rs, j), {}) :
           Materialize(rs, ts, ReadyRoles(rs, j), plan)
    BY DEF CompleteRoleTask
  <1>3. Inv(rs, ts) /\ RolesStay(roles, rs) /\ OrderStays(roles, tasks, rs, ts)
    <2>1. ChainDone(t, chain, rs)
      BY DEF ChainDone
    <2> HIDE DEF rs
    <2> QED
      BY <1>1, <2>1, RoleTaskRecorded
  <1>4. TasksStay(tasks, ts)
    BY <1>1, CommitsFacts
  <1> HIDE DEF rs, ts, j
  <1> QED
    BY <1>2, <1>3, <1>4, RecordedThenMaterialized

(* The roles a pass of reap_expired_executions_at makes Uncertain.         *)
LostRoles(S) == {n \in Role : \E t \in S : n \in Range(tasks[t].roles)}

LEMMA LoseTasksStep ==
    ASSUME JobsInv, NEW S \in SUBSET OpenExclusive, LoseTasks(S)
    PROVE  Sound
  <1> DEFINE C == LostRoles(S)
  <1>1. \A t \in S : /\ t \in DOMAIN tasks /\ tasks[t].status = "Open"
                     /\ tasks[t].binding # "Reduction"
    BY DEF OpenExclusive
  <1>2. Shape(roles, tasks) /\ roles \in [Role -> RoleType]
    BY DEF JobsInv, Inv, Shape
  <1>3. \A t \in DOMAIN tasks :
          /\ TaskInv(roles, tasks, t) /\ tasks[t].roles \in Seq(Role) /\ t[1] \in Role
          /\ tasks[t] \in TaskType(tasks[t].leaves) /\ t \in TaskId
    BY TaskIdFacts DEF JobsInv, Inv, Shape, TaskType
  <1>4. /\ DOMAIN tasks' = DOMAIN tasks
        /\ \A t \in DOMAIN tasks : t \notin S => tasks'[t] = tasks[t]
        /\ failed' = failed
    BY DEF LoseTasks
  <1>5. ASSUME NEW t \in S
        PROVE  /\ tasks'[t] \in TaskType(tasks'[t].leaves) /\ tasks'[t].status = "Uncertain"
               /\ tasks'[t].binding = tasks[t].binding /\ tasks'[t].roles = tasks[t].roles
               /\ tasks'[t].leaves = tasks[t].leaves
    <2> DEFINE x == tasks[t]
               y == [x EXCEPT !.status = "Uncertain"]
    <2>1. tasks'[t] = y /\ x \in TaskType(x.leaves)
      BY <1>1, <1>3 DEF LoseTasks
    <2> HIDE DEF x
    <2>2. /\ y.status = "Uncertain" /\ y.binding = x.binding /\ y.roles = x.roles
          /\ y.leaves = x.leaves /\ y \in TaskType(x.leaves)
      BY <2>1 DEF TaskType
    <2> HIDE DEF y
    <2> QED
      BY <2>1, <2>2 DEF x
  <1>6. \A n \in Role : n \notin C => roles'[n] = roles[n]
    BY DEF LoseTasks, LostRoles
  <1>7. ASSUME NEW n \in C
        PROVE  /\ n \in Role /\ roles'[n] \in RoleType /\ roles'[n].status = "Uncertain"
               /\ roles'[n].outputs = roles[n].outputs
               /\ roles'[n].by = roles[n].by /\ roles'[n].shards = roles[n].shards
               /\ roles'[n].launches = roles[n].launches /\ roles'[n].level = roles[n].level
               /\ roles'[n].inputs = roles[n].inputs /\ roles'[n].items = roles[n].items
    <2> DEFINE r == roles[n]
               y == [r EXCEPT !.status = "Uncertain"]
    <2>1. n \in Role /\ roles'[n] = y /\ r \in RoleType
      BY <1>2 DEF LoseTasks, LostRoles
    <2> HIDE DEF r
    <2>2. /\ y \in RoleType /\ y.status = "Uncertain" /\ y.outputs = r.outputs
          /\ y.by = r.by /\ y.shards = r.shards /\ y.launches = r.launches
          /\ y.level = r.level /\ y.inputs = r.inputs /\ y.items = r.items
      BY <2>1 DEF RoleType, RoleState
    <2> HIDE DEF y
    <2> QED
      BY <2>1, <2>2 DEF r
  <1>8. ASSUME NEW n \in C
        PROVE  /\ roles[n].status \in {"Submitted", "Sharded", "Uncertain"}
               /\ roles[n].status = "Submitted" =>
                     <<roles[n].by, 0, 1>> \in S /\ n \in Range(tasks[<<roles[n].by, 0, 1>>].roles)
    <2>1. PICK t \in S : n \in Range(tasks[t].roles)
      BY DEF LostRoles
    <2>2. /\ tasks[t].status = "Open" /\ TaskInv(roles, tasks, t)
          /\ tasks[t].binding \in {"Role", "Shard"}
      BY <1>1, <1>3 DEF TaskType
    <2>3. CASE tasks[t].binding = "Role"
      <3>1. ChainInv(roles, tasks, t)
        BY <2>2, <2>3 DEF TaskInv
      <3>2. PICK i \in DOMAIN tasks[t].roles : tasks[t].roles[i] = n
        BY <2>1 DEF Range
      <3>3. roles[n].status = "Submitted" /\ roles[n].by = t[1] /\ t = <<t[1], 0, 1>>
        BY <2>2, <3>1, <3>2 DEF ChainInv
      <3> QED
        BY <2>1, <3>3
    <2>4. CASE tasks[t].binding = "Shard"
      <3>1. tasks[t].roles = <<t[1]>> /\ roles[t[1]].status \in {"Sharded", "Uncertain"}
        BY <2>2, <2>4 DEF TaskInv
      <3>2. n = t[1]
        BY <2>1, <3>1, RangeFacts
      <3> QED
        BY <3>1, <3>2
    <2> QED
      BY <2>2, <2>3, <2>4
  <1>9. \A n \in Role :
          /\ roles'[n].by = roles[n].by /\ roles'[n].shards = roles[n].shards
          /\ roles'[n].launches = roles[n].launches /\ roles'[n].level = roles[n].level
          /\ roles'[n].inputs = roles[n].inputs /\ roles'[n].items = roles[n].items
          /\ roles'[n].outputs = roles[n].outputs
    BY <1>6, <1>7
  <1>10. \A t \in DOMAIN tasks :
          /\ tasks'[t].binding = tasks[t].binding /\ tasks'[t].roles = tasks[t].roles
          /\ tasks'[t].status = "Completed" <=> tasks[t].status = "Completed"
          /\ tasks'[t].status = "Open" => tasks[t].status = "Open" /\ t \notin S
    <2> TAKE t \in DOMAIN tasks
    <2>1. CASE t \in S
      BY <1>1, <1>5, <2>1
    <2>2. CASE t \notin S
      BY <1>4, <2>2
    <2> QED
      BY <2>1, <2>2
  <1>11. \A t \in S : \A n \in Range(tasks[t].roles) : n \in C
    <2>1. \A t \in S : \A n \in Range(tasks[t].roles) : n \in Role
      BY <1>1, <1>3 DEF Range
    <2> QED
      BY <2>1 DEF LostRoles
  <1> HIDE DEF C
  <1>12. Shape(roles', tasks')
    <2>1. \A n \in Role : roles'[n] \in RoleType
      BY <1>2, <1>6, <1>7
    <2>2. roles' = [n \in Role |-> roles'[n]]
      BY DEF LoseTasks
    <2>3. roles' \in [Role -> RoleType]
      BY <2>1, <2>2
    <2>4. \A t \in DOMAIN tasks' : tasks'[t] \in TaskType(tasks'[t].leaves) /\ t \in TaskId
      BY <1>3, <1>4, <1>5
    <2> QED
      BY <2>3, <2>4 DEF Shape
  <1>13. ASSUME NEW n \in Role PROVE RoleInv(roles', tasks', n)
    <2>1. /\ LaunchInv(roles, n) /\ ResultInv(roles, n)
          /\ WaitInv(roles, tasks, n) /\ LevelInv(roles, tasks, n)
      BY DEF JobsInv, Inv, RoleInv
    <2>2. LaunchInv(roles', n)
      <3>1. \A m \in Role : roles'[m].status \in Early <=> roles[m].status \in Early
        BY <1>6, <1>7, <1>8 DEF Early
      <3>2. \A m \in Role : roles'[m].status = "Absent" <=> roles[m].status = "Absent"
        BY <1>6, <1>7, <1>8
      <3> QED
        BY <1>9, <2>1, <3>1, <3>2 DEF LaunchInv
    <2>3. ResultInv(roles', n)
      <3>1. \A m \in Role : roles'[m].status = "Completed" <=> roles[m].status = "Completed"
        BY <1>6, <1>7, <1>8
      <3> QED
        BY <1>9, <2>1, <3>1, RoleDependencies DEF ResultInv, Swallowed
    <2>4. WaitInv(roles', tasks', n)
      <3>1. \A k \in 1..roles'[n].shards :
              <<n, 0, k>> \in DOMAIN tasks' /\ tasks'[<<n, 0, k>>].binding = "Shard"
        BY <1>4, <1>9, <1>10, <2>1 DEF WaitInv
      <3>2. DoneShards(roles', tasks', n) = DoneShards(roles, tasks, n)
        BY <1>9, <1>10, <2>1 DEF DoneShards, WaitInv
      <3>3. CASE n \in C
        <4>1. roles'[n].status = "Uncertain"
          BY <1>7, <3>3
        <4> QED
          BY <3>1, <4>1 DEF WaitInv
      <3>4. CASE n \notin C
        <4>1. roles'[n] = roles[n]
          BY <1>6, <3>4
        <4>2. roles[n].status = "Submitted" =>
                LET u == <<roles[n].by, 0, 1>>
                IN  /\ u \in DOMAIN tasks' /\ tasks'[u].status = "Open"
                    /\ tasks'[u].binding = "Role" /\ n \in Range(tasks'[u].roles)
          BY <1>4, <1>11, <2>1, <3>4 DEF WaitInv
        <4>3. roles[n].status = "Sharded" =>
                /\ roles[n].shards > 0
                /\ roles[n].completed = Cardinality(DoneShards(roles', tasks', n))
                /\ DoneShards(roles', tasks', n) # 1..roles[n].shards
          BY <2>1, <3>2 DEF WaitInv
        <4> QED
          BY <3>1, <4>1, <4>2, <4>3 DEF WaitInv
      <3> QED
        BY <3>3, <3>4
    <2>5. LevelInv(roles', tasks', n)
      <3>1. WorkItems(roles', n) = WorkItems(roles, n)
        BY <1>9 DEF WorkItems
      <3>2. DoneItems(roles', tasks', n) = DoneItems(roles, tasks, n)
        BY <1>9, <1>10, <2>1, <3>1 DEF DoneItems, WorkItems, LevelInv
      <3>3. /\ Range(roles'[n].outputs) \subseteq DOMAIN tasks'
            /\ Range(roles'[n].inputs) \subseteq DOMAIN tasks'
            /\ \A i \in DOMAIN roles'[n].items :
                  /\ roles'[n].items[i].id \in DOMAIN tasks'
                  /\ ~roles'[n].items[i].carry =>
                        /\ roles'[n].items[i].id = <<n, roles'[n].level + 1, i>>
                        /\ tasks'[roles'[n].items[i].id].binding = "Reduction"
        BY <1>4, <1>9, <1>10, <2>1 DEF LevelInv
      <3>4. CASE n \notin C
        <4>1. roles'[n] = roles[n]
          BY <1>6, <3>4
        <4> QED
          BY <2>1, <3>1, <3>2, <3>3, <4>1 DEF LevelInv
      <3>5. CASE n \in C
        <4>1. roles'[n].status = "Uncertain" /\ roles'[n].items = <<>>
              /\ roles'[n].inputs = <<>> /\ roles'[n].level = 0
          BY <1>7, <1>8, <2>1, <3>5 DEF LevelInv
        <4> QED
          BY <3>3, <4>1 DEF LevelInv
      <3> QED
        BY <3>4, <3>5
    <2> QED
      BY <2>2, <2>3, <2>4, <2>5 DEF RoleInv
  <1>14. ASSUME NEW u \in DOMAIN tasks' PROVE TaskInv(roles', tasks', u)
    <2>1. /\ u \in DOMAIN tasks /\ TaskInv(roles, tasks, u) /\ u[1] \in Role
          /\ tasks[u].roles \in Seq(Role)
      BY <1>3, <1>4
    <2>2. \A i \in DOMAIN tasks[u].roles : tasks[u].roles[i] \in Role
      BY <2>1
    <2>3. /\ tasks'[u].binding = tasks[u].binding /\ tasks'[u].roles = tasks[u].roles
          /\ tasks'[u].status = "Open" => tasks[u].status = "Open" /\ u \notin S
      BY <1>10, <2>1
    <2>4. roles'[u[1]].launches = 1
          /\ u[2] <= roles'[u[1]].level + (IF roles'[u[1]].items = <<>> THEN 0 ELSE 1)
      BY <1>9, <2>1 DEF TaskInv
    <2>5. tasks'[u].status = "Uncertain" =>
             \A m \in Range(tasks'[u].roles) : roles'[m].status = "Uncertain"
      <3>1. CASE u \in S
        BY <1>7, <1>11, <2>3, <3>1
      <3>2. CASE u \notin S
        <4>1. tasks'[u] = tasks[u]
          BY <1>4, <2>1, <3>2
        <4>2. \A m \in Role : roles[m].status = "Uncertain" => roles'[m].status = "Uncertain"
          BY <1>6, <1>7
        <4> QED
          BY <2>1, <2>2, <4>1, <4>2 DEF TaskInv, Range
      <3> QED
        BY <3>1, <3>2
    <2>6. tasks'[u].binding = "Role" => ChainInv(roles', tasks', u)
      <3>1. SUFFICES ASSUME tasks[u].binding = "Role" PROVE ChainInv(roles', tasks', u)
        BY <2>3
      <3>2. ChainInv(roles, tasks, u)
        BY <2>1, <3>1 DEF TaskInv
      <3>3. ASSUME NEW i \in DOMAIN tasks[u].roles, tasks'[u].status = "Open"
            PROVE  roles'[tasks[u].roles[i]].status = "Submitted"
        <4> DEFINE m == tasks[u].roles[i]
        <4>1. /\ m \in Role /\ u = <<u[1], 0, 1>> /\ roles[m].by = u[1]
              /\ roles[m].status = "Submitted"
          BY <2>2, <2>3, <3>2, <3>3 DEF ChainInv
        <4> HIDE DEF m
        <4>2. m \notin C
          BY <1>8, <2>3, <3>3, <4>1
        <4> QED
          BY <1>6, <4>1, <4>2 DEF m
      <3>4. \A i \in DOMAIN tasks[u].roles :
              /\ roles'[tasks[u].roles[i]].launches = 1 /\ roles'[tasks[u].roles[i]].by = u[1]
              /\ tasks'[u].status = "Open" => roles'[tasks[u].roles[i]].status = "Submitted"
        BY <1>9, <2>2, <3>2, <3>3 DEF ChainInv
      <3>5. tasks'[u].roles = tasks[u].roles
        BY <2>3
      <3> QED
        BY <3>2, <3>4, <3>5, ChainKept
    <2>7. tasks'[u].binding = "Shard" =>
            /\ u[2] = 0 /\ u[3] \in 1..roles'[u[1]].shards /\ tasks'[u].roles = <<u[1]>>
            /\ tasks'[u].status = "Open" => roles'[u[1]].status \in {"Sharded", "Uncertain"}
      <3>1. roles'[u[1]].status \in {roles[u[1]].status, "Uncertain"}
        BY <1>6, <1>7, <2>1
      <3> QED
        BY <1>9, <2>1, <2>3, <3>1 DEF TaskInv
    <2>8. tasks'[u].binding = "Reduction" =>
            /\ tasks'[u].roles = <<u[1]>> /\ tasks'[u].status # "Uncertain"
            /\ tasks'[u].status = "Open" =>
                  /\ u[3] \in DOMAIN roles'[u[1]].items
                  /\ roles'[u[1]].items[u[3]] = [carry |-> FALSE, id |-> u]
      <3>1. tasks[u].binding = "Reduction" => u \notin S /\ tasks'[u] = tasks[u]
        BY <1>1, <1>4, <2>1
      <3> QED
        BY <1>9, <2>1, <2>3, <3>1 DEF TaskInv
    <2> QED
      BY <2>4, <2>5, <2>6, <2>7, <2>8 DEF TaskInv
  <1>15. RolesStay(roles, roles')
    BY <1>6, <1>7, <1>8, <1>9 DEF RolesStay
  <1>16. TasksStay(tasks, tasks')
    BY <1>1, <1>4 DEF TasksStay
  <1>17. failed' \in BOOLEAN
    BY <1>4 DEF JobsInv
  <1>18. OrderStays(roles, tasks, roles', tasks')
    <2>1. SUFFICES ASSUME Ordered(roles, tasks), NEW n \in Role
                   PROVE  OrderInv(roles'[n], n, tasks')
      BY DEF OrderStays, Ordered
    <2>2. SameLeaves(tasks, tasks')
      BY <1>4, <1>5 DEF SameLeaves
    <2>3. OrderInv(roles[n], n, tasks) /\ Inv(roles, tasks)
      BY <2>1 DEF Ordered, JobsInv
    <2>4. OrderInv(roles[n], n, tasks')
      BY <2>2, <2>3, OrderKept
    <2>5. CASE n \notin C
      BY <1>6, <2>4, <2>5
    <2>6. CASE n \in C
      BY <1>7, <2>4, <2>6 DEF OrderInv
    <2> QED
      BY <2>5, <2>6
  <1> QED
    BY <1>12, <1>13, <1>14, <1>15, <1>16, <1>17, <1>18 DEF Sound, JobsInv, Inv

(* What may be planned for a role depends on the statuses alone.           *)
LEMMA SamePlans ==
    ASSUME NEW rs, NEW rs2, \A n \in Role : rs2[n].status = rs[n].status,
           NEW n \in Role, IsReady(rs, n)
    PROVE  IsReady(rs2, n) /\ RolePlans(rs2, n) = RolePlans(rs, n)
  <1>1. ASSUME NEW m, NEW c PROVE Continues(rs2, m, c) <=> Continues(rs, m, c)
    BY DEF Continues, Consumers
  <1>2. FusionPrefixes(rs2, n) = FusionPrefixes(rs, n)
    BY <1>1 DEF FusionPrefixes
  <1>3. RolePlans(rs2, n) = RolePlans(rs, n)
    BY <1>2 DEF RolePlans
  <1>4. IsReady(rs2, n)
    BY RoleDependencies DEF IsReady
  <1> QED
    BY <1>3, <1>4

LEMMA RefreshStep ==
    ASSUME JobsInv, Refresh
    PROVE  Sound
  <1>1. PICK P \in SUBSET {j \in Job : Submitted(j)} :
          \E plan \in Plans(roles, UNION {ReadyRoles(roles, j) : j \in P},
                            StalledReductions) : RefreshWith(P, plan)
    BY DEF Refresh
  <1> DEFINE R == UNION {ReadyRoles(roles, j) : j \in P}
             D == StalledReductions
  <1>2. PICK plan \in Plans(roles, R, D) : RefreshWith(P, plan)
    BY <1>1
  <1> DEFINE rs == ReducedRoles(roles, D, plan)
             ts == WithReductions(roles, tasks, D, plan)
  <1>3. Materialize(rs, ts, R, plan)
    BY <1>2 DEF RefreshWith
  <1>4. R \in SUBSET Role /\ \A n \in R : IsReady(roles, n)
    BY ReadyFacts
  <1>5. /\ D \subseteq Role
        /\ \A n \in D : roles[n].status = "Reducing" /\ roles[n].items = <<>>
    BY DEF StalledReductions
  <1> HIDE DEF R, D
  <1>6. \A n \in D : n \notin R
    BY <1>4, <1>5 DEF IsReady
  <1>7. /\ \A n \in R : plan[n] \in RolePlans(roles, n)
        /\ \A n \in D : plan[n] \in ReductionPlans(roles, n)
    BY <1>2, <1>6, PlansFacts
  <1>8. Inv(roles, tasks) /\ failed \in BOOLEAN
    BY DEF JobsInv
  <1>9. Reducing(roles, tasks, D, plan, rs, ts)
    BY <1>5, <1>7, <1>8 DEF Reducing
  <1> HIDE DEF rs, ts
  <1>10. /\ Inv(rs, ts) /\ RolesStay(roles, rs) /\ TasksStay(tasks, ts)
         /\ OrderStays(roles, tasks, rs, ts)
    BY <1>9, ReduceSound
  <1>11. \A n \in Role : rs[n].status = roles[n].status
    BY <1>9, ReducedStates
  <1>12. \A n \in R : IsReady(rs, n) /\ plan[n] \in RolePlans(rs, n)
    BY <1>4, <1>7, <1>11, SamePlans
  <1>13. /\ Inv(roles', tasks') /\ failed' \in BOOLEAN
         /\ RolesStay(rs, roles') /\ TasksStay(ts, tasks')
         /\ OrderStays(rs, ts, roles', tasks')
    BY <1>3, <1>4, <1>8, <1>10, <1>12, MaterializeSound
  <1> QED
    BY <1>10, <1>13, StayTransitive DEF Sound, JobsInv

LEMMA NextSound ==
    ASSUME JobsInv, [Next]_vars
    PROVE  Sound
  <1>1. CASE Next
    BY <1>1, SubmitJobStep, CompleteRoleTaskStep, CompleteShardStep,
       CompleteReductionStep, LoseTasksStep, RefreshStep DEF Next
  <1>2. CASE UNCHANGED vars
    <2>1. roles' = roles /\ tasks' = tasks /\ failed' = failed
      BY <1>2 DEF vars
    <2>2. /\ RolesStay(roles, roles') /\ TasksStay(tasks, tasks')
          /\ OrderStays(roles, tasks, roles', tasks')
      BY <2>1 DEF RolesStay, TasksStay, OrderStays
    <2> QED
      BY <2>1, <2>2 DEF Sound, JobsInv
  <1> QED
    BY <1>1, <1>2

LEMMA InitSound ==
    ASSUME Init
    PROVE  JobsInv
  <1>1. roles = [n \in Role |-> Idle("Absent")] /\ tasks = <<>> /\ failed = FALSE
    BY DEF Init
  <1>2. DOMAIN tasks = {}
    <2>1. DOMAIN <<>> = {}
      OBVIOUS
    <2> QED
      BY <1>1, <2>1
  <1>3. ASSUME NEW n \in Role
        PROVE  /\ ResultInv(roles, n) /\ WaitInv(roles, tasks, n) /\ LevelInv(roles, tasks, n)
               /\ roles[n].status = "Absent" /\ roles[n].launches = 0 /\ roles[n].by = 0
               /\ roles[n].shards = 0 /\ roles[n] \in RoleType
    <2> DEFINE st == "Absent"
    <2>1. st \in {"Absent", "Waiting"} /\ roles[n] = Idle(st)
      BY <1>1
    <2> HIDE DEF st
    <2>2. /\ ResultInv(roles, n) /\ WaitInv(roles, tasks, n) /\ LevelInv(roles, tasks, n)
          /\ roles[n].status = st /\ roles[n].launches = 0 /\ roles[n].by = 0
          /\ roles[n].shards = 0 /\ roles[n] \in RoleType
      BY <2>1, IdleRole
    <2> QED
      BY <2>2 DEF st
  <1>4. Shape(roles, tasks)
    <2>1. roles = [n \in Role |-> roles[n]]
      BY <1>1
    <2>2. roles \in [Role -> RoleType]
      BY <1>3, <2>1
    <2> QED
      BY <1>2, <2>2 DEF Shape
  <1>5. ASSUME NEW n \in Role PROVE RoleInv(roles, tasks, n)
    <2>1. LaunchInv(roles, n)
      BY <1>3 DEF LaunchInv, Early
    <2> QED
      BY <1>3, <2>1 DEF RoleInv
  <1> QED
    BY <1>1, <1>2, <1>4, <1>5 DEF JobsInv, Inv

(* The inductive invariant holds: a commit, a reduction level, a launch, a *)
(* loss and a refresh each leave roles and tasks in agreement.             *)
THEOREM JobsInvariant == Spec => []JobsInv
  <1>1. Init => JobsInv
    BY InitSound
  <1>2. JobsInv /\ [Next]_vars => JobsInv'
    BY NextSound DEF Sound
  <1> QED
    BY <1>1, <1>2, PTL DEF Spec

-----------------------------------------------------------------------------
(* What the invariant says of the states of the role engine.               *)

(* Everything a role refers to was submitted: the lookups the views and    *)
(* handlers `expect' to succeed do, for any jobs.                          *)
THEOREM JobsTypeCorrect == Spec => []TypeOK
  <1>1. ASSUME JobsInv PROVE TypeOK
    <2>1. ASSUME NEW n \in Role
          PROVE  /\ roles[n].status \in RoleState
                 /\ Range(roles[n].outputs) \subseteq DOMAIN tasks
                 /\ Range(ShardTasks(roles[n], n)) \subseteq DOMAIN tasks
                 /\ Range(roles[n].inputs) \subseteq DOMAIN tasks
                 /\ \A i \in DOMAIN roles[n].items : roles[n].items[i].id \in DOMAIN tasks
      <3>1. /\ roles[n] \in RoleType /\ WaitInv(roles, tasks, n) /\ LevelInv(roles, tasks, n)
        BY <1>1 DEF JobsInv, Inv, Shape, RoleInv
      <3>2. Range(ShardTasks(roles[n], n)) \subseteq DOMAIN tasks
        BY <3>1, ShardTasksFacts
      <3>3. roles[n].status \in RoleState
        BY <3>1, RoleFields
      <3> QED
        BY <3>1, <3>2, <3>3 DEF LevelInv
    <2>2. \A t \in DOMAIN tasks : tasks[t].status \in {"Open", "Completed", "Uncertain"}
      BY <1>1 DEF JobsInv, Inv, Shape, TaskType
    <2>3. failed \in BOOLEAN
      BY <1>1 DEF JobsInv
    <2> QED
      BY <2>1, <2>2, <2>3 DEF TypeOK
  <1> QED
    BY <1>1, JobsInvariant, PTL

(* No role is launched twice, however commits and polls interleave.        *)
THEOREM LaunchedOnceHolds == Spec => []LaunchedOnce
  <1>1. ASSUME JobsInv PROVE LaunchedOnce
    BY <1>1 DEF JobsInv, Inv, RoleInv, LaunchInv, LaunchedOnce
  <1> QED
    BY <1>1, JobsInvariant, PTL

(* Fusion never takes an object away that somebody waits for: a role is    *)
(* launched when all its dependencies have results, and every declared     *)
(* output of a job has an object.                                          *)
THEOREM LaunchedOnResultsHolds == Spec => []LaunchedOnResults
  <1>1. ASSUME JobsInv PROVE LaunchedOnResults
    <2>1. \A n \in Role : ResultInv(roles, n)
      BY <1>1 DEF JobsInv, Inv, RoleInv
    <2> QED
      BY <2>1 DEF LaunchedOnResults, ResultInv, Swallowed
  <1> QED
    BY <1>1, JobsInvariant, PTL

(* A role with a task that was given up is Uncertain, whatever commits     *)
(* later.                                                                  *)
THEOREM LostWorkHolds == Spec => []LostWorkIsUncertain
  <1>1. ASSUME JobsInv PROVE LostWorkIsUncertain
    BY <1>1 DEF JobsInv, Inv, TaskInv, LostWorkIsUncertain
  <1> QED
    BY <1>1, JobsInvariant, PTL

(* A set is as large as one it corresponds to, element by element.         *)
LEMMA SameSize ==
    ASSUME NEW S, IsFiniteSet(S), NEW T, NEW f \in [S -> T],
           \A x, y \in S : f[x] = f[y] => x = y, \A y \in T : \E x \in S : f[x] = y
    PROVE  Cardinality(T) = Cardinality(S)
  <1>1. f \in Bijection(S, T)
    BY DEF Bijection, Injection, Surjection, IsInjective
  <1>2. ExistsBijection(S, T)
    BY <1>1 DEF ExistsBijection
  <1> QED
    BY <1>2, FS_Bijection

LEMMA PartSize ==
    ASSUME NEW S, IsFiniteSet(S), NEW T \in SUBSET S, T # S
    PROVE  /\ Cardinality(T) \in Nat /\ Cardinality(S) \in Nat
           /\ Cardinality(T) < Cardinality(S)
  BY FS_Subset, FS_CardinalityType

(* The shards of a role that have committed, as tasks and as numbers.      *)
LEMMA ShardCount ==
    ASSUME JobsInv, NEW n \in Role, roles[n].status = "Sharded"
    PROVE  /\ roles[n].completed = CompletedIn(Range(ShardTasks(roles[n], n)))
           /\ roles[n].completed < roles[n].shards
  <1> DEFINE c == roles[n].shards
             Done == DoneShards(roles, tasks, n)
             all == ShardTasks(roles[n], n)
             T == {t \in Range(all) : tasks[t].status = "Completed"}
             f == [k \in Done |-> <<n, 0, k>>]
  <1>1. /\ roles[n] \in RoleType /\ WaitInv(roles, tasks, n)
    BY DEF JobsInv, Inv, Shape, RoleInv
  <1>2. c \in Nat
    BY <1>1, RoleFields
  <1>3. roles[n].completed = Cardinality(Done) /\ Done # 1..c
    BY <1>1 DEF WaitInv
  <1>4. Done \subseteq 1..c /\ \A k \in 1..c : k \in Done <=> tasks[<<n, 0, k>>].status = "Completed"
    BY DEF DoneShards
  <1>5. IsFiniteSet(1..c) /\ Cardinality(1..c) = c
    <2> HIDE DEF c
    <2>1. 1 \in Int /\ c \in Int /\ c - 1 + 1 = c /\ (1 > c => c = 0)
      BY <1>2
    <2> QED
      BY <2>1, FS_Interval
  <1>6. \A x : x \in Range(all) <=> \E k \in 1..c : x = <<n, 0, k>>
    BY DEF ShardTasks, Range
  <1> HIDE DEF c, Done, all
  <1>7. IsFiniteSet(Done)
    BY <1>4, <1>5, FS_Subset
  <1>8. Cardinality(T) = Cardinality(Done)
    <2>1. \A k \in Done : <<n, 0, k>> \in T
      BY <1>4, <1>6
    <2>2. \A t \in T : \E k \in Done : t = <<n, 0, k>>
      BY <1>4, <1>6
    <2>3. \A x, y \in Done : <<n, 0, x>> = <<n, 0, y>> => x = y
      OBVIOUS
    <2> HIDE DEF T
    <2>4. f \in [Done -> T] /\ \A k \in Done : f[k] = <<n, 0, k>>
      BY <2>1
    <2> HIDE DEF f
    <2>5. \A x, y \in Done : f[x] = f[y] => x = y
      BY <2>3, <2>4
    <2>6. \A t \in T : \E k \in Done : f[k] = t
      BY <2>2, <2>4
    <2> QED
      BY <1>7, <2>4, <2>5, <2>6, SameSize
  <1>9. CompletedIn(Range(all)) = Cardinality(T)
    BY DEF CompletedIn
  <1>10. Cardinality(Done) < c
    BY <1>3, <1>4, <1>5, PartSize
  <1> QED
    BY <1>3, <1>8, <1>9, <1>10 DEF c, all

(* The items of a level that have committed, as tasks and as positions.    *)
LEMMA LevelCount ==
    ASSUME JobsInv, NEW n \in Role, roles[n].items # <<>>
    PROVE  LET level == {roles[n].items[i].id : i \in WorkItems(roles, n)}
           IN  /\ roles[n].completed = CompletedIn(level)
               /\ roles[n].completed < Cardinality(level)
  <1> DEFINE W == WorkItems(roles, n)
             Done == DoneItems(roles, tasks, n)
             id(i) == roles[n].items[i].id
             level == {id(i) : i \in W}
             T == {t \in level : tasks[t].status = "Completed"}
  <1>1. roles[n] \in RoleType /\ LevelInv(roles, tasks, n)
    BY DEF JobsInv, Inv, Shape, RoleInv
  <1>2. IsFiniteSet(W) /\ W \subseteq DOMAIN roles[n].items
    <2> DEFINE s == roles[n].items
    <2>1. s \in Seq(ItemType)
      BY <1>1, RoleFields
    <2>2. W \subseteq DOMAIN s
      BY DEF WorkItems
    <2> HIDE DEF s, W
    <2>3. DOMAIN s = 1..Len(s) /\ Len(s) \in Nat
      BY <2>1
    <2>4. IsFiniteSet(DOMAIN s)
      BY <2>3, FS_Interval
    <2>5. IsFiniteSet(W)
      BY <2>2, <2>4, FS_Subset
    <2> QED
      BY <2>2, <2>5 DEF s
  <1>3. \A i \in W : id(i) = <<n, roles[n].level + 1, i>>
    BY <1>1 DEF LevelInv, WorkItems
  <1>4. roles[n].completed = Cardinality(Done) /\ Done # W
    BY <1>1 DEF LevelInv
  <1>5. Done \subseteq W /\ \A i \in W : i \in Done <=> tasks[id(i)].status = "Completed"
    BY DEF DoneItems
  <1>6. \A x, y \in W : id(x) = id(y) => x = y
    BY <1>3
  <1> HIDE DEF W, Done, id
  <1>7. IsFiniteSet(Done)
    BY <1>2, <1>5, FS_Subset
  <1>8. Cardinality(level) = Cardinality(W)
    <2> DEFINE f == [i \in W |-> id(i)]
    <2>1. f \in [W -> level] /\ \A i \in W : f[i] = id(i)
      OBVIOUS
    <2>2. \A y \in level : \E x \in W : id(x) = y
      OBVIOUS
    <2> HIDE DEF f, level
    <2>3. \A x, y \in W : f[x] = f[y] => x = y
      BY <1>6, <2>1
    <2>4. \A y \in level : \E x \in W : f[x] = y
      BY <2>1, <2>2
    <2> QED
      BY <1>2, <2>1, <2>3, <2>4, SameSize
  <1>9. Cardinality(T) = Cardinality(Done)
    <2> DEFINE f == [i \in Done |-> id(i)]
    <2>1. \A i \in Done : id(i) \in T
      BY <1>5
    <2>2. \A y \in T : \E x \in Done : id(x) = y
      BY <1>5
    <2> HIDE DEF T, level
    <2>3. f \in [Done -> T] /\ \A i \in Done : f[i] = id(i)
      BY <2>1
    <2> HIDE DEF f
    <2>4. \A x, y \in Done : f[x] = f[y] => x = y
      BY <1>5, <1>6, <2>3
    <2>5. \A y \in T : \E x \in Done : f[x] = y
      BY <2>2, <2>3
    <2> QED
      BY <1>7, <2>3, <2>4, <2>5, SameSize
  <1>10. CompletedIn(level) = Cardinality(T)
    BY DEF CompletedIn
  <1>11. Cardinality(Done) < Cardinality(W)
    BY <1>2, <1>4, <1>5, PartSize
  <1>12. level = {roles[n].items[i].id : i \in WorkItems(roles, n)}
    BY DEF id, W
  <1> HIDE DEF level
  <1> QED
    BY <1>4, <1>8, <1>9, <1>10, <1>11, <1>12

(* No wake-up is lost: a role that waits for its tasks waits for at least  *)
(* one that has not committed, and counts the ones that have.              *)
THEOREM NoLostWakeupHolds == Spec => []NoLostWakeup
  <1>1. ASSUME JobsInv PROVE NoLostWakeup
    <2>1. ASSUME NEW n \in Role
          PROVE  roles[n].status = "Submitted" =>
                    tasks[<<roles[n].by, 0, 1>>].status = "Open"
      BY <1>1 DEF JobsInv, Inv, RoleInv, WaitInv
    <2>2. ASSUME NEW n \in Role
          PROVE  {roles[n].items[i].id : i \in {k \in DOMAIN roles[n].items :
                                                  ~roles[n].items[k].carry}}
                   = {roles[n].items[i].id : i \in WorkItems(roles, n)}
      BY DEF WorkItems
    <2> QED
      BY <1>1, <2>1, <2>2, ShardCount, LevelCount DEF NoLostWakeup
  <1> QED
    BY <1>1, JobsInvariant, PTL

LEMMA InitOrdered ==
    ASSUME Init
    PROVE  Ordered(roles, tasks)
  <1>1. "Absent" \in RoleState
    BY DEF RoleState
  <1>2. \A n \in Role : roles[n].status = "Absent" /\ roles[n].shards = 0
    BY <1>1, IdleFields DEF Init
  <1>3. 1..0 = {}
    OBVIOUS
  <1> QED
    BY <1>2, <1>3 DEF Ordered, OrderInv

(* The objects of s, joined, are the shards 1 to k in order.               *)
LEMMA TiledOrder ==
    ASSUME NEW s \in Seq(TaskId), s # <<>>, NEW k, Tiled(tasks, s, k)
    PROVE  LeavesOf(s) = [x \in 1..k |-> x]
  <1> DEFINE m == Len(s)
             w == [i \in DOMAIN s |-> tasks[s[i]].leaves]
  <1>1. PICK b : Laid(tasks, s, b) /\ b[0] = 0 /\ b[m] = k
    BY DEF Tiled
  <1>2. m \in Nat /\ m # 0 /\ DOMAIN s = 1..m
    BY EmptySeq
  <1>3. Tiling(b, m) /\ \A i \in 1..m : tasks[s[i]].leaves = Run(b[i - 1], b[i])
    BY <1>1 DEF Laid
  <1> HIDE DEF m
  <1>4. w = [i \in 1..m |-> Run(b[i - 1], b[i])]
    BY <1>2, <1>3
  <1> HIDE DEF w
  <1>5. FlattenSeq(w) = Run(b[0], b[m])
    BY <1>2, <1>3, <1>4, RunsFlatten
  <1>6. k \in Nat
    <2>1. m \in 0..m
      BY <1>2
    <2> QED
      BY <1>1, <1>3, <2>1 DEF Tiling
  <1>7. Run(0, k) = [x \in 1..k |-> x]
    <2>1. k - 0 = k /\ \A x \in 1..k : 0 + x = x
      BY <1>6
    <2> QED
      BY <2>1 DEF Run
  <1>8. FlattenSeq(w) = [x \in 1..k |-> x]
    BY <1>1, <1>5, <1>7
  <1> QED
    BY <1>8 DEF w, LeavesOf

(* Whatever the levels of a reduction group and carry, and whenever they   *)
(* find resources, the shards reach the role's consumers in order, none    *)
(* lost and none twice, in one object if the role is reduced.              *)
THEOREM ShardOrderHolds == Spec => []ShardOrderPreserved
  <1>1. Init => JobsInv /\ Ordered(roles, tasks)
    BY InitSound, InitOrdered
  <1>2. JobsInv /\ Ordered(roles, tasks) /\ [Next]_vars => JobsInv' /\ Ordered(roles, tasks)'
    BY NextSound DEF Sound, OrderStays
  <1>3. ASSUME JobsInv, Ordered(roles, tasks) PROVE ShardOrderPreserved
    <2>1. SUFFICES ASSUME NEW n \in Role
                   PROVE  LET r == roles[n]
                              order == [k \in 1..r.shards |-> k]
                          IN  /\ r.status = "Reducing" =>
                                    /\ LeavesOf(r.inputs) = order
                                    /\ r.items # <<>> =>
                                         LeavesOf([i \in DOMAIN r.items |-> r.items[i].id]) = order
                              /\ r.status = "Completed" /\ r.shards > 0 =>
                                    /\ LeavesOf(r.outputs) = order
                                    /\ FanIn[n] # 0 => Len(r.outputs) = 1
      BY DEF ShardOrderPreserved
    <2> DEFINE r == roles[n]
               ids == [i \in DOMAIN r.items |-> r.items[i].id]
    <2>2. r \in RoleType /\ LevelInv(roles, tasks, n) /\ OrderInv(r, n, tasks)
      BY <1>3 DEF JobsInv, Inv, Shape, RoleInv, Ordered
    <2>3. /\ r.inputs \in Seq(TaskId) /\ r.outputs \in Seq(TaskId)
          /\ r.items \in Seq(ItemType) /\ r.shards \in Nat
          /\ \A i \in DOMAIN r.items : r.items[i].id \in DOMAIN tasks
          /\ r.status = "Reducing" => Len(r.inputs) >= 2
      BY <2>2, RoleFields DEF LevelInv
    <2> HIDE DEF r
    <2>4. ids \in Seq(TaskId) /\ Len(ids) = Len(r.items)
      BY <2>3, ItemIds
    <2> HIDE DEF ids
    <2>5. r.status = "Reducing" => LeavesOf(r.inputs) = [k \in 1..r.shards |-> k]
      <3>1. r.status = "Reducing" => r.inputs # <<>>
        <4>1. Len(<<>>) = 0 /\ ~(0 >= 2)
          OBVIOUS
        <4> QED
          BY <2>3, <4>1
      <3> QED
        BY <2>2, <2>3, <3>1, TiledOrder DEF OrderInv
    <2>6. r.status = "Reducing" /\ r.items # <<>> => LeavesOf(ids) = [k \in 1..r.shards |-> k]
      <3>1. r.items # <<>> => ids # <<>>
        BY <2>3, <2>4, EmptySeq
      <3> QED
        BY <2>2, <2>4, <3>1, TiledOrder DEF OrderInv, ids
    <2>7. ASSUME r.status = "Completed", r.shards > 0
          PROVE  /\ LeavesOf(r.outputs) = [k \in 1..r.shards |-> k]
                 /\ FanIn[n] # 0 => Len(r.outputs) = 1
      <3>1. Tiled(tasks, r.outputs, r.shards) /\ (FanIn[n] # 0 => Len(r.outputs) = 1)
        BY <2>2, <2>7 DEF OrderInv
      <3>2. r.outputs # <<>>
        <4>1. SUFFICES ASSUME r.outputs = <<>> PROVE FALSE
          OBVIOUS
        <4>2. Len(r.outputs) = 0
          BY <4>1
        <4>3. PICK b : b[0] = 0 /\ b[Len(r.outputs)] = r.shards
          BY <3>1 DEF Tiled
        <4>4. r.shards = 0
          BY <4>2, <4>3
        <4> QED
          BY <2>7, <4>4
      <3> QED
        BY <2>3, <3>1, <3>2, TiledOrder
    <2> QED
      BY <2>5, <2>6, <2>7 DEF r, ids
  <1> QED
    BY <1>1, <1>2, <1>3, PTL DEF Spec

(* A settled role keeps its status and the outputs its consumers copied.   *)
THEOREM SettledRolesHold == Spec => SettledRolesStay
  <1>1. ASSUME JobsInv, [Next]_vars
        PROVE  [\A n \in Role : roles[n].status \in {"Completed", "Uncertain"} =>
                  roles'[n].status = roles[n].status
                  /\ roles'[n].outputs = roles[n].outputs]_vars
    BY <1>1, NextSound DEF Sound, RolesStay
  <1> QED
    BY <1>1, JobsInvariant, PTL DEF Spec, SettledRolesStay

(* A task that committed or was given up is never submitted again.         *)
THEOREM SettledTasksHold == Spec => SettledTasksStay
  <1>1. ASSUME JobsInv, [Next]_vars
        PROVE  [\A t \in DOMAIN tasks : tasks[t].status # "Open" =>
                  t \in DOMAIN tasks' /\ tasks'[t] = tasks[t]]_vars
    BY <1>1, NextSound DEF Sound, TasksStay
  <1> QED
    BY <1>1, JobsInvariant, PTL DEF Spec, SettledTasksStay

=============================================================================
