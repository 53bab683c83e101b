----------------------------- MODULE FetchProofs -----------------------------
(***************************************************************************)
(* A fetch fails only for a reason, for any number of agents and faults:   *)
(* giving up for want of a replica costs a fault for each replica asked,   *)
(* and without faults nothing fails.                                       *)
(*                                                                         *)
(* The argument is an account kept for each fetch.  A replica on its list  *)
(* has the object's file, so it is passed over only if its process is down *)
(* or the file is damaged, if the connection breaks, or if the body comes  *)
(* garbled.  The first two make the agent sick before it is asked; the sick*)
(* agents on the list are counted with the replicas already asked.         *)
(***************************************************************************)
EXTENDS StoreProofs, FiniteSetTheorems

(* The agents that cannot serve the object they have, or do not run.       *)
Sick ==
    {h \in Agent : \/ h \notin running
                   \/ Contains(h, Digest(Wanted)) /\ ~Verified(h, Digest(Wanted))}

InBounds(range) ==
    /\ range \in Nat \X Nat
    /\ range[2] # 0
    /\ range[1] + range[2] <= Len(Wanted)

(* What a fetch knows besides: its replicas have the object, its range is  *)
(* within the object, and the reply it is reading is the right one.        *)
FetchKnows(a) ==
    /\ fetch[a].pc \in {"asking", "reading", "putting"} =>
          /\ fetch[a].why = "none"
          /\ InBounds(fetch[a].range)
          /\ \A h \in fetch[a].left : h \in Agent /\ Contains(h, Digest(Wanted))
    /\ (fetch[a].pc = "reading" /\ fetch[a].range # WholeObject) =>
          fetch[a].reply.bytes = Slice(Wanted, fetch[a].range)

(* The replicas asked, and those left that are known to fail.              *)
Due(a) == fetch[a].asked + Cardinality(fetch[a].left \cap Sick)

(* The account of a fetch.                                                 *)
Account(a) ==
    /\ fetch[a].asked \in Nat
    /\ fetch[a].pc = "asking" => Due(a) <= faults
    /\ (fetch[a].pc = "asking" /\ fetch[a].asked = 0) => fetch[a].left # {}
    /\ fetch[a].pc \in {"reading", "putting"} => Due(a) <= faults + 1 /\ fetch[a].asked > 0
    /\ (fetch[a].pc = "putting" /\ puts[a]["worker"].bytes # Wanted) => Due(a) <= faults
    /\ fetch[a].why = "exhausted" => fetch[a].asked <= faults
    /\ (fetch[a].pc = "failed" /\ fetch[a].why # "range") => faults > 0

FetchInv ==
    /\ faults \in Nat
    /\ IsFiniteSet(Sick) /\ Cardinality(Sick) <= faults
    /\ \A a \in Agent : FetchKnows(a) /\ Account(a)

-----------------------------------------------------------------------------
(* Counting.                                                               *)

LEMMA CountWithin ==
    ASSUME NEW S, IsFiniteSet(S), NEW T \in SUBSET S
    PROVE  /\ IsFiniteSet(T) /\ Cardinality(T) \in Nat /\ Cardinality(S) \in Nat
           /\ Cardinality(T) <= Cardinality(S)
  BY FS_Subset, FS_CardinalityType

LEMMA CountOneMore ==
    ASSUME NEW S, IsFiniteSet(S), NEW x, NEW T \in SUBSET (S \cup {x})
    PROVE  /\ IsFiniteSet(T) /\ Cardinality(T) \in Nat /\ Cardinality(S) \in Nat
           /\ Cardinality(T) <= Cardinality(S) + 1
  <1>1. IsFiniteSet(S \cup {x}) /\ Cardinality(S \cup {x}) <= Cardinality(S) + 1
        /\ Cardinality(S) \in Nat
    BY FS_AddElement, FS_CardinalityType
  <1>2. IsFiniteSet(T) /\ Cardinality(T) <= Cardinality(S \cup {x})
        /\ Cardinality(T) \in Nat /\ Cardinality(S \cup {x}) \in Nat
    BY <1>1, CountWithin
  <1> QED
    BY <1>1, <1>2

(* An agent becomes sick by a fault, and only one by each.                 *)
LEMMA SickSteps ==
    ASSUME StoreInv, Next, faults \in Nat
    PROVE  \/ faults' = faults /\ Sick' \subseteq Sick
           \/ faults' = faults + 1 /\ \E x \in Agent : Sick' \subseteq Sick \cup {x}
  <1> DEFINE D == Digest(Wanted)
  <1>0. /\ files \in [Agent -> [Digests -> Seq(Nat) \cup {Missing}]]
        /\ D \in Digests
    BY BytesAreSeqs, DigestsOfBytes DEF StoreInv, StoreShape
  <1>1. PICK a \in Agent : AgentStep(a)
    BY DEF Next
  <1>2. CASE UNCHANGED <<files, faults>> /\ running \subseteq running'
    BY <1>2 DEF Sick, Contains, Verified
  <1>3. CASE UNCHANGED files /\ faults' = faults + 1 /\ running' = running \ {a}
    BY <1>3 DEF Sick, Contains, Verified
  <1>4. CASE UNCHANGED <<files, running>> /\ faults' = faults + 1
    BY <1>4 DEF Sick, Contains, Verified
  <1>5. CASE UNCHANGED <<files, running, faults>>
    BY <1>5 DEF Sick, Contains, Verified
  <1>6. ASSUME NEW w \in Writer, PutRename(a, w)
        PROVE  faults' = faults /\ Sick' \subseteq Sick
    <2>1. puts[a][w].bytes \in Bytes /\ temps[a][w] = puts[a][w].bytes
      BY <1>6 DEF StoreInv, PutSound, PutRename, PutAt
    <2>2. \A h \in Agent : files'[h][D] = files[h][D] \/ files'[h][D] = Wanted
      <3>1. \/ UNCHANGED files
            \/ files' = [files EXCEPT ![a][Digest(puts[a][w].bytes)] = puts[a][w].bytes]
        BY <1>6, <2>1 DEF PutRename
      <3>2. Digest(puts[a][w].bytes) = D => puts[a][w].bytes = Wanted
        BY DigestInjective
      <3>3. Digest(puts[a][w].bytes) \in Digests
        BY <2>1, DigestsOfBytes
      <3> QED
        BY <1>0, <3>1, <3>2, <3>3
    <2>3. UNCHANGED <<running, faults>>
      BY <1>6 DEF PutRename
    <2>4. ASSUME NEW h \in Sick' PROVE h \in Sick
      BY <2>2, <2>3 DEF Sick, Contains, Verified
    <2> QED
      BY <2>3, <2>4
  <1>7. ASSUME NEW d \in Digests, Damage(a, d)
        PROVE  faults' = faults + 1 /\ Sick' \subseteq Sick \cup {a}
    <2>1. /\ faults' = faults + 1 /\ running' = running
          /\ \A h \in Agent \ {a} : files'[h] = files[h]
      BY <1>0, <1>7 DEF Damage, Fault
    <2> QED
      BY <2>1 DEF Sick, Contains, Verified
  <1>8. CASE StoreStep(a)
    BY <1>5, <1>6, <1>8 DEF StoreStep, PutWrite, PutWritten, Write, Upload, Uploaded
  <1>9. CASE FetchStep(a)
    BY <1>5, <1>9 DEF FetchStep, BeginFetch, Ask, Exhausted, Read, Stored,
                      RegisterReplica, EndFetch, storeVars
  <1>10. CASE FaultStep(a)
    BY <1>3, <1>4, <1>7, <1>10
    DEF FaultStep, AskFails, ReadGarbled, ReadFails, RegistrationFails, PutFails, Crash,
        Fault, storeVars
  <1>11. CASE Expire(a) \/ Restart(a)
    BY <1>2, <1>4, <1>5, <1>11 DEF Expire, Restart, Fault, storeVars
  <1> QED
    BY <1>1, <1>8, <1>9, <1>10, <1>11 DEF AgentStep

(* So the agents that are sick at any one time have cost a fault each, and *)
(* whatever a list of replicas loses to sickness is paid for.              *)
LEMMA SickCounted ==
    ASSUME StoreInv, Next, FetchInv, NEW L
    PROVE  /\ faults' \in Nat /\ faults' >= faults
           /\ IsFiniteSet(Sick)' /\ Cardinality(Sick)' <= faults'
           /\ Cardinality(L \cap Sick) \in Nat /\ Cardinality(L \cap Sick') \in Nat
           /\ Cardinality(L \cap Sick') + faults <= Cardinality(L \cap Sick) + faults'
  <1>0. faults \in Nat /\ IsFiniteSet(Sick) /\ Cardinality(Sick) <= faults
    BY DEF FetchInv
  <1>1. IsFiniteSet(L \cap Sick)
    BY <1>0, CountWithin
  <1>2. CASE faults' = faults /\ Sick' \subseteq Sick
    <2>1. IsFiniteSet(Sick') /\ Cardinality(Sick') \in Nat
          /\ Cardinality(Sick') <= Cardinality(Sick) /\ Cardinality(Sick) \in Nat
      BY <1>0, <1>2, CountWithin
    <2>2. L \cap Sick' \in SUBSET (L \cap Sick)
      BY <1>2
    <2>3. /\ Cardinality(L \cap Sick') \in Nat /\ Cardinality(L \cap Sick) \in Nat
          /\ Cardinality(L \cap Sick') <= Cardinality(L \cap Sick)
      BY <1>1, <2>2, CountWithin
    <2> QED
      BY <1>0, <1>2, <2>1, <2>3
  <1>3. ASSUME faults' = faults + 1, NEW x, Sick' \subseteq Sick \cup {x}
        PROVE  /\ faults' \in Nat /\ faults' >= faults
               /\ IsFiniteSet(Sick)' /\ Cardinality(Sick)' <= faults'
               /\ Cardinality(L \cap Sick) \in Nat /\ Cardinality(L \cap Sick') \in Nat
               /\ Cardinality(L \cap Sick') + faults
                    <= Cardinality(L \cap Sick) + faults'
    <2>1. IsFiniteSet(Sick') /\ Cardinality(Sick') \in Nat
          /\ Cardinality(Sick') <= Cardinality(Sick) + 1 /\ Cardinality(Sick) \in Nat
      BY <1>0, <1>3, CountOneMore
    <2>2. L \cap Sick' \in SUBSET ((L \cap Sick) \cup {x})
      BY <1>3
    <2>3. /\ Cardinality(L \cap Sick') \in Nat /\ Cardinality(L \cap Sick) \in Nat
          /\ Cardinality(L \cap Sick') <= Cardinality(L \cap Sick) + 1
      BY <1>1, <2>2, CountOneMore
    <2> QED
      BY <1>0, <1>3, <2>1, <2>3
  <1> QED
    BY <1>0, <1>2, <1>3, SickSteps

-----------------------------------------------------------------------------
(* A fetch that others act beside.                                         *)

LEMMA PutAdvancesBytes ==
    ASSUME StoreInv, NEW a \in Agent, NEW w \in Writer, NEW s,
           puts' = [puts EXCEPT ![a][w].pc = s], NEW b \in Agent, NEW v \in Writer
    PROVE  puts'[b][v].bytes = puts[b][v].bytes
  <1>1. puts \in [Agent -> [Writer -> [pc : PutPcs, bytes : Seq(Nat)]]]
    BY DEF StoreInv, StoreShape
  <1>2. puts' = [puts EXCEPT ![a][w] = [pc |-> s, bytes |-> puts[a][w].bytes]]
    BY PutAdvances
  <1> QED
    BY <1>1, <1>2

(* The bytes of a put that a fetch waits for stay what they are.           *)
LEMMA WorkerBytesKept ==
    ASSUME IInv, StoreInv, Next, NEW b \in Agent, fetch'[b] = fetch[b],
           fetch[b].pc = "putting"
    PROVE  puts'[b]["worker"].bytes = puts[b]["worker"].bytes
  <1>0. /\ puts \in [Agent -> [Writer -> [pc : PutPcs, bytes : Seq(Nat)]]]
        /\ DOMAIN fetch = Agent /\ DOMAIN fetch[b] = Fields
        /\ "worker" \in Writer /\ "server" \in Writer /\ "worker" # "server"
    BY DEF StoreInv, StoreShape, IInv, FetchShape, Writer
  <1>1. PICK a \in Agent : AgentStep(a)
    BY DEF Next
  <1>2. CASE UNCHANGED puts
    BY <1>2
  <1>3. ASSUME NEW w \in Writer, PutWrite(a, w) \/ PutWritten(a, w) \/ PutRename(a, w)
        PROVE  puts'[b]["worker"].bytes = puts[b]["worker"].bytes
    <2>1. CASE PutWrite(a, w)
      BY <1>0, <2>1, PutAdvancesBytes DEF PutWrite
    <2>2. CASE PutWritten(a, w)
      BY <1>0, <2>2, PutAdvancesBytes DEF PutWritten
    <2>3. CASE PutRename(a, w)
      BY <1>0, <2>3, PutAdvancesBytes DEF PutRename
    <2> QED
      BY <1>3, <2>1, <2>2, <2>3
  <1>4. ASSUME NEW p, puts' = [puts EXCEPT ![a]["server"] = p]
        PROVE  puts'[b]["worker"].bytes = puts[b]["worker"].bytes
    BY <1>0, <1>4
  <1>5. ASSUME NEW p, b # a, puts' = [puts EXCEPT ![a] = p]
        PROVE  puts'[b]["worker"].bytes = puts[b]["worker"].bytes
    BY <1>0, <1>5
  <1>6. ASSUME NEW p, b # a, puts' = [puts EXCEPT ![a]["worker"] = p]
        PROVE  puts'[b]["worker"].bytes = puts[b]["worker"].bytes
    BY <1>0, <1>6
  <1>7. CASE StoreStep(a)
    BY <1>3, <1>4, <1>7 DEF StoreStep, Upload, Uploaded
  <1>8. CASE FetchStep(a)
    <2>1. ASSUME Stored(a) PROVE b # a
      BY <1>0, <2>1 DEF Stored, Fields
    <2>2. ASSUME Read(a) PROVE b # a
      BY <2>2 DEF Read, At
    <2>3. CASE Read(a)
      BY <1>2, <1>6, <2>2, <2>3 DEF Read, Received
    <2>4. CASE Stored(a)
      BY <1>6, <2>1, <2>4 DEF Stored
    <2>5. CASE ~Read(a) /\ ~Stored(a)
      BY <1>2, <1>8, <2>5 DEF FetchStep, BeginFetch, Ask, Exhausted, RegisterReplica,
                              EndFetch, storeVars
    <2> QED
      BY <2>3, <2>4, <2>5
  <1>9. CASE FaultStep(a)
    <2>1. ASSUME NEW c \in Bytes, ReadGarbled(a, c)
          PROVE  puts'[b]["worker"].bytes = puts[b]["worker"].bytes
      <3>1. b # a
        BY <2>1 DEF ReadGarbled, At
      <3> QED
        BY <1>2, <1>6, <2>1, <3>1 DEF ReadGarbled, Received
    <2>2. ASSUME NEW w \in Writer, PutFails(a, w)
          PROVE  puts'[b]["worker"].bytes = puts[b]["worker"].bytes
      <3>1. CASE w = "server"
        BY <1>4, <2>2, <3>1 DEF PutFails
      <3>2. CASE w = "worker"
        <4>1. b # a
          BY <1>0, <2>2, <3>2 DEF PutFails, Failed, Fields
        <4> QED
          BY <1>6, <2>2, <3>2, <4>1 DEF PutFails
      <3> QED
        BY <3>1, <3>2 DEF Writer
    <2>3. CASE Crash(a)
      <3>1. b # a
        BY <1>0, <2>3 DEF Crash, NoFetch
      <3> QED
        BY <1>5, <2>3, <3>1 DEF Crash
    <2> QED
      BY <1>2, <1>9, <2>1, <2>2, <2>3
      DEF FaultStep, AskFails, ReadFails, RegistrationFails, Damage, storeVars
  <1>10. CASE Expire(a) \/ Restart(a)
    BY <1>2, <1>10 DEF Expire, Restart, storeVars
  <1> QED
    BY <1>1, <1>7, <1>8, <1>9, <1>10 DEF AgentStep

LEMMA HoldersStay ==
    ASSUME StoreInv, Next, NEW h \in Agent, Contains(h, Digest(Wanted))
    PROVE  Contains(h, Digest(Wanted))'
  BY FilesStay, BytesAreSeqs, DigestsOfBytes

LEMMA AccountKept ==
    ASSUME IInv, StoreInv, FetchInv, Next, NEW b \in Agent, fetch'[b] = fetch[b]
    PROVE  FetchKnows(b)' /\ Account(b)'
  <1>1. FetchKnows(b) /\ Account(b) /\ faults \in Nat
    BY DEF FetchInv
  <1>2. FetchKnows(b)'
    BY <1>1, HoldersStay DEF FetchKnows
  <1> DEFINE L == fetch[b].left
  <1>3. /\ faults' \in Nat /\ faults' >= faults
        /\ Cardinality(L \cap Sick) \in Nat /\ Cardinality(L \cap Sick') \in Nat
        /\ Cardinality(L \cap Sick') + faults <= Cardinality(L \cap Sick) + faults'
    BY SickCounted
  <1>4. /\ Due(b) = fetch[b].asked + Cardinality(L \cap Sick)
        /\ Due(b)' = fetch[b].asked + Cardinality(L \cap Sick')
    BY DEF Due
  <1>5. fetch[b].asked \in Nat
    BY <1>1 DEF Account
  <1> HIDE DEF L
  <1>6. Due(b) \in Nat /\ Due(b)' \in Nat /\ Due(b)' + faults <= Due(b) + faults'
    BY <1>1, <1>3, <1>4, <1>5
  <1>7. fetch[b].pc = "putting" => puts'[b]["worker"].bytes = puts[b]["worker"].bytes
    BY WorkerBytesKept
  <1>8. Account(b)'
    BY <1>1, <1>3, <1>5, <1>6, <1>7 DEF Account
  <1> QED
    BY <1>2, <1>8

-----------------------------------------------------------------------------
(* The steps of a fetch.                                                   *)

(* What the account asks of a fetch that is over or has not begun.         *)
LEMMA Closed ==
    ASSUME IInv, StoreInv, FetchInv, Next, NEW a \in Agent,
           fetch'[a].pc \in {"idle", "done", "registering", "failed"},
           fetch'[a].asked \in Nat,
           fetch'[a].why = "exhausted" => fetch'[a].asked <= faults',
           (fetch'[a].pc = "failed" /\ fetch'[a].why # "range") => faults' > 0
    PROVE  FetchKnows(a)' /\ Account(a)'
  BY DEF FetchKnows, Account

(* A fetch that fails for a fault.                                         *)
LEMMA FailedAccount ==
    ASSUME IInv, StoreInv, FetchInv, Next, NEW a \in Agent,
           NEW why, why # "exhausted", Failed(a, why), faults' = faults + 1
    PROVE  FetchKnows(a)' /\ Account(a)'
  <1>1. /\ fetch'[a].pc = "failed" /\ fetch'[a].why = why
        /\ fetch'[a].asked = fetch[a].asked
    BY DEF IInv, FetchShape, Failed, Fields
  <1>2. fetch[a].asked \in Nat /\ faults \in Nat
    BY DEF FetchInv, Account
  <1>3. fetch'[a].asked \in Nat /\ faults' > 0
    BY <1>1, <1>2
  <1> QED
    BY <1>1, <1>3, Closed

LEMMA ForgottenAccount ==
    ASSUME IInv, StoreInv, FetchInv, Next, NEW a \in Agent,
           fetch' = [fetch EXCEPT ![a] = NoFetch]
    PROVE  FetchKnows(a)' /\ Account(a)'
  <1>1. fetch'[a].pc = "idle" /\ fetch'[a].asked = 0 /\ fetch'[a].why = "none"
    BY DEF IInv, FetchShape, NoFetch
  <1> QED
    BY <1>1, Closed

LEMMA BeginFetchAccount ==
    ASSUME IInv, StoreInv, FetchInv, Next, NEW a \in Agent, NEW range \in Ranges,
           BeginFetch(a, range)
    PROVE  FetchKnows(a)' /\ Account(a)'
  <1> DEFINE r == fetch'[a]
  <1>0. DOMAIN fetch = Agent /\ faults \in Nat /\ UNCHANGED <<files, running, known, faults>>
    BY DEF IInv, FetchShape, FetchInv, BeginFetch, storeVars
  <1>1. /\ r.asked = 0
        /\ \/ r.pc = "failed" /\ r.why = "range"
           \/ r.pc = "done" /\ r.why = "none"
           \/ /\ r.pc = "failed" /\ r.why = "local"
              /\ Contains(a, Digest(Wanted)) /\ ~Verified(a, Digest(Wanted))
           \/ /\ r.pc = "asking" /\ r.why = "none" /\ r.range = range /\ r.left = known
              /\ range[2] # 0 /\ ~(range[1] + range[2] > Len(Wanted)) /\ known # {}
    BY <1>0 DEF BeginFetch, NoFetch
  <1>2. CASE r.pc = "done" \/ r.why = "range"
    BY <1>1, <1>2, Closed
  <1>3. CASE r.why = "local"
    <2>1. a \in Sick
      BY <1>1, <1>3 DEF Sick
    <2>2. {a} \in SUBSET Sick /\ IsFiniteSet(Sick) /\ Cardinality(Sick) <= faults
      BY <2>1 DEF FetchInv
    <2>3. Cardinality({a}) <= Cardinality(Sick) /\ Cardinality(Sick) \in Nat
      BY <2>2, CountWithin
    <2>4. faults' > 0
      BY <1>0, <2>2, <2>3, FS_Singleton
    <2> QED
      BY <1>1, <1>3, <2>4, Closed
  <1>4. CASE r.pc = "asking"
    <2>1. InBounds(range)
      <3>1. range \in Nat \X Nat /\ Len(Wanted) \in Nat
        BY DataPlaneAssumption
      <3> QED
        BY <1>1, <1>4, <3>1 DEF InBounds
    <2>2. \A h \in known : h \in Agent /\ Contains(h, Digest(Wanted))'
      BY <1>0 DEF StoreInv, StoreShape, LocationsHoldObject, Contains
    <2>3. FetchKnows(a)'
      BY <1>1, <1>4, <2>1, <2>2 DEF FetchKnows
    <2>4. Cardinality(known \cap Sick') <= faults' /\ Cardinality(known \cap Sick') \in Nat
      <3>1. IsFiniteSet(Sick') /\ Cardinality(Sick') <= faults' /\ faults' \in Nat
        BY SickCounted
      <3>2. Cardinality(known \cap Sick') <= Cardinality(Sick')
            /\ Cardinality(known \cap Sick') \in Nat /\ Cardinality(Sick') \in Nat
        BY <3>1, CountWithin
      <3> QED
        BY <3>1, <3>2
    <2>5. Due(a)' <= faults'
      <3>1. Due(a)' = 0 + Cardinality(known \cap Sick')
        BY <1>1, <1>4 DEF Due
      <3> QED
        BY <2>4, <3>1
    <2>6. Account(a)'
      BY <1>1, <1>4, <2>5 DEF Account
    <2> QED
      BY <2>3, <2>6
  <1> QED
    BY <1>1, <1>2, <1>3, <1>4

(* A replica that is not sick answers a request within the bounds.         *)
LEMMA HealthyAnswers ==
    ASSUME NEW h \in Agent, Contains(h, Digest(Wanted)), h \notin Sick,
           NEW range, InBounds(range)
    PROVE  /\ h \in running
           /\ GetBlob(h, range).status = IF range = WholeObject THEN 200 ELSE 206
           /\ range # WholeObject => GetBlob(h, range).bytes = Slice(Wanted, range)
  <1>1. h \in running /\ Verified(h, Digest(Wanted))
    BY DEF Sick
  <1>2. files[h][Digest(Wanted)] = Wanted
    BY <1>1, DigestInjective DEF Verified
  <1>3. ~(range[2] = 0 \/ range[1] + range[2] > Len(files[h][Digest(Wanted)]))
    <2>1. Len(Wanted) \in Nat /\ range[1] + range[2] \in Nat
      BY DataPlaneAssumption DEF InBounds
    <2> QED
      BY <1>2, <2>1 DEF InBounds
  <1>4. GetBlob(h, range) = IF range = WholeObject THEN Reply(200, Wanted)
                            ELSE Reply(206, Slice(Wanted, range))
    BY <1>1, <1>2, <1>3 DEF GetBlob, RangePayload
  <1> QED
    BY <1>1, <1>4 DEF Reply

(* And a sick one that has the object does not.                            *)
LEMMA SickRefuses ==
    ASSUME NEW h \in Sick, Contains(h, Digest(Wanted)), h \in running, NEW range
    PROVE  GetBlob(h, range).status = 500
  BY DEF Sick, GetBlob, Reply

LEMMA AskAccount ==
    ASSUME IInv, StoreInv, FetchInv, Next, NEW a \in Agent, NEW h \in Agent, Ask(a, h)
    PROVE  FetchKnows(a)' /\ Account(a)'
  <1> DEFINE r == fetch'[a]
             L == fetch[a].left
             reply == GetBlob(h, fetch[a].range)
             ok == h \in running /\ reply.status = IF fetch[a].range = WholeObject
                                                    THEN 200 ELSE 206
  <1>0. DOMAIN fetch = Agent /\ DOMAIN fetch[a] = Fields /\ faults \in Nat
        /\ IsFiniteSet(Sick)
    BY DEF IInv, FetchShape, FetchInv
  <1>1. /\ FetchKnows(a) /\ Account(a)
        /\ fetch[a].pc = "asking" /\ h \in L
        /\ UNCHANGED <<files, running, faults>>
    BY DEF FetchInv, Ask, At, storeVars
  <1>2. /\ r.left = L \ {h} /\ r.asked = fetch[a].asked + 1
        /\ r.range = fetch[a].range /\ r.why = fetch[a].why
        /\ r.pc = IF ok THEN "reading" ELSE "asking"
        /\ r.reply = IF ok THEN reply ELSE fetch[a].reply
    BY <1>0 DEF Ask, Fields
  <1>3. /\ InBounds(fetch[a].range) /\ fetch[a].why = "none"
        /\ \A g \in L : g \in Agent /\ Contains(g, Digest(Wanted))
        /\ fetch[a].asked \in Nat
        /\ Due(a) <= faults
    BY <1>1 DEF FetchKnows, Account
  <1>4. Sick' = Sick
    BY <1>1 DEF Sick, Contains, Verified
  <1>5. IsFiniteSet(L \cap Sick) /\ Cardinality(L \cap Sick) \in Nat
    BY <1>0, CountWithin
  <1>6. Due(a) = fetch[a].asked + Cardinality(L \cap Sick)
    BY DEF Due
  <1>7. Due(a)' = fetch[a].asked + 1 + Cardinality((L \ {h}) \cap Sick)
    BY <1>2, <1>4 DEF Due
  <1>8. Due(a)' = fetch[a].asked + 1 + Cardinality((L \cap Sick) \ {h})
    <2>1. (L \ {h}) \cap Sick = (L \cap Sick) \ {h}
      OBVIOUS
    <2> QED
      BY <1>7, <2>1
  <1>9. Contains(h, Digest(Wanted))
    BY <1>1, <1>3
  <1>10. FetchKnows(a)'
    <2>1. r.range # WholeObject /\ r.pc = "reading" => r.reply.bytes = Slice(Wanted, r.range)
      <3>1. ok => h \notin Sick
        BY <1>9, SickRefuses
      <3> QED
        BY <1>2, <1>3, <1>9, <3>1, HealthyAnswers
    <2>2. \A g \in L : Contains(g, Digest(Wanted))'
      BY <1>1, <1>3 DEF Contains
    <2> HIDE DEF r, L, ok, reply
    <2> QED
      BY <1>2, <1>3, <2>1, <2>2 DEF FetchKnows, r
  <1>11. CASE h \in Sick
    <2>1. ~ok
      BY <1>9, <1>11, SickRefuses
    <2>2. Cardinality((L \cap Sick) \ {h}) = Cardinality(L \cap Sick) - 1
      BY <1>1, <1>5, <1>11, FS_RemoveElement
    <2> HIDE DEF L
    <2>3. Due(a)' = Due(a) /\ Due(a) \in Nat
      BY <1>3, <1>5, <1>6, <1>8, <2>2
    <2>4. r.pc = "asking"
      BY <1>2, <2>1
    <2> HIDE DEF ok
    <2>5. r.asked \in Nat /\ r.asked > 0 /\ r.why = "none" /\ Due(a)' <= faults'
      BY <1>0, <1>1, <1>2, <1>3, <2>3
    <2>6. Account(a)'
      BY <2>4, <2>5 DEF Account
    <2> QED
      BY <1>10, <2>6
  <1>12. CASE h \notin Sick
    <2>1. ok
      BY <1>3, <1>9, <1>12, HealthyAnswers
    <2>2. Cardinality((L \cap Sick) \ {h}) = Cardinality(L \cap Sick)
      BY <1>5, <1>12, FS_RemoveElement
    <2> HIDE DEF L
    <2>3. Due(a)' = Due(a) + 1 /\ Due(a) \in Nat
      BY <1>3, <1>5, <1>6, <1>8, <2>2
    <2>4. r.pc = "reading"
      BY <1>2, <2>1
    <2> HIDE DEF ok
    <2>5. r.asked \in Nat /\ r.asked > 0 /\ r.why = "none" /\ Due(a)' <= faults' + 1
      BY <1>0, <1>1, <1>2, <1>3, <2>3
    <2>6. Account(a)'
      BY <2>4, <2>5 DEF Account
    <2> QED
      BY <1>10, <2>6
  <1> QED
    BY <1>11, <1>12

LEMMA AskFailsAccount ==
    ASSUME IInv, StoreInv, FetchInv, Next, NEW a \in Agent, NEW h \in Agent,
           AskFails(a, h)
    PROVE  FetchKnows(a)' /\ Account(a)'
  <1> DEFINE r == fetch'[a]
             L == fetch[a].left
  <1>0. DOMAIN fetch = Agent /\ DOMAIN fetch[a] = Fields /\ faults \in Nat
        /\ IsFiniteSet(Sick)
    BY DEF IInv, FetchShape, FetchInv
  <1>1. /\ FetchKnows(a) /\ Account(a) /\ fetch[a].pc = "asking"
        /\ UNCHANGED <<files, running>> /\ faults' = faults + 1
    BY DEF FetchInv, AskFails, At, Fault, storeVars
  <1>2. /\ r.left = L \ {h} /\ r.asked = fetch[a].asked + 1
        /\ r.range = fetch[a].range /\ r.why = fetch[a].why /\ r.pc = "asking"
    BY <1>0, <1>1 DEF AskFails, Fields
  <1>3. /\ InBounds(fetch[a].range) /\ fetch[a].why = "none"
        /\ \A g \in L : g \in Agent /\ Contains(g, Digest(Wanted))
        /\ fetch[a].asked \in Nat
        /\ Due(a) <= faults
    BY <1>1 DEF FetchKnows, Account
  <1>4. Sick' = Sick
    BY <1>1 DEF Sick, Contains, Verified
  <1>5. IsFiniteSet(L \cap Sick) /\ Cardinality(L \cap Sick) \in Nat
    BY <1>0, CountWithin
  <1>6. /\ Due(a) = fetch[a].asked + Cardinality(L \cap Sick)
        /\ Due(a)' = fetch[a].asked + 1 + Cardinality((L \ {h}) \cap Sick)
    BY <1>2, <1>4 DEF Due
  <1>7. /\ Cardinality((L \ {h}) \cap Sick) <= Cardinality(L \cap Sick)
        /\ Cardinality((L \ {h}) \cap Sick) \in Nat
    BY <1>5, CountWithin
  <1>8. FetchKnows(a)'
    BY <1>1, <1>2, <1>3 DEF FetchKnows, Contains
  <1> HIDE DEF L
  <1>9. r.asked \in Nat /\ r.asked > 0 /\ r.why = "none" /\ Due(a)' <= faults'
    BY <1>0, <1>1, <1>2, <1>3, <1>5, <1>6, <1>7
  <1>10. Account(a)'
    BY <1>2, <1>9 DEF Account
  <1> QED
    BY <1>8, <1>10

LEMMA ExhaustedAccount ==
    ASSUME IInv, StoreInv, FetchInv, Next, NEW a \in Agent, Exhausted(a)
    PROVE  FetchKnows(a)' /\ Account(a)'
  <1>0. DOMAIN fetch = Agent /\ DOMAIN fetch[a] = Fields /\ faults \in Nat
    BY DEF IInv, FetchShape, FetchInv
  <1>1. /\ Account(a) /\ fetch[a].pc = "asking" /\ fetch[a].left = {}
        /\ faults' = faults
    BY DEF FetchInv, Exhausted, At
  <1>2. fetch[a].asked \in Nat /\ fetch[a].asked # 0 /\ Due(a) <= faults
    BY <1>1 DEF Account
  <1>3. Due(a) = fetch[a].asked + 0
    <2>1. fetch[a].left \cap Sick = {}
      BY <1>1
    <2> QED
      BY <2>1, FS_EmptySet DEF Due
  <1>4. fetch'[a].pc = "failed" /\ fetch'[a].asked = fetch[a].asked
    BY <1>0 DEF Exhausted, Failed, Fields
  <1>5. fetch'[a].asked \in Nat /\ fetch'[a].asked <= faults' /\ faults' > 0
    BY <1>0, <1>1, <1>2, <1>3, <1>4
  <1> QED
    BY <1>4, <1>5, Closed

(* The part of a range that a reply carries has the range's length.        *)
LEMMA SliceLength ==
    ASSUME NEW range, InBounds(range)
    PROVE  Len(Slice(Wanted, range)) = range[2]
  <1>1. Wanted \in Seq(Nat) /\ Len(Wanted) \in Nat /\ range[1] \in Nat /\ range[2] \in Nat
    BY DataPlaneAssumption DEF InBounds
  <1>2. range[1] + 1 \in 1..(Len(Wanted) + 1) /\ range[1] + range[2] \in 0..Len(Wanted)
        /\ range[1] + 1 <= range[1] + range[2]
    BY <1>1 DEF InBounds
  <1>3. Len(SubSeq(Wanted, range[1] + 1, range[1] + range[2]))
          = range[1] + range[2] - (range[1] + 1) + 1
    BY <1>1, <1>2
  <1> QED
    BY <1>1, <1>3 DEF Slice

(* After a body that came as it was sent, and after one that did not.      *)
LEMMA ReceivedAccount ==
    ASSUME IInv, StoreInv, FetchInv, Next, NEW a \in Agent, NEW bytes,
           At(a, "reading"), Received(a, bytes), UNCHANGED <<files, running>>,
           \/ bytes = fetch[a].reply.bytes /\ faults' = faults
           \/ faults' = faults + 1
    PROVE  FetchKnows(a)' /\ Account(a)'
  <1> DEFINE r == fetch'[a]
  <1>0. DOMAIN fetch = Agent /\ DOMAIN fetch[a] = Fields /\ faults \in Nat
        /\ IsFiniteSet(Sick)
        /\ puts \in [Agent -> [Writer -> [pc : PutPcs, bytes : Seq(Nat)]]]
    BY DEF IInv, FetchShape, FetchInv, StoreInv, StoreShape
  <1>1. FetchKnows(a) /\ Account(a) /\ FetchSound(a) /\ FetchBacked(a)
        /\ fetch[a].pc = "reading"
    BY DEF FetchInv, IInv, StoreInv, At
  <1>2. r.left = fetch[a].left /\ r.asked = fetch[a].asked
        /\ r.range = fetch[a].range /\ r.why = fetch[a].why
    BY <1>0 DEF Received, Ended, Fields
  <1>3. /\ InBounds(fetch[a].range) /\ fetch[a].why = "none"
        /\ \A g \in fetch[a].left : g \in Agent /\ Contains(g, Digest(Wanted))'
        /\ fetch[a].asked \in Nat /\ fetch[a].asked > 0
        /\ Due(a) <= faults + 1
    BY <1>1 DEF FetchKnows, Account, Contains
  <1>4. Sick' = Sick
    BY DEF Sick, Contains, Verified
  <1>5. Due(a)' = Due(a) /\ Due(a) \in Nat
    <2>1. Cardinality(fetch[a].left \cap Sick) \in Nat
      BY <1>0, CountWithin
    <2> QED
      BY <1>2, <1>3, <1>4, <2>1 DEF Due
  <1>6. CASE fetch[a].range = WholeObject
    <2>1. r.pc = "putting" /\ puts' = [puts EXCEPT ![a]["worker"] = PutBegun(a, bytes)]
      BY <1>0, <1>6 DEF Received, Fields
    <2>2. puts'[a]["worker"].bytes = bytes
      BY <1>0, <2>1 DEF Writer, PutBegun
    <2>3. FetchKnows(a)'
      BY <1>2, <1>3, <2>1 DEF FetchKnows
    <2>4. bytes # Wanted => faults' = faults + 1
      BY <1>1, <1>6 DEF FetchBacked
    <2>5. Due(a)' <= faults' + 1 /\ (bytes # Wanted => Due(a)' <= faults')
      BY <1>0, <1>3, <1>5, <2>4
    <2>6. Account(a)'
      BY <1>2, <1>3, <2>1, <2>2, <2>5 DEF Account
    <2> QED
      BY <2>3, <2>6
  <1>7. CASE fetch[a].range # WholeObject /\ RangeIntact(a, bytes)
    <2>1. r.pc = "done"
      BY <1>0, <1>7 DEF Received, Ended, Fields
    <2> QED
      BY <1>2, <1>3, <2>1, Closed
  <1>8. CASE fetch[a].range # WholeObject /\ ~RangeIntact(a, bytes)
    <2>1. r.pc = "asking"
      BY <1>0, <1>8 DEF Received, Fields
    <2>2. bytes # fetch[a].reply.bytes
      <3>1. fetch[a].reply.bytes = Slice(Wanted, fetch[a].range)
        BY <1>1, <1>8 DEF FetchKnows
      <3>2. fetch[a].reply.digest = Digest(Slice(Wanted, fetch[a].range))
        BY <1>1, <1>8 DEF FetchSound
      <3> QED
        BY <1>3, <1>8, <3>1, <3>2, SliceLength DEF RangeIntact
    <2>3. Due(a)' <= faults'
      BY <1>0, <1>3, <1>5, <2>2
    <2>4. FetchKnows(a)'
      BY <1>2, <1>3, <2>1 DEF FetchKnows
    <2>5. Account(a)'
      BY <1>2, <1>3, <2>1, <2>3 DEF Account
    <2> QED
      BY <2>4, <2>5
  <1> QED
    BY <1>6, <1>7, <1>8

LEMMA StoredAccount ==
    ASSUME IInv, StoreInv, FetchInv, Next, NEW a \in Agent, Stored(a)
    PROVE  FetchKnows(a)' /\ Account(a)'
  <1> DEFINE r == fetch'[a]
             bytes == puts[a]["worker"].bytes
  <1>0. DOMAIN fetch = Agent /\ DOMAIN fetch[a] = Fields /\ faults \in Nat
    BY DEF IInv, FetchShape, FetchInv
  <1>1. FetchKnows(a) /\ Account(a) /\ fetch[a].pc = "putting"
        /\ UNCHANGED <<files, running, faults>>
    BY DEF FetchInv, Stored, At
  <1>2. /\ r.left = fetch[a].left /\ r.asked = fetch[a].asked
        /\ r.range = fetch[a].range /\ r.why = fetch[a].why
        /\ r.pc = IF DigestMatches(bytes) THEN "registering" ELSE "asking"
    BY <1>0 DEF Stored, Fields
  <1>3. /\ InBounds(fetch[a].range) /\ fetch[a].why = "none"
        /\ \A g \in fetch[a].left : g \in Agent /\ Contains(g, Digest(Wanted))'
        /\ fetch[a].asked \in Nat /\ fetch[a].asked > 0
        /\ bytes # Wanted => Due(a) <= faults
    BY <1>1 DEF FetchKnows, Account, Contains
  <1>4. Due(a)' = Due(a)
    BY <1>1, <1>2 DEF Due, Sick, Contains, Verified
  <1>5. CASE DigestMatches(bytes)
    BY <1>2, <1>3, <1>5, Closed
  <1>6. CASE ~DigestMatches(bytes)
    <2>1. r.pc = "asking" /\ Due(a)' <= faults'
      BY <1>1, <1>2, <1>3, <1>4, <1>6 DEF DigestMatches
    <2>2. FetchKnows(a)'
      BY <1>2, <1>3, <2>1 DEF FetchKnows
    <2>3. Account(a)'
      BY <1>2, <1>3, <2>1 DEF Account
    <2> QED
      BY <2>2, <2>3
  <1> QED
    BY <1>5, <1>6

LEMMA RegisterAccount ==
    ASSUME IInv, StoreInv, FetchInv, Next, NEW a \in Agent, RegisterReplica(a)
    PROVE  FetchKnows(a)' /\ Account(a)'
  <1>0. DOMAIN fetch = Agent /\ DOMAIN fetch[a] = Fields
    BY DEF IInv, FetchShape
  <1>1. /\ fetch'[a].pc = "done" /\ fetch'[a].asked = fetch[a].asked
        /\ fetch'[a].why = fetch[a].why /\ faults' = faults
    BY <1>0 DEF RegisterReplica, Ended, Fields
  <1>2. Account(a)
    BY DEF FetchInv
  <1>3. /\ fetch[a].asked \in Nat
        /\ fetch[a].why = "exhausted" => fetch[a].asked <= faults
    BY <1>2 DEF Account
  <1> QED
    BY <1>1, <1>3, Closed

-----------------------------------------------------------------------------

LEMMA NextFetchInv == IInv /\ StoreInv /\ FetchInv /\ [Next]_vars => FetchInv'
  <1> SUFFICES ASSUME IInv, StoreInv, FetchInv, [Next]_vars PROVE FetchInv'
    OBVIOUS
  <1>1. CASE Next
    <2>1. PICK a \in Agent : AgentStep(a)
      BY <1>1 DEF Next
    <2> DEFINE Good(b) == FetchKnows(b)' /\ Account(b)'
    <2>2. ASSUME NEW b \in Agent, b # a \/ UNCHANGED fetch PROVE Good(b)
      BY <1>1, <2>1, <2>2, FetchSteps, AccountKept
    <2>3. ASSUME StoreStep(a) \/ Expire(a) \/ Restart(a) PROVE Good(a)
      <3>1. UNCHANGED fetch
        BY <2>3 DEF StoreStep, PutWrite, PutWritten, PutRename, Upload, Uploaded, Expire,
                    Restart
      <3> QED
        BY <2>2, <3>1
    <2>4. ASSUME FetchStep(a) PROVE Good(a)
      <3>1. ASSUME NEW range \in Ranges, BeginFetch(a, range) PROVE Good(a)
        BY <1>1, <3>1, BeginFetchAccount
      <3>2. ASSUME NEW h \in Agent, Ask(a, h) PROVE Good(a)
        BY <1>1, <3>2, AskAccount
      <3>3. CASE Exhausted(a)
        BY <1>1, <3>3, ExhaustedAccount
      <3>4. CASE Read(a)
        BY <1>1, <3>4, ReceivedAccount DEF Read
      <3>5. CASE Stored(a)
        BY <1>1, <3>5, StoredAccount
      <3>6. CASE RegisterReplica(a)
        BY <1>1, <3>6, RegisterAccount
      <3>7. CASE EndFetch(a)
        BY <1>1, <3>7, ForgottenAccount DEF EndFetch
      <3> HIDE DEF Good
      <3> QED
        BY <2>4, <3>1, <3>2, <3>3, <3>4, <3>5, <3>6, <3>7 DEF FetchStep
    <2>5. ASSUME FaultStep(a) PROVE Good(a)
      <3>1. ASSUME NEW h \in Agent, AskFails(a, h) PROVE Good(a)
        BY <1>1, <3>1, AskFailsAccount
      <3>2. ASSUME NEW c \in Bytes, ReadGarbled(a, c) PROVE Good(a)
        BY <1>1, <3>2, ReceivedAccount DEF ReadGarbled, Fault
      <3>3. CASE ReadFails(a)
        BY <1>1, <3>3, FailedAccount DEF ReadFails, Fault
      <3>4. CASE RegistrationFails(a)
        BY <1>1, <3>4, FailedAccount DEF RegistrationFails, Fault
      <3>5. ASSUME NEW w \in Writer, PutFails(a, w) PROVE Good(a)
        <4>1. CASE w = "worker"
          BY <1>1, <3>5, <4>1, FailedAccount DEF PutFails, Fault
        <4>2. CASE w # "worker"
          <5>1. UNCHANGED fetch
            BY <3>5, <4>2 DEF PutFails
          <5> QED
            BY <2>2, <5>1
        <4> QED
          BY <4>1, <4>2
      <3>6. ASSUME NEW d \in Digests, Damage(a, d) PROVE Good(a)
        <4>1. UNCHANGED fetch
          BY <3>6 DEF Damage
        <4> QED
          BY <2>2, <4>1
      <3>7. CASE Crash(a)
        BY <1>1, <3>7, ForgottenAccount DEF Crash
      <3> HIDE DEF Good
      <3> QED
        BY <2>5, <3>1, <3>2, <3>3, <3>4, <3>5, <3>6, <3>7 DEF FaultStep
    <2> HIDE DEF Good
    <2>6. Good(a)
      BY <2>1, <2>2, <2>3, <2>4, <2>5 DEF AgentStep
    <2>7. \A b \in Agent : Good(b)
      BY <2>2, <2>6
    <2>8. faults' \in Nat /\ IsFiniteSet(Sick)' /\ Cardinality(Sick)' <= faults'
      BY <1>1, SickCounted
    <2> QED
      BY <2>7, <2>8 DEF FetchInv, Good
  <1>2. CASE UNCHANGED vars
    BY <1>2 DEF vars, FetchInv, FetchKnows, Account, Due, Sick, Contains, Verified
  <1> QED
    BY <1>1, <1>2

LEMMA InitFetchInv == Init => FetchInv
  <1> SUFFICES ASSUME Init PROVE FetchInv
    OBVIOUS
  <1>1. Sick = {}
    BY BytesAreSeqs, DigestsOfBytes DEF Init, Sick, Contains
  <1>2. IsFiniteSet(Sick) /\ Cardinality(Sick) = 0 /\ faults = 0
    BY <1>1, FS_EmptySet DEF Init
  <1>3. ASSUME NEW a \in Agent PROVE FetchKnows(a) /\ Account(a)
    BY DEF Init, FetchKnows, Account, NoFetch
  <1> QED
    BY <1>2, <1>3 DEF FetchInv

LEMMA FetchInvariant == Spec => []FetchInv
  BY StoreInvariant, InitFetchInv, NextFetchInv, PTL DEF Spec

(* materialize_input falls over: it gives up for want of a replica only    *)
(* after a fault for each replica it was given, however many there are.    *)
THEOREM FallsOverHolds == Spec => []FallsOver
  <1>1. FetchInv => FallsOver
    BY DEF FetchInv, Account, FallsOver
  <1> QED
    BY <1>1, FetchInvariant, PTL

(* Without a fault no fetch within the bounds of the object fails, however *)
(* uploads, puts, registrations and other fetches are interleaved with it. *)
THEOREM NoFaultNoFailureHolds == Spec => []NoFaultNoFailure
  <1>1. FetchInv => NoFaultNoFailure
    BY DEF FetchInv, Account, NoFaultNoFailure
  <1> QED
    BY <1>1, FetchInvariant, PTL

=============================================================================
