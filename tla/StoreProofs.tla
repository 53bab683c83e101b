----------------------------- MODULE StoreProofs -----------------------------
(***************************************************************************)
(* The object store and the locations announced for it, for any number of  *)
(* agents, contents, uploads and faults: the files are whole, and every    *)
(* location has the object.                                                *)
(***************************************************************************)
EXTENDS DataPlaneProofs

PutPcs == {"idle", "write", "writing", "rename", "stored"}

StoreShape ==
    /\ files \in [Agent -> [Digests -> Seq(Nat) \cup {Missing}]]
    /\ temps \in [Agent -> [Writer -> Seq(Nat) \cup {Missing}]]
    /\ puts \in [Agent -> [Writer -> [pc : PutPcs, bytes : Seq(Nat)]]]
    /\ known \subseteq Agent

(* A put renames the bytes it was given, and has stored them when it says  *)
(* so.                                                                     *)
PutSound(a, w) ==
    /\ puts[a][w].pc # "idle" => puts[a][w].bytes \in Bytes
    /\ puts[a][w].pc = "rename" => temps[a][w] = puts[a][w].bytes
    /\ puts[a][w].pc = "stored" => Contains(a, Digest(puts[a][w].bytes))

(* A reply with the whole object has the right bytes, and an agent that    *)
(* announces a replica has it.                                             *)
FetchBacked(a) ==
    /\ (fetch[a].pc = "reading" /\ fetch[a].range = WholeObject) =>
          fetch[a].reply.bytes = Wanted
    /\ fetch[a].pc = "registering" => Contains(a, Digest(Wanted))

StoreInv ==
    /\ StoreShape
    /\ FilesAreWhole
    /\ \A a \in Agent : \A w \in Writer : PutSound(a, w)
    /\ \A a \in Agent : FetchBacked(a)
    /\ LocationsHoldObject

-----------------------------------------------------------------------------
(* Bytes and files.                                                        *)

LEMMA TornIsSeq ==
    ASSUME NEW c \in Seq(Nat), Len(c) > 1
    PROVE  Torn(c) \in Seq(Nat)
  <1>1. Len(c) \in Nat /\ Len(c) - 1 \in 1..Len(c)
    OBVIOUS
  <1>2. SubSeq(c, 1, Len(c) - 1) \in Seq(Nat)
    BY <1>1
  <1> QED
    BY <1>2 DEF Torn

(* Even a short upload leaves a sequence of bytes when it is torn.         *)
LEMMA TornOfBytes == \A b \in Bytes : Torn(b) \in Seq(Nat)
  <1>1. ASSUME NEW c \in Seq(Nat), Len(c) > 0 PROVE Torn(c) \in Seq(Nat)
    <2>1. Len(c) \in Nat /\ Len(c) - 1 \in 0..Len(c)
      BY <1>1
    <2>2. SubSeq(c, 1, Len(c) - 1) \in Seq(Nat)
      BY <2>1
    <2> QED
      BY <2>2 DEF Torn
  <1>2. ASSUME NEW c \in Content
        PROVE  c \in Seq(Nat) /\ Len(c) > 0 /\ Torn(c) \in Seq(Nat) /\ Len(Torn(c)) > 0
    <2>1. c \in Seq(Nat) /\ Len(c) > 1 /\ Len(c) \in Nat
      BY DataPlaneAssumption
    <2>2. Torn(c) \in Seq(Nat)
      BY <1>1, <2>1
    <2>3. Len(Torn(c)) = Len(c) - 1
      BY <2>1 DEF Torn
    <2> QED
      BY <2>1, <2>2, <2>3
  <1> QED
    BY <1>1, <1>2 DEF Bytes

LEMMA BytesAreSeqs == Bytes \subseteq Seq(Nat) /\ Wanted \in Bytes
  BY TornIsSeq, DataPlaneAssumption DEF Bytes

LEMMA DigestsOfBytes ==
    /\ \A b \in Bytes : Digest(b) \in Digests /\ Digest(b)[2] = b
    /\ \A d \in Digests : d[2] \in Bytes /\ d = Digest(d[2])
  BY DEF Digests, Digest

(* A damaged file is a file, and damaging it again changes nothing.        *)
LEMMA ZeroedIsFile ==
    ASSUME NEW b \in Seq(Nat)
    PROVE  Zeroed(b) \in Seq(Nat) /\ Zeroed(Zeroed(b)) = Zeroed(b)
  <1>1. Zeroed(b) \in Seq(Nat) /\ Len(Zeroed(b)) = Len(b)
    BY DEF Zeroed
  <1> QED
    BY <1>1 DEF Zeroed

(* Only a rename and damage change a file.                                 *)
LEMMA FilesChangeBy ==
    ASSUME Next
    PROVE  \/ UNCHANGED files
           \/ \E b \in Agent : \/ \E w \in Writer : PutRename(b, w)
                              \/ \E e \in Digests : Damage(b, e)
  <1>1. PICK a \in Agent : AgentStep(a)
    BY DEF Next
  <1>2. CASE StoreStep(a)
    BY <1>2 DEF StoreStep, PutWrite, PutWritten, Write, Upload, Uploaded
  <1>3. CASE FetchStep(a)
    BY <1>3 DEF FetchStep, BeginFetch, Ask, Exhausted, Read, Stored, RegisterReplica,
                EndFetch, storeVars
  <1>4. CASE FaultStep(a)
    BY <1>4 DEF FaultStep, AskFails, ReadGarbled, ReadFails, RegistrationFails,
                PutFails, Crash, storeVars
  <1>5. CASE Expire(a) \/ Restart(a)
    BY <1>5 DEF Expire, Restart, storeVars
  <1> QED
    BY <1>1, <1>2, <1>3, <1>4, <1>5 DEF AgentStep

(* Files are replaced, never removed.                                      *)
LEMMA FilesStay ==
    ASSUME StoreInv, Next, NEW a \in Agent, NEW d \in Digests, Contains(a, d)
    PROVE  Contains(a, d)'
  <1>0. /\ files \in [Agent -> [Digests -> Seq(Nat) \cup {Missing}]]
        /\ Missing \notin Seq(Nat)
    BY DataPlaneAssumption DEF StoreInv, StoreShape
  <1>1. CASE UNCHANGED files
    BY <1>1 DEF Contains
  <1>2. ASSUME NEW b \in Agent, NEW w \in Writer, PutRename(b, w)
        PROVE  Contains(a, d)'
    BY <1>0, <1>2 DEF PutRename, Contains
  <1>3. ASSUME NEW b \in Agent, NEW e \in Digests, Damage(b, e)
        PROVE  Contains(a, d)'
    <2>1. files[b][e] \in Seq(Nat)
      BY <1>0, <1>3 DEF Damage, Contains
    <2>2. Zeroed(files[b][e]) # Missing
      BY <1>0, <2>1, ZeroedIsFile
    <2> QED
      BY <1>0, <1>3, <2>2 DEF Damage, Contains
  <1> QED
    BY <1>1, <1>2, <1>3, FilesChangeBy

-----------------------------------------------------------------------------
(* Puts.                                                                   *)

LEMMA PutBegunSound ==
    ASSUME NEW a, NEW bytes \in Bytes
    PROVE  /\ PutBegun(a, bytes) \in [pc : PutPcs, bytes : Seq(Nat)]
           /\ PutBegun(a, bytes).bytes = bytes
           /\ PutBegun(a, bytes).pc \in {"write", "stored"}
           /\ PutBegun(a, bytes).pc = "stored" => Contains(a, Digest(bytes))
  BY BytesAreSeqs DEF PutBegun, PutPcs

(* The puts of all agents.                                                *)
PutsSound ==
    /\ puts \in [Agent -> [Writer -> [pc : PutPcs, bytes : Seq(Nat)]]]
    /\ temps \in [Agent -> [Writer -> Seq(Nat) \cup {Missing}]]
    /\ \A b \in Agent : \A v \in Writer : PutSound(b, v)

(* A step that changes one put, and no temporary file but that put's.      *)
LEMMA OnePut ==
    ASSUME StoreInv, Next, NEW a \in Agent, NEW w \in Writer,
           NEW p \in [pc : PutPcs, bytes : Seq(Nat)], puts' = [puts EXCEPT ![a][w] = p],
           NEW t \in Seq(Nat) \cup {Missing},
           UNCHANGED temps \/ temps' = [temps EXCEPT ![a][w] = t],
           PutSound(a, w)'
    PROVE  PutsSound'
  <1>1. /\ puts \in [Agent -> [Writer -> [pc : PutPcs, bytes : Seq(Nat)]]]
        /\ temps \in [Agent -> [Writer -> Seq(Nat) \cup {Missing}]]
    BY DEF StoreInv, StoreShape
  <1>2. ASSUME NEW b \in Agent, NEW v \in Writer, ~(b = a /\ v = w)
        PROVE  PutSound(b, v)'
    <2>1. puts'[b][v] = puts[b][v] /\ temps'[b][v] = temps[b][v]
      BY <1>1, <1>2
    <2>2. PutSound(b, v)
      BY DEF StoreInv
    <2>3. puts[b][v].pc = "stored" => Contains(b, Digest(puts[b][v].bytes))'
      BY <2>1, <2>2, FilesStay, DigestsOfBytes DEF PutSound
    <2> QED
      BY <2>1, <2>2, <2>3 DEF PutSound
  <1>3. puts' \in [Agent -> [Writer -> [pc : PutPcs, bytes : Seq(Nat)]]]
    BY <1>1
  <1>4. temps' \in [Agent -> [Writer -> Seq(Nat) \cup {Missing}]]
    <2>1. CASE UNCHANGED temps
      BY <1>1, <2>1
    <2>2. CASE temps' = [temps EXCEPT ![a][w] = t]
      BY <1>1, <2>2
    <2> QED
      BY <2>1, <2>2
  <1> QED
    BY <1>2, <1>3, <1>4 DEF PutsSound

(* A step that changes no put.                                             *)
LEMMA PutsKept ==
    ASSUME StoreInv, Next, UNCHANGED <<puts, temps>>
    PROVE  PutsSound'
  <1>1. ASSUME NEW b \in Agent, NEW v \in Writer PROVE PutSound(b, v)'
    <2>1. PutSound(b, v)
      BY DEF StoreInv
    <2>2. puts[b][v].pc = "stored" => Contains(b, Digest(puts[b][v].bytes))'
      BY <2>1, FilesStay, DigestsOfBytes DEF PutSound
    <2> QED
      BY <2>1, <2>2 DEF PutSound
  <1> QED
    BY <1>1 DEF PutsSound, StoreInv, StoreShape

(* A worker's put of bytes that have arrived.                              *)
LEMMA ReceivedPut ==
    ASSUME StoreInv, Next, NEW a \in Agent, NEW bytes,
           fetch[a].range = WholeObject => bytes \in Bytes,
           Received(a, bytes), UNCHANGED <<files, temps>>
    PROVE  PutsSound'
  <1>1. CASE fetch[a].range = WholeObject
    <2> DEFINE p == PutBegun(a, bytes)
    <2>1. bytes \in Bytes /\ puts' = [puts EXCEPT ![a]["worker"] = p]
      BY <1>1 DEF Received
    <2>2. puts'[a]["worker"] = p
      BY <2>1 DEF StoreInv, StoreShape, Writer
    <2>3. PutSound(a, "worker")'
      BY <2>1, <2>2, PutBegunSound DEF PutSound, Contains
    <2> QED
      BY <2>1, <2>3, OnePut, PutBegunSound DEF Writer
  <1>2. CASE fetch[a].range # WholeObject
    BY <1>2, PutsKept DEF Received
  <1> QED
    BY <1>1, <1>2

(* A put that is given up.                                                 *)
LEMMA PutDropped ==
    ASSUME StoreInv, Next, NEW a \in Agent, NEW w \in Writer,
           puts' = [puts EXCEPT ![a][w] = NoPut], UNCHANGED temps
    PROVE  PutsSound'
  <1>1. NoPut \in [pc : PutPcs, bytes : Seq(Nat)] /\ NoPut.pc = "idle"
    BY DEF NoPut, PutPcs
  <1>2. puts'[a][w] = NoPut
    BY DEF StoreInv, StoreShape
  <1>3. PutSound(a, w)'
    BY <1>1, <1>2 DEF PutSound
  <1> QED
    BY <1>1, <1>3, OnePut

(* A put that goes on keeps its bytes.                                     *)
LEMMA PutAdvances ==
    ASSUME StoreInv, NEW a \in Agent, NEW w \in Writer, NEW s,
           puts' = [puts EXCEPT ![a][w].pc = s]
    PROVE  puts' = [puts EXCEPT ![a][w] = [pc |-> s, bytes |-> puts[a][w].bytes]]
  <1>1. puts[a][w] \in [pc : PutPcs, bytes : Seq(Nat)]
    BY DEF StoreInv, StoreShape
  <1>2. [puts[a][w] EXCEPT !.pc = s] = [pc |-> s, bytes |-> puts[a][w].bytes]
    BY <1>1
  <1>3. puts' = [puts EXCEPT ![a][w] = [puts[a][w] EXCEPT !.pc = s]]
    OBVIOUS
  <1> QED
    BY <1>2, <1>3

LEMMA StoreStepPuts ==
    ASSUME StoreInv, Next, NEW a \in Agent, StoreStep(a)
    PROVE  PutsSound'
  <1>0. /\ puts \in [Agent -> [Writer -> [pc : PutPcs, bytes : Seq(Nat)]]]
        /\ temps \in [Agent -> [Writer -> Seq(Nat) \cup {Missing}]]
        /\ files \in [Agent -> [Digests -> Seq(Nat) \cup {Missing}]]
    BY DEF StoreInv, StoreShape
  <1>1. ASSUME NEW w \in Writer, PutWrite(a, w) PROVE PutsSound'
    <2> DEFINE p == [pc |-> "writing", bytes |-> puts[a][w].bytes]
               t == Torn(puts[a][w].bytes)
    <2>0. /\ p.bytes = puts[a][w].bytes /\ p.pc = "writing"
          /\ p \in [pc : PutPcs, bytes : Seq(Nat)]
      BY <1>0 DEF PutPcs
    <2>1. puts' = [puts EXCEPT ![a][w] = p]
      BY <1>1, PutAdvances DEF PutWrite
    <2>2. puts[a][w].bytes \in Bytes
      BY <1>1 DEF StoreInv, PutSound, PutWrite, PutAt
    <2>3. temps' = [temps EXCEPT ![a][w] = t] /\ t \in Seq(Nat) \cup {Missing}
      <3>1. \A b \in Bytes : Torn(b) \in Seq(Nat)
        BY TornOfBytes
      <3> QED
        BY <1>1, <2>2, <3>1 DEF PutWrite, Write
    <2>4. puts'[a][w] = p
      BY <1>0, <2>1
    <2> HIDE DEF p, t
    <2>5. PutSound(a, w)'
      BY <2>0, <2>2, <2>4 DEF PutSound
    <2> QED
      BY <2>0, <2>1, <2>3, <2>5, OnePut
  <1>2. ASSUME NEW w \in Writer, PutWritten(a, w) PROVE PutsSound'
    <2> DEFINE p == [pc |-> "rename", bytes |-> puts[a][w].bytes]
               t == puts[a][w].bytes
    <2>0. /\ p.bytes = puts[a][w].bytes /\ p.pc = "rename"
          /\ p \in [pc : PutPcs, bytes : Seq(Nat)]
      BY <1>0 DEF PutPcs
    <2>1. puts' = [puts EXCEPT ![a][w] = p]
      BY <1>2, PutAdvances DEF PutWritten
    <2>2. puts[a][w].bytes \in Bytes
      BY <1>2 DEF StoreInv, PutSound, PutWritten, PutAt
    <2>3. temps' = [temps EXCEPT ![a][w] = t] /\ t \in Seq(Nat) \cup {Missing}
      BY <1>2, <2>2, BytesAreSeqs DEF PutWritten, Write
    <2>4. puts'[a][w] = p /\ temps'[a][w] = t
      BY <1>0, <2>1, <2>3
    <2> HIDE DEF p
    <2>5. PutSound(a, w)'
      BY <2>0, <2>2, <2>4 DEF PutSound
    <2> QED
      BY <2>0, <2>1, <2>3, <2>5, OnePut
  <1>3. ASSUME NEW w \in Writer, PutRename(a, w) PROVE PutsSound'
    <2> DEFINE p == [pc |-> "stored", bytes |-> puts[a][w].bytes]
               d == Digest(puts[a][w].bytes)
    <2>0. /\ p.bytes = puts[a][w].bytes /\ p.pc = "stored"
          /\ p \in [pc : PutPcs, bytes : Seq(Nat)]
      BY <1>0 DEF PutPcs
    <2>1. puts' = [puts EXCEPT ![a][w] = p]
      BY <1>3, PutAdvances DEF PutRename
    <2>2. puts[a][w].bytes \in Bytes /\ temps[a][w] = puts[a][w].bytes
      BY <1>3 DEF StoreInv, PutSound, PutRename, PutAt
    <2>3. temps[a][w] # Missing /\ d \in Digests
      BY <2>2, BytesAreSeqs, DigestsOfBytes, DataPlaneAssumption
    <2>4. files' = [files EXCEPT ![a][d] = temps[a][w]]
      BY <1>3, <2>3 DEF PutRename
    <2>5. files'[a][d] # Missing
      BY <1>0, <2>3, <2>4
    <2>6. puts'[a][w] = p
      BY <1>0, <2>1
    <2> HIDE DEF p
    <2>7. PutSound(a, w)'
      BY <2>0, <2>2, <2>5, <2>6 DEF PutSound, Contains
    <2>8. temps' = [temps EXCEPT ![a][w] = Missing]
      BY <1>3 DEF PutRename
    <2> QED
      BY <2>0, <2>1, <2>7, <2>8, OnePut
  <1>4. ASSUME NEW c \in Content, Upload(a, c) PROVE PutsSound'
    <2> DEFINE p == PutBegun(a, c)
    <2>1. c \in Bytes /\ puts' = [puts EXCEPT ![a]["server"] = p] /\ UNCHANGED <<files, temps>>
      BY <1>4 DEF Upload, Bytes
    <2>2. puts'[a]["server"] = p
      BY <1>0, <2>1 DEF Writer
    <2>3. PutSound(a, "server")'
      BY <2>1, <2>2, PutBegunSound DEF PutSound, Contains
    <2> QED
      BY <2>1, <2>3, OnePut, PutBegunSound DEF Writer
  <1>5. CASE Uploaded(a)
    BY <1>5, PutDropped DEF Uploaded, Writer
  <1> QED
    BY <1>1, <1>2, <1>3, <1>4, <1>5 DEF StoreStep

LEMMA NextPuts ==
    ASSUME StoreInv, Next
    PROVE  PutsSound'
  <1>1. PICK a \in Agent : AgentStep(a)
    BY DEF Next
  <1>2. CASE StoreStep(a)
    BY <1>2, StoreStepPuts
  <1>3. CASE FetchStep(a)
    <2>1. CASE Read(a)
      <3>1. fetch[a].range = WholeObject => fetch[a].reply.bytes \in Bytes
        BY <2>1, BytesAreSeqs DEF StoreInv, FetchBacked, Read, At
      <3> QED
        BY <2>1, <3>1, ReceivedPut DEF Read
    <2>2. CASE Stored(a)
      BY <2>2, PutDropped DEF Stored, Writer
    <2>3. CASE ~Read(a) /\ ~Stored(a)
      <3>1. UNCHANGED <<puts, temps>>
        BY <1>3, <2>3 DEF FetchStep, BeginFetch, Ask, Exhausted, RegisterReplica,
                          EndFetch, storeVars
      <3> QED
        BY <3>1, PutsKept
    <2> QED
      BY <2>1, <2>2, <2>3
  <1>4. CASE FaultStep(a)
    <2>1. ASSUME NEW c \in Bytes, ReadGarbled(a, c) PROVE PutsSound'
      BY <2>1, ReceivedPut DEF ReadGarbled
    <2>2. ASSUME NEW w \in Writer, PutFails(a, w) PROVE PutsSound'
      BY <2>2, PutDropped DEF PutFails
    <2>3. CASE Crash(a)
      <3>1. NoPut \in [pc : PutPcs, bytes : Seq(Nat)] /\ NoPut.pc = "idle"
        BY DEF NoPut, PutPcs
      <3>2. /\ puts \in [Agent -> [Writer -> [pc : PutPcs, bytes : Seq(Nat)]]]
            /\ temps \in [Agent -> [Writer -> Seq(Nat) \cup {Missing}]]
            /\ puts' = [puts EXCEPT ![a] = [w \in Writer |-> NoPut]]
            /\ UNCHANGED <<files, temps>>
        BY <2>3 DEF StoreInv, StoreShape, Crash
      <3>3. puts' \in [Agent -> [Writer -> [pc : PutPcs, bytes : Seq(Nat)]]]
        BY <3>1, <3>2
      <3>4. ASSUME NEW b \in Agent, NEW v \in Writer PROVE PutSound(b, v)'
        <4>1. CASE b = a
          BY <3>1, <3>2, <4>1 DEF PutSound
        <4>2. CASE b # a
          BY <3>2, <4>2 DEF PutSound, StoreInv, Contains
        <4> QED
          BY <4>1, <4>2
      <3> QED
        BY <3>2, <3>3, <3>4 DEF PutsSound
    <2>4. CASE /\ ~Crash(a)
               /\ \A c \in Bytes : ~ReadGarbled(a, c)
               /\ \A w \in Writer : ~PutFails(a, w)
      <3>1. UNCHANGED <<puts, temps>>
        BY <1>4, <2>4 DEF FaultStep, AskFails, ReadFails, RegistrationFails, Damage,
                          storeVars
      <3> QED
        BY <3>1, PutsKept
    <2> QED
      BY <2>1, <2>2, <2>3, <2>4
  <1>5. CASE Expire(a) \/ Restart(a)
    BY <1>5, PutsKept DEF Expire, Restart, storeVars
  <1> QED
    BY <1>1, <1>2, <1>3, <1>4, <1>5 DEF AgentStep

-----------------------------------------------------------------------------
(* Files, fetches and locations.                                           *)

LEMMA NextFiles ==
    ASSUME StoreInv, Next
    PROVE  /\ files' \in [Agent -> [Digests -> Seq(Nat) \cup {Missing}]]
           /\ FilesAreWhole'
  <1>0. /\ files \in [Agent -> [Digests -> Seq(Nat) \cup {Missing}]]
        /\ FilesAreWhole
        /\ Missing \notin Seq(Nat)
    BY DataPlaneAssumption DEF StoreInv, StoreShape
  <1>1. CASE UNCHANGED files
    BY <1>0, <1>1 DEF FilesAreWhole
  <1>2. ASSUME NEW a \in Agent, NEW d \in Digests, NEW f \in Seq(Nat),
               f \in {d[2], Zeroed(d[2])}, files' = [files EXCEPT ![a][d] = f]
        PROVE  /\ files' \in [Agent -> [Digests -> Seq(Nat) \cup {Missing}]]
               /\ FilesAreWhole'
    BY <1>0, <1>2 DEF FilesAreWhole
  <1>3. ASSUME NEW a \in Agent, NEW w \in Writer, PutRename(a, w), files' # files
        PROVE  \E d \in Digests : \E f \in Seq(Nat) :
                 f \in {d[2], Zeroed(d[2])} /\ files' = [files EXCEPT ![a][d] = f]
    <2> DEFINE b == puts[a][w].bytes
    <2>1. b \in Bytes /\ temps[a][w] = b
      BY <1>3 DEF StoreInv, PutSound, PutRename, PutAt
    <2>2. b \in Seq(Nat) /\ Digest(b) \in Digests /\ Digest(b)[2] = b
      BY <2>1, BytesAreSeqs, DigestsOfBytes
    <2>3. files' = [files EXCEPT ![a][Digest(b)] = b]
      BY <1>3, <2>1 DEF PutRename
    <2> HIDE DEF b
    <2> QED
      BY <2>2, <2>3
  <1>4. ASSUME NEW a \in Agent, NEW d \in Digests, Damage(a, d)
        PROVE  \E f \in Seq(Nat) :
                 f \in {d[2], Zeroed(d[2])} /\ files' = [files EXCEPT ![a][d] = f]
    <2>1. files[a][d] \in {d[2], Zeroed(d[2])} /\ d[2] \in Seq(Nat)
      BY <1>0, <1>4, DigestsOfBytes, BytesAreSeqs DEF FilesAreWhole, Damage, Contains
    <2>2. Zeroed(files[a][d]) = Zeroed(d[2]) /\ Zeroed(d[2]) \in Seq(Nat)
      BY <2>1, ZeroedIsFile
    <2>3. files' = [files EXCEPT ![a][d] = Zeroed(d[2])]
      BY <1>4, <2>2 DEF Damage
    <2> QED
      BY <2>2, <2>3
  <1> QED
    BY <1>1, <1>2, <1>3, <1>4, FilesChangeBy

(* An agent that announces a replica keeps having it.                      *)
LEMMA BackedStays ==
    ASSUME StoreInv, Next, NEW b \in Agent, fetch'[b] = fetch[b]
    PROVE  FetchBacked(b)'
  <1>1. FetchBacked(b)
    BY DEF StoreInv
  <1>2. Digest(Wanted) \in Digests
    BY BytesAreSeqs, DigestsOfBytes
  <1>3. Contains(b, Digest(Wanted)) => Contains(b, Digest(Wanted))'
    BY <1>2, FilesStay
  <1> QED
    BY <1>1, <1>3 DEF FetchBacked

(* The reply to a request for the whole object.                            *)
LEMMA WholeReply ==
    ASSUME NEW h, GetBlob(h, WholeObject).status = 200
    PROVE  GetBlob(h, WholeObject).bytes = Wanted
  <1>1. /\ Verified(h, Digest(Wanted))
        /\ GetBlob(h, WholeObject) = Reply(200, files[h][Digest(Wanted)])
    BY DEF GetBlob, Reply
  <1>2. files[h][Digest(Wanted)] = Wanted
    BY <1>1, DigestInjective DEF Verified
  <1> QED
    BY <1>1, <1>2 DEF Reply

(* Only the agent that acts changes its fetch, and it is left reading a    *)
(* reply or announcing a replica only by Ask and Stored.                   *)
LEMMA FetchSteps ==
    ASSUME IInv, NEW a \in Agent, AgentStep(a)
    PROVE  \/ UNCHANGED fetch
           \/ /\ \A b \in Agent \ {a} : fetch'[b] = fetch[b]
              /\ \/ fetch'[a].pc \notin {"reading", "registering"}
                 \/ \E h \in Agent : Ask(a, h)
                 \/ Stored(a)
  <1>0. DOMAIN fetch = Agent /\ \A b \in Agent : DOMAIN fetch[b] = Fields
    BY DEF IInv, FetchShape
  <1>2. CASE StoreStep(a) \/ Expire(a) \/ Restart(a)
    BY <1>2 DEF StoreStep, PutWrite, PutWritten, PutRename, Upload, Uploaded, Expire,
                Restart
  <1> DEFINE Harmless == /\ \A b \in Agent \ {a} : fetch'[b] = fetch[b]
                         /\ fetch'[a].pc \notin {"reading", "registering"}
  <1>3. ASSUME NEW why, Failed(a, why) PROVE Harmless
    BY <1>0, <1>3 DEF Failed, Fields
  <1>4. ASSUME fetch' = [fetch EXCEPT ![a] = NoFetch] PROVE Harmless
    BY <1>0, <1>4 DEF NoFetch
  <1>5. ASSUME NEW bytes, Received(a, bytes) PROVE Harmless
    BY <1>0, <1>5 DEF Received, Ended, Fields
  <1>6. CASE FetchStep(a)
    <2>1. ASSUME NEW range \in Ranges, BeginFetch(a, range) PROVE Harmless
      BY <1>0, <2>1 DEF BeginFetch, NoFetch
    <2>2. ASSUME NEW h \in Agent, Ask(a, h)
          PROVE  \A b \in Agent \ {a} : fetch'[b] = fetch[b]
      BY <1>0, <2>2 DEF Ask
    <2>3. ASSUME Exhausted(a) PROVE Harmless
      BY <1>3, <2>3 DEF Exhausted
    <2>4. ASSUME Read(a) PROVE Harmless
      BY <1>5, <2>4 DEF Read
    <2>5. ASSUME Stored(a) PROVE \A b \in Agent \ {a} : fetch'[b] = fetch[b]
      BY <1>0, <2>5 DEF Stored
    <2>6. ASSUME RegisterReplica(a) PROVE Harmless
      BY <1>0, <2>6 DEF RegisterReplica, Ended, Fields
    <2>7. ASSUME EndFetch(a) PROVE Harmless
      BY <1>4, <2>7 DEF EndFetch
    <2> HIDE DEF Harmless
    <2>8. \/ Harmless
          \/ /\ \A b \in Agent \ {a} : fetch'[b] = fetch[b]
             /\ (\E h \in Agent : Ask(a, h)) \/ Stored(a)
      BY <1>6, <2>1, <2>2, <2>3, <2>4, <2>5, <2>6, <2>7 DEF FetchStep
    <2> QED
      BY <2>8 DEF Harmless
  <1>7. CASE FaultStep(a)
    <2>1. ASSUME NEW h \in Agent, AskFails(a, h) PROVE Harmless
      BY <1>0, <2>1 DEF AskFails, At, Fields
    <2> HIDE DEF Harmless
    <2>2. Harmless \/ UNCHANGED fetch
      BY <1>3, <1>4, <1>5, <1>7, <2>1
      DEF FaultStep, ReadGarbled, ReadFails, RegistrationFails, PutFails, Damage, Crash
    <2> QED
      BY <2>2 DEF Harmless
  <1> QED
    BY <1>2, <1>6, <1>7 DEF AgentStep

LEMMA NextFetches ==
    ASSUME IInv, StoreInv, Next
    PROVE  \A b \in Agent : FetchBacked(b)'
  <1>0. DOMAIN fetch = Agent /\ \A b \in Agent : DOMAIN fetch[b] = Fields
    BY DEF IInv, FetchShape
  <1>1. CASE UNCHANGED fetch
    BY <1>1, BackedStays
  <1>2. ASSUME NEW a \in Agent, fetch'[a].pc \notin {"reading", "registering"}
        PROVE  FetchBacked(a)'
    BY <1>2 DEF FetchBacked
  <1>3. ASSUME NEW a \in Agent, NEW h \in Agent, Ask(a, h)
        PROVE  FetchBacked(a)'
    <2>1. CASE fetch'[a].pc = "asking"
      BY <2>1 DEF FetchBacked
    <2>2. CASE /\ fetch'[a].pc = "reading" /\ fetch'[a].range = fetch[a].range
               /\ fetch'[a].reply = GetBlob(h, fetch[a].range)
               /\ GetBlob(h, fetch[a].range).status
                    = IF fetch[a].range = WholeObject THEN 200 ELSE 206
      BY <2>2, WholeReply DEF FetchBacked
    <2> QED
      BY <1>0, <1>3, <2>1, <2>2 DEF Ask, Fields
  <1>4. ASSUME NEW a \in Agent, Stored(a) PROVE FetchBacked(a)'
    <2> DEFINE bytes == puts[a]["worker"].bytes
    <2>1. Contains(a, Digest(bytes)) /\ UNCHANGED files
      BY <1>4 DEF StoreInv, PutSound, Stored, PutAt, Writer
    <2>2. \/ fetch'[a].pc = "asking"
          \/ fetch'[a].pc = "registering" /\ DigestMatches(bytes)
      BY <1>0, <1>4 DEF Stored, Fields
    <2> QED
      BY <2>1, <2>2 DEF FetchBacked, DigestMatches, Contains
  <1> QED
    BY <1>1, <1>2, <1>3, <1>4, FetchSteps, BackedStays DEF Next

LEMMA NextLocations ==
    ASSUME StoreInv, Next
    PROVE  known' \subseteq Agent /\ LocationsHoldObject'
  <1>0. known \subseteq Agent /\ LocationsHoldObject
    BY DEF StoreInv, StoreShape
  <1>1. Digest(Wanted) \in Digests
    BY BytesAreSeqs, DigestsOfBytes
  <1>2. \/ known' \subseteq known
        \/ \E a \in Agent : /\ known' \subseteq known \cup {a}
                            /\ Contains(a, Digest(Wanted))
    <2>1. PICK a \in Agent : AgentStep(a)
      BY DEF Next
    <2>2. CASE Uploaded(a)
      <3>1. puts[a]["server"].bytes = Wanted => Contains(a, Digest(Wanted))
        BY <2>2 DEF Uploaded, StoreInv, PutSound, PutAt, Writer
      <3> QED
        BY <2>2, <3>1 DEF Uploaded
    <2>3. CASE RegisterReplica(a) \/ RegistrationFails(a)
      <3>1. Contains(a, Digest(Wanted))
        BY <2>3 DEF StoreInv, FetchBacked, RegisterReplica, RegistrationFails, At
      <3> QED
        BY <2>3, <3>1 DEF RegisterReplica, RegistrationFails
    <2>4. CASE StoreStep(a) /\ ~Uploaded(a)
      BY <2>4 DEF StoreStep, PutWrite, PutWritten, PutRename, Upload
    <2>5. CASE FetchStep(a) /\ ~RegisterReplica(a)
      BY <2>5 DEF FetchStep, BeginFetch, Ask, Exhausted, Read, Stored, EndFetch
    <2>6. CASE FaultStep(a) /\ ~RegistrationFails(a)
      BY <2>6 DEF FaultStep, AskFails, ReadGarbled, ReadFails, PutFails, Damage, Crash
    <2>7. CASE Expire(a) \/ Restart(a)
      BY <2>7 DEF Expire, Restart
    <2> QED
      BY <2>1, <2>2, <2>3, <2>4, <2>5, <2>6, <2>7 DEF AgentStep
  <1> QED
    BY <1>0, <1>1, <1>2, FilesStay DEF LocationsHoldObject

-----------------------------------------------------------------------------

LEMMA InitStoreInv == Init => StoreInv
  <1> SUFFICES ASSUME Init PROVE StoreInv
    OBVIOUS
  <1>1. StoreShape
    BY DEF Init, StoreShape, NoPut, PutPcs
  <1>2. FilesAreWhole /\ LocationsHoldObject
    BY DEF Init, FilesAreWhole, LocationsHoldObject
  <1>3. \A a \in Agent : (\A w \in Writer : PutSound(a, w)) /\ FetchBacked(a)
    BY DEF Init, PutSound, FetchBacked, NoPut, NoFetch
  <1> QED
    BY <1>1, <1>2, <1>3 DEF StoreInv

LEMMA NextStoreInv == IInv /\ StoreInv /\ [Next]_vars => StoreInv'
  <1> SUFFICES ASSUME IInv, StoreInv, [Next]_vars PROVE StoreInv'
    OBVIOUS
  <1>1. CASE Next
    BY <1>1, NextPuts, NextFiles, NextFetches, NextLocations
    DEF StoreInv, StoreShape, PutsSound
  <1>2. CASE UNCHANGED vars
    BY <1>2 DEF vars, StoreInv, StoreShape, FilesAreWhole, PutSound, FetchBacked,
                LocationsHoldObject, Contains
  <1> QED
    BY <1>1, <1>2

LEMMA StoreInvariant == Spec => [](IInv /\ StoreInv)
  BY InitIInv, NextIInv, InitStoreInv, NextStoreInv, PTL DEF Spec

(* Put is atomic: without damage to a disk each file has the bytes its     *)
(* name promises, whatever puts race or die, and nothing half-written is   *)
(* ever to be seen.                                                        *)
THEOREM WholeFiles == Spec => []FilesAreWhole
  BY StoreInvariant, PTL DEF StoreInv

(* A location is recorded only for an agent that has the whole object, and *)
(* stays true of it: no store ever loses a file.                           *)
THEOREM TrueLocations == Spec => []LocationsHoldObject
  BY StoreInvariant, PTL DEF StoreInv

=============================================================================
