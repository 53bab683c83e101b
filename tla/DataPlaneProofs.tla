--------------------------- MODULE DataPlaneProofs ---------------------------
(***************************************************************************)
(* materialize_input never returns wrong bytes, for any number of agents,  *)
(* contents, ranges and faults.  The proof needs nothing of what the files *)
(* hold: get verifies every file it reads against its name, and a body is  *)
(* compared with a digest before it is used.                               *)
(***************************************************************************)
EXTENDS DataPlane, TLAPS

Fields == {"pc", "range", "left", "asked", "reply", "bytes", "why"}

(* The state of a fetch is a record.                                       *)
FetchShape ==
    /\ DOMAIN fetch = Agent
    /\ \A a \in Agent : DOMAIN fetch[a] = Fields

(* What a fetch knows at each point: the digest in the reply to a range    *)
(* request is the one of the right bytes, and only a whole object, whose   *)
(* digest was compared, is registered.                                     *)
FetchSound(a) ==
    /\ fetch[a].pc = "done" => fetch[a].bytes = Slice(Wanted, fetch[a].range)
    /\ (fetch[a].pc = "reading" /\ fetch[a].range # WholeObject) =>
          fetch[a].reply.digest = Digest(Slice(Wanted, fetch[a].range))
    /\ fetch[a].pc \in {"putting", "registering"} => fetch[a].range = WholeObject
    /\ fetch[a].pc = "registering" => fetch[a].bytes = Wanted

IInv == FetchShape /\ \A a \in Agent : FetchSound(a)

-----------------------------------------------------------------------------

LEMMA DigestInjective ==
    ASSUME NEW b, NEW c, Digest(b) = Digest(c)
    PROVE  b = c
  BY DEF Digest

LEMMA WantedWhole == Slice(Wanted, WholeObject) = Wanted
  <1>1. Wanted \in Seq(Nat)
    BY DataPlaneAssumption
  <1>2. Slice(Wanted, WholeObject) = SubSeq(Wanted, 1, Len(Wanted))
    BY <1>1 DEF Slice, WholeObject
  <1> QED
    BY <1>1, <1>2

LEMMA EmptySlice ==
    ASSUME NEW range \in Nat \X Nat, range[2] = 0
    PROVE  Slice(Wanted, range) = <<>>
  <1>1. Wanted \in Seq(Nat)
    BY DataPlaneAssumption
  <1>2. Slice(Wanted, range) = SubSeq(Wanted, range[1] + 1, range[1])
    BY DEF Slice
  <1> QED
    BY <1>1, <1>2

(* An answer to a range request has the digest of the right bytes.         *)
LEMMA RangeReply ==
    ASSUME NEW h, NEW range, range # WholeObject, GetBlob(h, range).status = 206
    PROVE  GetBlob(h, range).digest = Digest(Slice(Wanted, range))
  <1> DEFINE file == files[h][Digest(Wanted)]
  <1>1. Contains(h, Digest(Wanted)) /\ Verified(h, Digest(Wanted))
        /\ GetBlob(h, range) = Reply(206, RangePayload(file, range))
    BY DEF GetBlob, Reply
  <1>2. file = Wanted
    BY <1>1, DigestInjective DEF Verified
  <1> QED
    BY <1>1, <1>2 DEF Reply, RangePayload

(* A step that changes only the fetch of a needs to be looked at there.    *)
LEMMA OneFetch ==
    ASSUME IInv, NEW a \in Agent, NEW r, DOMAIN r = Fields,
           fetch' = [fetch EXCEPT ![a] = r], FetchSound(a)'
    PROVE  IInv'
  <1>1. FetchShape'
    BY DEF IInv, FetchShape
  <1>2. ASSUME NEW b \in Agent, b # a PROVE FetchSound(b)'
    BY <1>2 DEF IInv, FetchShape, FetchSound
  <1> QED
    BY <1>1, <1>2 DEF IInv

LEMMA InitIInv == Init => IInv
  BY DEF Init, IInv, FetchShape, FetchSound, NoFetch, Fields

LEMMA UnchangedFetch ==
    ASSUME IInv, UNCHANGED fetch PROVE IInv'
  BY DEF IInv, FetchShape, FetchSound

-----------------------------------------------------------------------------
(* The steps of a fetch.                                                   *)

LEMMA BeginFetchSound ==
    ASSUME IInv, NEW a \in Agent, NEW range \in Ranges, BeginFetch(a, range)
    PROVE  IInv'
  <1> DEFINE r == fetch'[a]
             file == files[a][Digest(Wanted)]
  <1>1. DOMAIN fetch = Agent
    BY DEF IInv, FetchShape
  <1>2. fetch' = [fetch EXCEPT ![a] = r] /\ DOMAIN r = Fields
    BY <1>1 DEF BeginFetch, NoFetch, Fields
  <1>3. Verified(a, Digest(Wanted)) => file = Wanted
    BY DigestInjective DEF Verified
  <1>4. range[2] = 0 => Slice(Wanted, range) = <<>>
    BY EmptySlice, DataPlaneAssumption
  <1>5. \/ r.pc \in {"failed", "asking"}
        \/ r.pc = "done" /\ r.range = range /\ range[2] = 0 /\ r.bytes = <<>>
        \/ /\ r.pc = "done" /\ r.range = range
           /\ Verified(a, Digest(Wanted)) /\ r.bytes = Slice(file, range)
    BY <1>1 DEF BeginFetch, NoFetch
  <1>6. FetchSound(a)'
    <2> HIDE DEF r, file
    <2>1. /\ r.pc = "done" => r.bytes = Slice(Wanted, r.range)
          /\ r.pc \in {"done", "failed", "asking"}
      BY <1>3, <1>4, <1>5
    <2>2. r.pc \notin {"reading", "putting", "registering"}
      BY <2>1
    <2> QED
      BY <2>1, <2>2 DEF r, FetchSound
  <1> QED
    BY <1>2, <1>6, OneFetch

(* A step after which the fetch of a is "asking" or "failed".              *)
LEMMA HarmlessStep ==
    ASSUME IInv, NEW a \in Agent, NEW r, DOMAIN r = Fields,
           fetch' = [fetch EXCEPT ![a] = r], r.pc \in {"idle", "asking", "failed"}
    PROVE  IInv'
  <1>1. fetch'[a] = r
    BY DEF IInv, FetchShape
  <1>2. FetchSound(a)'
    BY <1>1 DEF FetchSound
  <1> QED
    BY <1>2, OneFetch

LEMMA AskSound ==
    ASSUME IInv, NEW a \in Agent, NEW h \in Agent, Ask(a, h)
    PROVE  IInv'
  <1> DEFINE r == fetch'[a]
             reply == GetBlob(h, fetch[a].range)
  <1>1. DOMAIN fetch = Agent /\ DOMAIN fetch[a] = Fields
    BY DEF IInv, FetchShape
  <1>2. fetch' = [fetch EXCEPT ![a] = r] /\ DOMAIN r = Fields
    <2> DEFINE ok == h \in running /\ reply.status = IF fetch[a].range = WholeObject
                                                    THEN 200 ELSE 206
               s == IF ok THEN "reading" ELSE "asking"
               q == IF ok THEN reply ELSE fetch[a].reply
    <2>1. fetch' = [fetch EXCEPT ![a].left = @ \ {h}, ![a].asked = @ + 1,
                                 ![a].pc = s, ![a].reply = q]
      BY DEF Ask
    <2> HIDE DEF s, q
    <2>2. DOMAIN r = Fields
      BY <1>1, <2>1
    <2>3. fetch' = [fetch EXCEPT ![a] = r]
      BY <1>1, <2>1
    <2> QED
      BY <2>2, <2>3
  <1>3. r.pc = "asking" \/ (/\ r.pc = "reading" /\ r.reply = reply
                            /\ reply.status = IF fetch[a].range = WholeObject
                                              THEN 200 ELSE 206)
    BY <1>1 DEF Ask, Fields
  <1>4. r.range = fetch[a].range
    BY <1>1 DEF Ask, Fields
  <1>5. CASE r.pc = "asking"
    BY <1>2, <1>5, HarmlessStep
  <1>6. CASE r.pc = "reading"
    <2>1. r.range # WholeObject => r.reply.digest = Digest(Slice(Wanted, r.range))
      BY <1>3, <1>4, <1>6, RangeReply
    <2>2. FetchSound(a)'
      BY <1>6, <2>1 DEF FetchSound
    <2> QED
      BY <1>2, <2>2, OneFetch
  <1> QED
    BY <1>3, <1>5, <1>6

LEMMA ReceivedSound ==
    ASSUME IInv, NEW a \in Agent, NEW bytes, At(a, "reading"), Received(a, bytes)
    PROVE  IInv'
  <1> DEFINE r == fetch'[a]
  <1>1. DOMAIN fetch = Agent /\ DOMAIN fetch[a] = Fields
    BY DEF IInv, FetchShape
  <1>2. fetch' = [fetch EXCEPT ![a] = r] /\ DOMAIN r = Fields
    BY <1>1 DEF Received, Ended, Fields
  <1>3. r.range = fetch[a].range
    BY <1>1 DEF Received, Ended, Fields
  <1>4. CASE fetch[a].range = WholeObject
    <2>1. r.pc = "putting"
      BY <1>1, <1>4 DEF Received, Fields
    <2>2. FetchSound(a)'
      BY <1>3, <1>4, <2>1 DEF FetchSound
    <2> QED
      BY <1>2, <2>2, OneFetch
  <1>5. CASE fetch[a].range # WholeObject /\ RangeIntact(a, bytes)
    <2>1. r.pc = "done" /\ r.bytes = bytes
      BY <1>1, <1>5 DEF Received, Ended, Fields
    <2>2. fetch[a].reply.digest = Digest(Slice(Wanted, fetch[a].range))
      BY <1>5 DEF IInv, FetchSound, At
    <2>3. bytes = Slice(Wanted, fetch[a].range)
      BY <1>5, <2>2, DigestInjective DEF RangeIntact
    <2>4. FetchSound(a)'
      BY <1>3, <2>1, <2>3 DEF FetchSound
    <2> QED
      BY <1>2, <2>4, OneFetch
  <1>6. CASE fetch[a].range # WholeObject /\ ~RangeIntact(a, bytes)
    <2>1. r.pc = "asking"
      BY <1>1, <1>6 DEF Received, Fields
    <2> QED
      BY <1>2, <2>1, HarmlessStep
  <1> QED
    BY <1>4, <1>5, <1>6

LEMMA StoredSound ==
    ASSUME IInv, NEW a \in Agent, Stored(a)
    PROVE  IInv'
  <1> DEFINE r == fetch'[a]
             bytes == puts[a]["worker"].bytes
  <1>1. DOMAIN fetch = Agent /\ DOMAIN fetch[a] = Fields
    BY DEF IInv, FetchShape
  <1>2. fetch' = [fetch EXCEPT ![a] = r] /\ DOMAIN r = Fields
    BY <1>1 DEF Stored, Fields
  <1>3. /\ r.range = fetch[a].range /\ r.bytes = bytes
        /\ r.pc = IF DigestMatches(bytes) THEN "registering" ELSE "asking"
    BY <1>1 DEF Stored, Fields
  <1>4. fetch[a].range = WholeObject
    BY DEF IInv, FetchSound, Stored, At
  <1>5. CASE DigestMatches(bytes)
    <2>1. bytes = Wanted
      BY <1>5, DigestInjective DEF DigestMatches
    <2>2. r.pc = "registering" /\ r.bytes = Wanted /\ r.range = WholeObject
      BY <1>3, <1>4, <1>5, <2>1
    <2>3. FetchSound(a)'
      BY <2>2 DEF FetchSound
    <2> QED
      BY <1>2, <2>3, OneFetch
  <1>6. CASE ~DigestMatches(bytes)
    <2>1. r.pc = "asking"
      BY <1>3, <1>6
    <2> QED
      BY <1>2, <2>1, HarmlessStep
  <1> QED
    BY <1>5, <1>6

LEMMA RegisterSound ==
    ASSUME IInv, NEW a \in Agent, RegisterReplica(a)
    PROVE  IInv'
  <1> DEFINE r == fetch'[a]
  <1>1. DOMAIN fetch = Agent /\ DOMAIN fetch[a] = Fields
    BY DEF IInv, FetchShape
  <1>2. fetch' = [fetch EXCEPT ![a] = r] /\ DOMAIN r = Fields
    BY <1>1 DEF RegisterReplica, Ended, Fields
  <1>3. r.pc = "done" /\ r.bytes = fetch[a].bytes /\ r.range = fetch[a].range
    BY <1>1 DEF RegisterReplica, Ended, Fields
  <1>4. fetch[a].bytes = Wanted /\ fetch[a].range = WholeObject
    BY DEF IInv, FetchSound, RegisterReplica, At
  <1>5. FetchSound(a)'
    BY <1>3, <1>4, WantedWhole DEF FetchSound
  <1> QED
    BY <1>2, <1>5, OneFetch

LEMMA FailedSound ==
    ASSUME IInv, NEW a \in Agent, NEW why, Failed(a, why)
    PROVE  IInv'
  <1> DEFINE r == fetch'[a]
  <1>1. DOMAIN fetch = Agent /\ DOMAIN fetch[a] = Fields
    BY DEF IInv, FetchShape
  <1>2. fetch' = [fetch EXCEPT ![a] = r] /\ DOMAIN r = Fields /\ r.pc = "failed"
    BY <1>1 DEF Failed, Fields
  <1> QED
    BY <1>2, HarmlessStep

LEMMA AskFailsSound ==
    ASSUME IInv, NEW a \in Agent, NEW h, AskFails(a, h)
    PROVE  IInv'
  <1> DEFINE r == fetch'[a]
  <1>1. DOMAIN fetch = Agent /\ DOMAIN fetch[a] = Fields
    BY DEF IInv, FetchShape
  <1>2. fetch' = [fetch EXCEPT ![a] = r] /\ DOMAIN r = Fields /\ r.pc = "asking"
    BY <1>1 DEF AskFails, At, Fields
  <1> QED
    BY <1>2, HarmlessStep

LEMMA ForgottenSound ==
    ASSUME IInv, NEW a \in Agent, fetch' = [fetch EXCEPT ![a] = NoFetch]
    PROVE  IInv'
  BY HarmlessStep DEF NoFetch, Fields

-----------------------------------------------------------------------------

LEMMA NextIInv == IInv /\ [Next]_vars => IInv'
  <1> SUFFICES ASSUME IInv, [Next]_vars PROVE IInv'
    OBVIOUS
  <1>1. ASSUME NEW a \in Agent, StoreStep(a) PROVE IInv'
    <2>1. UNCHANGED fetch
      BY <1>1 DEF StoreStep, PutWrite, PutWritten, PutRename, Upload, Uploaded
    <2> QED
      BY <2>1, UnchangedFetch
  <1>2. ASSUME NEW a \in Agent, FetchStep(a) PROVE IInv'
    <2>1. ASSUME NEW range \in Ranges, BeginFetch(a, range) PROVE IInv'
      BY <2>1, BeginFetchSound
    <2>2. ASSUME NEW h \in Agent, Ask(a, h) PROVE IInv'
      BY <2>2, AskSound
    <2>3. CASE Exhausted(a)
      BY <2>3, FailedSound DEF Exhausted
    <2>4. CASE Read(a)
      BY <2>4, ReceivedSound DEF Read
    <2>5. CASE Stored(a)
      BY <2>5, StoredSound
    <2>6. CASE RegisterReplica(a)
      BY <2>6, RegisterSound
    <2>7. CASE EndFetch(a)
      BY <2>7, ForgottenSound DEF EndFetch
    <2> QED
      BY <1>2, <2>1, <2>2, <2>3, <2>4, <2>5, <2>6, <2>7 DEF FetchStep
  <1>3. ASSUME NEW a \in Agent, FaultStep(a) PROVE IInv'
    <2>1. ASSUME NEW h \in Agent, AskFails(a, h) PROVE IInv'
      BY <2>1, AskFailsSound
    <2>2. ASSUME NEW c \in Bytes, ReadGarbled(a, c) PROVE IInv'
      BY <2>2, ReceivedSound DEF ReadGarbled
    <2>3. CASE ReadFails(a)
      BY <2>3, FailedSound DEF ReadFails
    <2>4. CASE RegistrationFails(a)
      BY <2>4, FailedSound DEF RegistrationFails
    <2>5. ASSUME NEW w \in Writer, PutFails(a, w) PROVE IInv'
      <3>1. Failed(a, "disk") \/ UNCHANGED fetch
        BY <2>5 DEF PutFails
      <3> QED
        BY <3>1, FailedSound, UnchangedFetch
    <2>6. ASSUME NEW d \in Digests, Damage(a, d) PROVE IInv'
      BY <2>6, UnchangedFetch DEF Damage
    <2>7. CASE Crash(a)
      BY <2>7, ForgottenSound DEF Crash
    <2> QED
      BY <1>3, <2>1, <2>2, <2>3, <2>4, <2>5, <2>6, <2>7 DEF FaultStep
  <1>4. ASSUME NEW a \in Agent, Expire(a) \/ Restart(a) PROVE IInv'
    BY <1>4, UnchangedFetch DEF Expire, Restart
  <1>5. CASE UNCHANGED vars
    BY <1>5, UnchangedFetch DEF vars
  <1> QED
    BY <1>1, <1>2, <1>3, <1>4, <1>5 DEF Next, AgentStep

(* materialize_input returns the bytes that were asked for or an error,    *)
(* whatever is damaged, garbled, uploaded or fetched at the same time.     *)
THEOREM BytesNeverWrong == Spec => []NeverWrongBytes
  <1>1. IInv => NeverWrongBytes
    BY DEF IInv, FetchSound, NeverWrongBytes
  <1> QED
    BY <1>1, InitIInv, NextIInv, PTL DEF Spec

=============================================================================
