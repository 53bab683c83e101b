------------------------------ MODULE DataPlane ------------------------------
(***************************************************************************)
(* The data plane: each agent's LocalObjectStore, the blob server in front *)
(* of it, and materialize_input, by which a worker gets the bytes of an    *)
(* input, whole or a range of them, from its own store or a replica.       *)
(*                                                                         *)
(* One object is fetched.  A worker and a client's upload may put blobs    *)
(* into one store at the same time; between two file operations, and       *)
(* between request, body and registration of a fetch, everybody else may   *)
(* act.  Faults are counted and bounded: broken connections, garbled       *)
(* bodies, full or damaged disks, refused registrations and crashes.       *)
(***************************************************************************)
EXTENDS Naturals, Sequences

CONSTANTS
    Agent,       \* the agents, each with its store
    Content,     \* the byte sequences that are stored
    Wanted,      \* the content of the object that is fetched
    Uploads,     \* what clients upload to whom, as <<agent, content>>
    Fetcher,     \* the agents that are given the object as an input
    Ranges,      \* the byte ranges workers ask for, as <<offset, length>>
    Missing,     \* no file
    MaxFaults    \* bound: faults

ASSUME DataPlaneAssumption ==
    /\ Content \subseteq Seq(Nat)
    /\ \A c \in Content : Len(c) > 1 /\ \A i \in 1..Len(c) : c[i] # 0
    /\ Wanted \in Content
    /\ Uploads \subseteq Agent \X Content
    /\ Fetcher \subseteq Agent
    /\ Ranges \subseteq Nat \X Nat
    /\ Missing \notin Seq(Nat)
    /\ MaxFaults \in Nat

Writer == {"worker", "server"}

VARIABLES
    files,     \* the file under each digest in each store
    temps,     \* the temporary file of each put
    puts,      \* the progress of each put
    fetch,     \* the progress of each agent's materialize_input
    running,   \* the agents whose process runs
    known,     \* the object's locations that resolve to an endpoint
    faults     \* the faults so far

vars == <<files, temps, puts, fetch, running, known, faults>>
storeVars == <<files, temps, puts>>

-----------------------------------------------------------------------------
(* The store.                                                              *)

(* SHA-256, taken to be injective.                                         *)
Digest(bytes) == <<"sha256", bytes>>

(* What a write leaves behind when it is cut short.                        *)
Torn(bytes) == SubSeq(bytes, 1, Len(bytes) - 1)

Bytes == Content \cup {Torn(c) : c \in Content}

Digests == {Digest(c) : c \in Bytes}

(* What is left of a file that the disk has damaged.                       *)
Zeroed(bytes) == [i \in 1..Len(bytes) |-> 0]

Contains(a, d) == files[a][d] # Missing

(* A mutant: get does not verify what it has read.                         *)
MutantUnverified(a, d) == Contains(a, d)

(* get succeeds: there is a file and its digest is the one asked for.      *)
Verified(a, d) == Contains(a, d) /\ Digest(files[a][d]) = d

NoPut == [pc |-> "idle", bytes |-> <<>>]

(* put begins: a file of that name is trusted.                             *)
PutBegun(a, bytes) ==
    [pc |-> IF Contains(a, Digest(bytes)) THEN "stored" ELSE "write",
     bytes |-> bytes]

(* A mutant: put writes to the final path.                                 *)
MutantWriteInPlace(a, w, bytes) ==
    /\ files' = [files EXCEPT ![a][Digest(puts[a][w].bytes)] = bytes]
    /\ UNCHANGED temps

(* The bytes go to a temporary file, whose name no other put uses.         *)
Write(a, w, bytes) ==
    /\ temps' = [temps EXCEPT ![a][w] = bytes]
    /\ UNCHANGED files

PutAt(a, w, pc) == a \in running /\ puts[a][w].pc = pc

(* fs::write is not atomic: a part of the bytes, then all of them.         *)
PutWrite(a, w) ==
    /\ PutAt(a, w, "write")
    /\ Write(a, w, Torn(puts[a][w].bytes))
    /\ puts' = [puts EXCEPT ![a][w].pc = "writing"]
    /\ UNCHANGED <<fetch, running, known, faults>>

PutWritten(a, w) ==
    /\ PutAt(a, w, "writing")
    /\ Write(a, w, puts[a][w].bytes)
    /\ puts' = [puts EXCEPT ![a][w].pc = "rename"]
    /\ UNCHANGED <<fetch, running, known, faults>>

(* fs::rename replaces a file that another put has made in the meantime,   *)
(* and if it fails because the temporary file is gone, that file will do.  *)
PutRename(a, w) ==
    /\ PutAt(a, w, "rename")
    /\ files' = IF temps[a][w] = Missing THEN files
                ELSE [files EXCEPT ![a][Digest(puts[a][w].bytes)] = temps[a][w]]
    /\ temps' = [temps EXCEPT ![a][w] = Missing]
    /\ puts' = [puts EXCEPT ![a][w].pc = "stored"]
    /\ UNCHANGED <<fetch, running, known, faults>>

-----------------------------------------------------------------------------
(* The blob server.                                                        *)

Reply(status, bytes) == [status |-> status, bytes |-> bytes, digest |-> Digest(bytes)]

Slice(bytes, range) == SubSeq(bytes, range[1] + 1, range[1] + range[2])

(* A mutant: the end of the range is taken to be exclusive.                *)
MutantShortRange(bytes, range) == Slice(bytes, <<range[1], range[2] - 1>>)

(* The payload of a range request: "bytes=a-b" with both ends inclusive.   *)
RangePayload(bytes, range) == Slice(bytes, range)

WholeObject == <<0, Len(Wanted)>>

(* get_blob with parse_byte_range, for the digest of the wanted object.    *)
GetBlob(h, range) ==
    IF ~Contains(h, Digest(Wanted)) THEN Reply(404, <<>>)
    ELSE IF ~Verified(h, Digest(Wanted)) THEN Reply(500, <<>>)
    ELSE IF range = WholeObject THEN Reply(200, files[h][Digest(Wanted)])
    ELSE IF range[2] = 0 \/ range[1] + range[2] > Len(files[h][Digest(Wanted)])
         THEN Reply(416, <<>>)
    ELSE Reply(206, RangePayload(files[h][Digest(Wanted)], range))

(* put_object begins: a client uploads c.                                  *)
Upload(a, c) ==
    /\ a \in running /\ <<a, c>> \in Uploads
    /\ puts[a]["server"].pc = "idle"
    /\ puts' = [puts EXCEPT ![a]["server"] = PutBegun(a, c)]
    /\ UNCHANGED <<files, temps, fetch, running, known, faults>>

(* It ends, and the client publishes the metadata it got.                  *)
Uploaded(a) ==
    /\ PutAt(a, "server", "stored")
    /\ puts' = [puts EXCEPT ![a]["server"] = NoPut]
    /\ known' = IF puts[a]["server"].bytes = Wanted THEN known \cup {a} ELSE known
    /\ UNCHANGED <<files, temps, fetch, running, faults>>

-----------------------------------------------------------------------------
(* materialize_input.                                                      *)

NoFetch == [pc |-> "idle", range |-> <<0, 0>>, left |-> {}, asked |-> 0,
            reply |-> Reply(0, <<>>), bytes |-> <<>>, why |-> "none"]

At(a, pc) == a \in running /\ fetch[a].pc = pc

Ended(a, pc, bytes) == fetch' = [fetch EXCEPT ![a].pc = pc, ![a].bytes = bytes]

Failed(a, why) == fetch' = [fetch EXCEPT ![a].pc = "failed", ![a].why = why]

(* The checks before a replica is asked: the bounds of the range, an empty *)
(* range, the agent's own store.  The replicas are those of the work       *)
(* assignment, in any order.                                               *)
BeginFetch(a, range) ==
    /\ At(a, "idle") /\ a \in Fetcher
    /\ known # {}
    /\ LET local == Contains(a, Digest(Wanted))
       IN  fetch' = [fetch EXCEPT ![a] =
             IF range[1] + range[2] > Len(Wanted)
             THEN [NoFetch EXCEPT !.pc = "failed", !.why = "range"]
             ELSE IF range[2] = 0
             THEN [NoFetch EXCEPT !.pc = "done", !.range = range]
             ELSE IF local /\ Verified(a, Digest(Wanted))
             THEN [NoFetch EXCEPT !.pc = "done", !.range = range,
                                  !.bytes = Slice(files[a][Digest(Wanted)], range)]
             ELSE IF local
             THEN [NoFetch EXCEPT !.pc = "failed", !.why = "local"]
             ELSE [NoFetch EXCEPT !.pc = "asking", !.range = range, !.left = known]]
    /\ UNCHANGED <<storeVars, running, known, faults>>

Fault == faults < MaxFaults /\ faults' = faults + 1

(* The next replica is asked; one that does not answer, or not with 200 or *)
(* 206, is passed over.                                                    *)
Ask(a, h) ==
    /\ At(a, "asking") /\ h \in fetch[a].left
    /\ LET whole == fetch[a].range = WholeObject
           reply == GetBlob(h, fetch[a].range)
           ok == h \in running /\ reply.status = IF whole THEN 200 ELSE 206
       IN  fetch' = [fetch EXCEPT ![a].left = @ \ {h}, ![a].asked = @ + 1,
                                  ![a].pc = IF ok THEN "reading" ELSE "asking",
                                  ![a].reply = IF ok THEN reply ELSE @]
    /\ UNCHANGED <<storeVars, running, known, faults>>

(* The connection to the replica fails before there is an answer.          *)
AskFails(a, h) ==
    /\ At(a, "asking") /\ h \in fetch[a].left
    /\ Fault
    /\ fetch' = [fetch EXCEPT ![a].left = @ \ {h}, ![a].asked = @ + 1]
    /\ UNCHANGED <<storeVars, running, known>>

Exhausted(a) ==
    /\ At(a, "asking") /\ fetch[a].left = {}
    /\ Failed(a, "exhausted")
    /\ UNCHANGED <<storeVars, running, known, faults>>

(* The checks of a range: its length, and the digest in the reply.         *)
RangeIntact(a, bytes) ==
    /\ Len(bytes) = fetch[a].range[2]
    /\ Digest(bytes) = fetch[a].reply.digest

(* The body has arrived.  A range that does not check is dropped and the   *)
(* next replica asked; a whole object is put into the store.               *)
Received(a, bytes) ==
    IF fetch[a].range = WholeObject
    THEN /\ puts' = [puts EXCEPT ![a]["worker"] = PutBegun(a, bytes)]
         /\ fetch' = [fetch EXCEPT ![a].pc = "putting"]
    ELSE /\ IF RangeIntact(a, bytes) THEN Ended(a, "done", bytes)
            ELSE fetch' = [fetch EXCEPT ![a].pc = "asking"]
         /\ UNCHANGED puts

Read(a) ==
    /\ At(a, "reading")
    /\ Received(a, fetch[a].reply.bytes)
    /\ UNCHANGED <<files, temps, running, known, faults>>

(* Other bytes of the same length, or fewer, arrive.                       *)
ReadGarbled(a, bytes) ==
    /\ At(a, "reading")
    /\ Fault
    /\ Len(bytes) <= Len(fetch[a].reply.bytes)
    /\ Received(a, bytes)
    /\ UNCHANGED <<files, temps, running, known>>

(* An error while the body is read ends the fetch, whoever else is left.   *)
ReadFails(a) ==
    /\ At(a, "reading")
    /\ Fault
    /\ Failed(a, "body")
    /\ UNCHANGED <<storeVars, running, known>>

(* A mutant: the digest of what was stored is not compared.                *)
MutantAnyDigest(bytes) == TRUE

DigestMatches(bytes) == Digest(bytes) = Digest(Wanted)

(* The bytes are in the store, under their own digest.                     *)
Stored(a) ==
    /\ At(a, "putting") /\ PutAt(a, "worker", "stored")
    /\ LET bytes == puts[a]["worker"].bytes
       IN  fetch' = [fetch EXCEPT ![a].pc = IF DigestMatches(bytes) THEN "registering"
                                            ELSE "asking",
                                  ![a].bytes = bytes]
    /\ puts' = [puts EXCEPT ![a]["worker"] = NoPut]
    /\ UNCHANGED <<files, temps, running, known, faults>>

RegisterReplica(a) ==
    /\ At(a, "registering")
    /\ known' = known \cup {a}
    /\ Ended(a, "done", fetch[a].bytes)
    /\ UNCHANGED <<storeVars, running, faults>>

(* The coordinator refuses it, or does not answer after all.               *)
RegistrationFails(a) ==
    /\ At(a, "registering")
    /\ Fault
    /\ known' \in {known, known \cup {a}}
    /\ Failed(a, "registration")
    /\ UNCHANGED <<storeVars, running>>

(* The task is over.                                                       *)
EndFetch(a) ==
    /\ fetch[a].pc \in {"done", "failed"}
    /\ fetch' = [fetch EXCEPT ![a] = NoFetch]
    /\ UNCHANGED <<storeVars, running, known, faults>>

-----------------------------------------------------------------------------
(* Disks and processes.                                                    *)

(* A put meets an error of the file system and returns it.                 *)
PutFails(a, w) ==
    /\ a \in running /\ puts[a][w].pc \in {"write", "writing", "rename"}
    /\ Fault
    /\ puts' = [puts EXCEPT ![a][w] = NoPut]
    /\ IF w = "worker" THEN Failed(a, "disk") ELSE UNCHANGED fetch
    /\ UNCHANGED <<files, temps, running, known>>

(* A file is damaged: put does not sync, and disks fail.                   *)
Damage(a, d) ==
    /\ Contains(a, d)
    /\ Fault
    /\ files' = [files EXCEPT ![a][d] = Zeroed(@)]
    /\ UNCHANGED <<temps, puts, fetch, running, known>>

(* The process ends at any point; its files stay.                          *)
Crash(a) ==
    /\ a \in running
    /\ Fault
    /\ running' = running \ {a}
    /\ puts' = [puts EXCEPT ![a] = [w \in Writer |-> NoPut]]
    /\ fetch' = [fetch EXCEPT ![a] = NoFetch]
    /\ UNCHANGED <<files, temps, known>>

(* A membership runs out, and the locations go with it; a live agent loses *)
(* its own only when heartbeats are lost, and joins again at once.         *)
Expire(a) ==
    /\ a \in known
    /\ IF a \in running THEN Fault ELSE UNCHANGED faults
    /\ known' = known \ {a}
    /\ UNCHANGED <<storeVars, fetch, running>>

(* A new process on the same directory; it announces nothing it holds.     *)
Restart(a) ==
    /\ a \notin running
    /\ running' = running \cup {a}
    /\ UNCHANGED <<storeVars, fetch, known, faults>>

Init ==
    /\ files = [a \in Agent |-> [d \in Digests |-> Missing]]
    /\ temps = [a \in Agent |-> [w \in Writer |-> Missing]]
    /\ puts = [a \in Agent |-> [w \in Writer |-> NoPut]]
    /\ fetch = [a \in Agent |-> NoFetch]
    /\ running = Agent
    /\ known = {}
    /\ faults = 0

StoreStep(a) ==
    \/ \E w \in Writer : PutWrite(a, w) \/ PutWritten(a, w) \/ PutRename(a, w)
    \/ \E c \in Content : Upload(a, c)
    \/ Uploaded(a)

FetchStep(a) ==
    \/ \E range \in Ranges : BeginFetch(a, range)
    \/ \E h \in Agent : Ask(a, h)
    \/ Exhausted(a) \/ Read(a) \/ Stored(a) \/ RegisterReplica(a) \/ EndFetch(a)

FaultStep(a) ==
    \/ \E h \in Agent : AskFails(a, h)
    \/ \E c \in Bytes : ReadGarbled(a, c)
    \/ ReadFails(a) \/ RegistrationFails(a)
    \/ \E w \in Writer : PutFails(a, w)
    \/ \E d \in Digests : Damage(a, d)
    \/ Crash(a)

AgentStep(a) == \/ StoreStep(a) \/ FetchStep(a) \/ FaultStep(a)
                \/ Expire(a) \/ Restart(a)

Next == \E a \in Agent : AgentStep(a)

Spec == Init /\ [][Next]_vars

-----------------------------------------------------------------------------
(* Properties.                                                             *)

(* materialize_input returns the bytes that were asked for or an error,    *)
(* never other bytes, whatever is damaged, garbled or uploaded.            *)
NeverWrongBytes ==
    \A a \in Agent : fetch[a].pc = "done" =>
        fetch[a].bytes = Slice(Wanted, fetch[a].range)

(* Without damage to a disk, each file has the digest it is named after at *)
(* every moment, also when two puts of the same bytes race or a process    *)
(* ends in the middle of one: put renames a complete file into place.      *)
FilesAreWhole ==
    \A a \in Agent : \A d \in Digests :
        files[a][d] \in {Missing, d[2], Zeroed(d[2])}

(* A location is recorded only for an agent that has the whole object in   *)
(* its store: a fetched range never makes a replica.                       *)
LocationsHoldObject == \A a \in known : Contains(a, Digest(Wanted))

(* A fetch falls over: it gives up for want of a replica only when it has  *)
(* met at least one fault for each replica it was given.                   *)
FallsOver ==
    \A a \in Agent : fetch[a].why = "exhausted" => faults >= fetch[a].asked

(* Without a fault no fetch within the object's bounds fails, however the  *)
(* uploads, puts and registrations of others are interleaved with it.      *)
NoFaultNoFailure ==
    faults = 0 => \A a \in Agent : fetch[a].pc = "failed" => fetch[a].why = "range"

=============================================================================
