------------------------------ MODULE Partition ------------------------------
(***************************************************************************)
(* How the planner cuts the input of an automatically sharded role: by     *)
(* bytes, or by records whose offsets the job declares; what a shard's     *)
(* cut says of its output, and which cuts validate_task admits.            *)
(*                                                                         *)
(* Sizes and counts are naturals: partition_bounds and scaled_output_bytes *)
(* compute in 128 bits what fits there, whatever 64-bit sizes they get.    *)
(***************************************************************************)
EXTENDS Naturals, Sequences

(* The first unit and the number of units of part index of count.          *)
PartitionBounds(total, index, count) ==
    LET start == (total * index) \div count
        end == (total * (index + 1)) \div count
    IN  <<start, end - start>>

ValidRecordOffsets(offsets, size) ==
    /\ Len(offsets) >= 2
    /\ offsets[1] = 0
    /\ offsets[Len(offsets)] = size
    /\ \A i \in 1..(Len(offsets) - 1) : offsets[i] < offsets[i + 1]

(* What is divided: the bytes of the input or, if the policy gives record  *)
(* offsets, its records.                                                   *)
PartitionUnits(byRecords, offsets, size) ==
    IF byRecords THEN Len(offsets) - 1 ELSE size

(* The bound on the number of shards.                                      *)
MaxCount(maxShards, units) ==
    IF units = 0 THEN 1 ELSE IF units < maxShards THEN units ELSE maxShards

(* The cut of one shard: the units it takes of how many, and its bytes.    *)
Cut(start, count, total, offset, length) ==
    [start |-> start, count |-> count, total |-> total,
     offset |-> offset, length |-> length]

(* A mutant: the end of the units in the place of their number.            *)
MutantEndAsCount(byRecords, offsets, size, index, count) ==
    LET units == PartitionUnits(byRecords, offsets, size)
        bounds == PartitionBounds(units, index, count)
        first == bounds[1]
        last == bounds[1] + bounds[2]
    IN  IF byRecords
        THEN Cut(first, last, units, offsets[first + 1],
                 offsets[last + 1] - offsets[first + 1])
        ELSE Cut(first, last, units, first, bounds[2])

ConcretePartition(byRecords, offsets, size, index, count) ==
    LET units == PartitionUnits(byRecords, offsets, size)
        bounds == PartitionBounds(units, index, count)
        first == bounds[1]
        last == bounds[1] + bounds[2]
    IN  IF byRecords
        THEN Cut(first, bounds[2], units, offsets[first + 1],
                 offsets[last + 1] - offsets[first + 1])
        ELSE Cut(first, bounds[2], units, first, bounds[2])

(* The share of a declared output size that is expected of the shard.      *)
ScaledOutputBytes(cut, outputBytes) ==
    IF cut.total = 0 THEN outputBytes
    ELSE (outputBytes * (cut.start + cut.count)) \div cut.total
         - (outputBytes * cut.start) \div cut.total

(* validate_task: the cut lies within the input.                           *)
ValidCut(cut, size) ==
    /\ cut.start + cut.count <= cut.total
    /\ cut.offset + cut.length <= size
=============================================================================
