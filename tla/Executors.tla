------------------------------ MODULE Executors ------------------------------
(***************************************************************************)
(* What an agent computes for a task: the builtin operations, and a        *)
(* pipeline of them.  A byte is a natural below Base; those below 10 are   *)
(* the digits of a text and 10 is its end of line.  A u64 is a word of     *)
(* WordLen bytes.  The time that an operation sleeps is left out, and with *)
(* it the argument that gives the time.                                    *)
(***************************************************************************)
EXTENDS Naturals, SequencesExt

CONSTANTS
    Base,      \* the number of byte values
    WordLen    \* the number of bytes of a u64

ASSUME ExecutorsAssumption == Base \in Nat /\ Base > 10 /\ WordLen \in Nat \ {0}

NewLine == 10

Ok(bytes) == [ok |-> TRUE, bytes |-> bytes]
Fail == [ok |-> FALSE, bytes |-> <<>>]

(* The context of a task that is shard index of count, and of one that is  *)
(* not a shard.                                                            *)
Shard(index, count) == [index |-> index, count |-> count]
NoShard == Shard(0, 0)

(* to_le_bytes and from_le_bytes.                                          *)
LeBytes(n) == [i \in 1..WordLen |-> (n \div Base^(i - 1)) % Base]
FromLeBytes(word) ==
    FoldLeft(LAMBDA sum, i : sum + word[i] * Base^(i - 1), 0, [i \in 1..WordLen |-> i])

(* checked_add over the values, from 0: none is negative, so some addition *)
(* overflows if and only if the sum is too large.                          *)
CheckedSum(values) ==
    LET sum == FoldLeft(LAMBDA x, y : x + y, 0, values)
    IN  IF sum < Base^WordLen THEN Ok(LeBytes(sum)) ELSE Fail

(* The numbers in the lines of a text; an empty line counts for nothing.   *)
Records(text) ==
    LET read(lines, c) ==
          IF c = NewLine THEN Append(lines, 0)
          ELSE [lines EXCEPT ![Len(lines)] = @ * 10 + c]
    IN  FoldLeft(read, <<0>>, text)

(* execute_builtin_operation.                                              *)
ExecuteBuiltin(op, args, inputs, shard) ==
    LET first == IF inputs = <<>> THEN Fail ELSE Ok(inputs[1])
        sharded(outcome) == IF shard = NoShard THEN Fail ELSE outcome
    IN  CASE op = "identity" -> first
          [] op = "concat" -> Ok(FlattenSeq(inputs))
          [] op = "echo" -> Ok(args)
          [] op = "sleep" -> IF inputs = <<>> THEN Ok(<<0>>) ELSE first
          [] op \in {"shard-echo", "shard-sleep"} ->
                sharded(Ok(args \o <<shard.index, shard.count>>))
          [] op = "shard-sleep-input" -> sharded(first)
          [] op = "sum-records-u64" ->
                sharded(IF inputs = <<>> THEN Fail ELSE CheckedSum(Records(inputs[1])))
          [] op = "sum-u64" ->
                IF \A i \in DOMAIN inputs : Len(inputs[i]) = WordLen
                THEN CheckedSum([i \in DOMAIN inputs |-> FromLeBytes(inputs[i])])
                ELSE Fail
          [] OTHER -> Fail

(* An input of a stage: one of the task's inputs, or the previous output.  *)
External(index) == [kind |-> "External", index |-> index]
PreviousOutput == [kind |-> "PreviousOutput", index |-> 0]

(* execute_pipeline: the stages one after the other, up to the first that  *)
(* fails or has an input that is not there.                                *)
ExecutePipeline(stages, inputs, shard) ==
    LET present(i, b) == IF b = PreviousOutput THEN i > 1 ELSE b.index \in DOMAIN inputs
        bound(prev, b) == IF b = PreviousOutput THEN prev.bytes ELSE inputs[b.index]
        run(prev, i) ==
          IF prev.ok /\ \A b \in Range(stages[i].inputs) : present(i, b)
          THEN ExecuteBuiltin(stages[i].op, stages[i].args,
                 [k \in DOMAIN stages[i].inputs |-> bound(prev, stages[i].inputs[k])],
                 shard)
          ELSE Fail
        after[i \in 0..Len(stages)] == IF i = 0 THEN Ok(<<>>) ELSE run(after[i - 1], i)
    IN  IF Len(stages) < 2 THEN Fail ELSE after[Len(stages)]

=============================================================================
