---------------------------- MODULE MCComputation ----------------------------
(* Values for the constants of Computation.                                *)
EXTENDS Computation

CONSTANTS r1, r2, r3

(* Two of the three resources are close to each other.                     *)
SomeNear == {<<r1, r2>>, <<r2, r1>>}

Job(op, source, auto, offsets, shards, reduce, fanIn, chain) ==
    [op |-> op, args |-> <<7>>, source |-> source, auto |-> auto,
     byRecords |-> offsets # <<>>, offsets |-> offsets, shards |-> shards,
     reduce |-> reduce, fanIn |-> fanIn, chain |-> chain]

Template(op, names) ==
    [family |-> "builtin", op |-> op, entry |-> "run", effects |-> "Pure",
     args |-> <<8>>, inputs |-> [i \in DOMAIN names |-> <<"object", names[i]>>]]

(* Two texts with the records 7, 12, 3, 40, 9 and 80, 30, 20, of which the *)
(* second's sum is more than a word of two bytes holds, other bytes, and   *)
(* an empty object.                                                        *)
Contents ==
    [text |-> <<7, 10, 1, 2, 10, 3, 10, 4, 0, 10, 9, 10>>,
     large |-> <<8, 0, 10, 3, 0, 10, 2, 0, 10>>,
     bytes |-> <<1, 2, 3, 4, 5, 6, 7>>,
     empty |-> <<>>,
     x |-> <<6>>,
     word |-> <<5, 0>>]

Programs == {
    \* bytes, cut evenly or not, put together again
    Job("shard-sleep-input", "bytes", TRUE, <<>>, 5, "concat", 3,
        <<Template("concat", <<"x">>), Template("identity", <<>>)>>),
    \* an empty input
    Job("shard-sleep-input", "empty", TRUE, <<>>, 4, "concat", 2,
        <<Template("sleep", <<>>), Template("concat", <<"x">>)>>),
    \* records, summed with and without reductions
    Job("sum-records-u64", "text", TRUE, <<0, 2, 5, 7, 10, 12>>, 8, "sum-u64", 3,
        <<Template("sum-u64", <<"word">>), Template("concat", <<"x">>)>>),
    Job("sum-records-u64", "text", TRUE, <<0, 2, 5, 7, 10, 12>>, 3, "none", 0,
        <<Template("sum-u64", <<"word">>), Template("sum-u64", <<"word", "word">>)>>),
    \* a sum that overflows
    Job("sum-records-u64", "large", TRUE, <<0, 3, 6, 9>>, 3, "sum-u64", 2,
        <<Template("identity", <<>>)>>),
    \* a fixed number of shards, and a chain that has inputs more than once
    Job("shard-echo", "bytes", FALSE, <<>>, 4, "none", 0,
        <<Template("concat", <<"x", "word">>), Template("concat", <<"word", "x">>),
          Template("concat", <<"x", "x">>)>>),
    Job("shard-echo", "bytes", FALSE, <<>>, 6, "concat", 2,
        <<Template("sum-u64", <<>>), Template("echo", <<>>)>>),
    \* a chain with another entrypoint, and with roles that are not fused
    Job("shard-echo", "bytes", FALSE, <<>>, 2, "none", 0,
        <<Template("identity", <<"word", "x">>), Template("sum-u64", <<"word", "word">>),
          [Template("concat", <<"x">>) EXCEPT !.entry = "transform"],
          [Template("identity", <<>>) EXCEPT !.effects = "Idempotent"],
          [Template("concat", <<"x">>) EXCEPT !.family = "native"]>>)}
=============================================================================
