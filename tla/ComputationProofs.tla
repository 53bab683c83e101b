-------------------------- MODULE ComputationProofs --------------------------
(***************************************************************************)
(* The parts into which the planner divides an input cover it exactly, for *)
(* every size and every number of shards; validate_task admits every task  *)
(* that the planner makes of a job; the groups of a reduction level keep   *)
(* the order; a fused task computes what its roles compute one after the   *)
(* other; and so a job that completes has the result that is written.      *)
(***************************************************************************)
EXTENDS Computation, TLAPS, FiniteSetTheorems, SequenceTheorems,
        NaturalsInduction, WellFoundedInduction

-----------------------------------------------------------------------------
(* Induction and recursion.                                                *)

(* A nonempty set of numbers has a smallest one.                           *)
LEMMA LeastNumber ==
    ASSUME NEW T \in SUBSET Nat, T # {}
    PROVE  \E x \in T : \A y \in T : x <= y
  <1> DEFINE R == OpToRel(<, Nat)
  <1>1. IsWellFoundedOn(R, Nat)
    BY NatLessThanWellFounded
  <1>2. \A x, y \in Nat : y < x => <<y, x>> \in R
    BY DEF OpToRel
  <1> HIDE DEF R
  <1>3. PICK x \in T : \A y \in T : ~(<<y, x>> \in R)
    BY <1>1, WFMin
  <1>4. ASSUME NEW y \in T PROVE x <= y
    <2>1. x \in Nat /\ y \in Nat
      OBVIOUS
    <2>2. ~(y < x)
      BY <1>2, <1>3, <2>1
    <2> QED
      BY <2>1, <2>2
  <1> QED
    BY <1>4

(* A set of numbers that has 0 and with each number the next.              *)
LEMMA Induction ==
    ASSUME NEW N \in Nat, NEW P, 0 \in P, \A n \in 1..N : n - 1 \in P => n \in P
    PROVE  \A n \in 0..N : n \in P
  <1> DEFINE T == {n \in 0..N : n \notin P}
  <1>1. SUFFICES ASSUME T # {} PROVE FALSE
    OBVIOUS
  <1>2. T \in SUBSET Nat
    OBVIOUS
  <1>3. PICK n \in T : \A k \in T : n <= k
    BY <1>1, <1>2, LeastNumber
  <1>4. n \in 1..N /\ n - 1 \in 0..N /\ n - 1 \notin T
    BY <1>3
  <1> QED
    BY <1>4

(* The values of a recursion that takes step[n] from one to the next.      *)
Recurs(f, N, base, step) ==
    /\ DOMAIN f = 0..N
    /\ f[0] = base
    /\ \A n \in 1..N : f[n] = step[n][f[n - 1]]

(* There are such values.                                                  *)
LEMMA Recursion ==
    ASSUME NEW N \in Nat, NEW V, NEW base \in V, NEW step \in [1..N -> [V -> V]]
    PROVE  \E f \in [0..N -> V] : Recurs(f, N, base, step)
  <1> DEFINE P == {n \in 0..N : \E f \in [0..n -> V] : Recurs(f, n, base, step)}
  <1>1. 0 \in P
    <2> DEFINE f == [k \in 0..0 |-> base]
    <2>1. f \in [0..0 -> V] /\ f[0] = base /\ DOMAIN f = 0..0
      OBVIOUS
    <2>2. \A n \in 1..0 : FALSE
      OBVIOUS
    <2> HIDE DEF f
    <2>3. Recurs(f, 0, base, step)
      BY <2>1, <2>2 DEF Recurs
    <2> QED
      BY <2>1, <2>3
  <1>2. ASSUME NEW n \in 1..N, n - 1 \in P PROVE n \in P
    <2> DEFINE m == n - 1
    <2>0. m \in 0..N /\ n = m + 1 /\ m \in Nat /\ m \in P
      BY <1>2
    <2> HIDE DEF m
    <2>1. PICK f \in [0..m -> V] : Recurs(f, m, base, step)
      BY <2>0
    <2> DEFINE g == [k \in 0..n |-> IF k = n THEN step[n][f[m]] ELSE f[k]]
    <2>2. /\ DOMAIN f = 0..m /\ f[0] = base
          /\ \A k \in 1..m : f[k] = step[k][f[k - 1]]
      BY <2>1 DEF Recurs
    <2>3. step[n] \in [V -> V] /\ m \in 0..m
      BY <2>0
    <2>4. step[n][f[m]] \in V
      BY <2>3
    <2>5. \A k \in 0..n : k # n => k \in 0..m
      BY <2>0
    <2>6. g \in [0..n -> V] /\ DOMAIN g = 0..n /\ g[n] = step[n][f[m]]
      BY <2>4, <2>5
    <2>7. \A k \in 0..m : k \in 0..n /\ k # n
      BY <2>0
    <2>8. \A k \in 0..m : g[k] = f[k]
      BY <2>7
    <2> HIDE DEF g
    <2>9. g[0] = base
      BY <2>0, <2>2, <2>8
    <2>10. ASSUME NEW k \in 1..n PROVE g[k] = step[k][g[k - 1]]
      <3>1. CASE k = n
        BY <2>0, <2>3, <2>6, <2>8, <3>1
      <3>2. CASE k # n
        <4>1. k \in 1..m /\ k \in 0..m /\ k - 1 \in 0..m
          BY <2>0, <3>2
        <4> QED
          BY <2>2, <2>8, <4>1
      <3> QED
        BY <3>1, <3>2
    <2>11. Recurs(g, n, base, step)
      BY <2>6, <2>9, <2>10 DEF Recurs
    <2>12. n \in 0..N
      OBVIOUS
    <2> QED
      BY <2>6, <2>11, <2>12
  <1> HIDE DEF P
  <1>3. \A n \in 1..N : n - 1 \in P => n \in P
    BY <1>2
  <1>4. \A n \in 0..N : n \in P
    BY <1>1, <1>3, Induction
  <1>5. N \in P
    BY <1>4
  <1> QED
    BY <1>5 DEF P

-----------------------------------------------------------------------------
(* Division.                                                               *)

(* The quotient, and what is left.                                         *)
LEMMA DivFacts ==
    ASSUME NEW a \in Nat, NEW c \in Nat \ {0}
    PROVE  /\ a \div c \in Nat
           /\ c * (a \div c) <= a
           /\ a < c * (a \div c) + c
  BY SMT

(* The quotient is the largest number whose multiple fits.                 *)
LEMMA DivAtLeast ==
    ASSUME NEW a \in Nat, NEW c \in Nat \ {0}, NEW k \in Nat, c * k <= a
    PROVE  k <= a \div c
  <1> DEFINE q == a \div c
  <1>1. q \in Nat /\ a < c * q + c
    BY DivFacts
  <1>2. SUFFICES ASSUME q < k PROVE FALSE
    BY <1>1
  <1>3. q + 1 <= k
    BY <1>1, <1>2
  <1>4. c * (q + 1) <= c * k
    BY <1>1, <1>3
  <1> QED
    BY <1>1, <1>4

LEMMA DivMonotone ==
    ASSUME NEW a \in Nat, NEW b \in Nat, NEW c \in Nat \ {0}, a <= b
    PROVE  a \div c <= b \div c
  BY DivFacts, DivAtLeast

LEMMA DivZero ==
    ASSUME NEW c \in Nat \ {0}
    PROVE  0 \div c = 0
  BY DivFacts, SMT

LEMMA DivMultiple ==
    ASSUME NEW a \in Nat, NEW c \in Nat \ {0}
    PROVE  (a * c) \div c = a
  <1> DEFINE q == (a * c) \div c
  <1>1. a * c \in Nat
    OBVIOUS
  <1>2. q \in Nat /\ c * q <= a * c
    BY <1>1, DivFacts
  <1>3. a <= q
    BY <1>1, DivAtLeast
  <1>4. SUFFICES ASSUME a < q PROVE FALSE
    BY <1>2, <1>3
  <1>5. c * (a + 1) <= c * q
    BY <1>2, <1>4
  <1> QED
    BY <1>2, <1>5

-----------------------------------------------------------------------------
(* partition_bounds.                                                       *)

(* Where part index of count begins, which is also where the one before    *)
(* it ends.                                                                *)
Boundary(total, index, count) == (total * index) \div count

LEMMA BoundsAreBoundaries ==
    ASSUME NEW total \in Nat, NEW count \in Nat \ {0}, NEW index \in Nat
    PROVE  /\ PartitionBounds(total, index, count)[1] = Boundary(total, index, count)
           /\ PartitionBounds(total, index, count)[2] =
                Boundary(total, index + 1, count) - Boundary(total, index, count)
  BY DEF PartitionBounds, Boundary

LEMMA BoundaryRange ==
    ASSUME NEW total \in Nat, NEW count \in Nat \ {0}
    PROVE  /\ Boundary(total, 0, count) = 0
           /\ Boundary(total, count, count) = total
           /\ \A i \in 0..count : Boundary(total, i, count) \in 0..total
           /\ \A i \in Nat : /\ Boundary(total, i, count) \in Nat
                             /\ Boundary(total, i, count) <= Boundary(total, i + 1, count)
  <1>1. Boundary(total, 0, count) = 0
    BY DivZero DEF Boundary
  <1>2. Boundary(total, count, count) = total
    BY DivMultiple DEF Boundary
  <1>3. ASSUME NEW i \in Nat
        PROVE  /\ Boundary(total, i, count) \in Nat
               /\ Boundary(total, i, count) <= Boundary(total, i + 1, count)
    <2>1. total * i \in Nat /\ total * (i + 1) \in Nat /\ total * i <= total * (i + 1)
      OBVIOUS
    <2> QED
      BY <2>1, DivFacts, DivMonotone DEF Boundary
  <1>4. ASSUME NEW i \in 0..count
        PROVE  Boundary(total, i, count) \in 0..total
    <2>1. total * i \in Nat /\ total * count \in Nat /\ total * i <= total * count
      OBVIOUS
    <2>2. Boundary(total, i, count) <= Boundary(total, count, count)
      BY <2>1, DivMonotone DEF Boundary
    <2> QED
      BY <1>2, <1>3, <2>2
  <1> QED
    BY <1>1, <1>2, <1>3, <1>4

(* The parts that partition_bounds makes tile what is divided: the first   *)
(* begins at 0, each begins where the one before it ends, and the last     *)
(* ends at the total; none has a negative length, which would wrap around. *)
THEOREM PartsTile ==
    ASSUME NEW total \in Nat, NEW count \in Nat \ {0}
    PROVE  LET Start(i) == PartitionBounds(total, i, count)[1]
               Length(i) == PartitionBounds(total, i, count)[2]
           IN  /\ Start(0) = 0
               /\ \A i \in 0..(count - 1) : Length(i) \in Nat
               /\ \A i \in 0..(count - 1) : Start(i) + Length(i) = Start(i + 1)
               /\ Start(count - 1) + Length(count - 1) = total
  <1> DEFINE B(i) == Boundary(total, i, count)
             Start(i) == PartitionBounds(total, i, count)[1]
             Length(i) == PartitionBounds(total, i, count)[2]
  <1>1. ASSUME NEW i \in Nat
        PROVE  B(i) \in Nat /\ B(i + 1) \in Nat /\ B(i) <= B(i + 1)
    BY BoundaryRange, i + 1 \in Nat
  <1>2. ASSUME NEW i \in Nat
        PROVE  Start(i) = B(i) /\ Length(i) = B(i + 1) - B(i)
    BY BoundsAreBoundaries
  <1>3. Start(0) = 0
    BY <1>2, BoundaryRange
  <1>4. ASSUME NEW i \in Nat
        PROVE  Length(i) \in Nat /\ Start(i) + Length(i) = B(i + 1) /\ Start(i + 1) = B(i + 1)
    <2> HIDE DEF B, Start, Length
    <2> QED
      BY <1>1, <1>2, i + 1 \in Nat
  <1>5. Start(count - 1) + Length(count - 1) = total
    <2>1. count - 1 \in Nat /\ (count - 1) + 1 = count
      OBVIOUS
    <2>2. B(count) = total
      BY BoundaryRange
    <2> HIDE DEF B, Start, Length
    <2> QED
      BY <1>4, <2>1, <2>2
  <1> HIDE DEF B, Start, Length
  <1>6. \A i \in 0..(count - 1) : Length(i) \in Nat /\ Start(i) + Length(i) = Start(i + 1)
    BY <1>4
  <1> QED
    BY <1>3, <1>5, <1>6 DEF Start, Length

(* No part is empty if there are no more parts than units, which           *)
(* choose_auto_shards ensures by its bound on the number of shards.        *)
THEOREM EveryPartHasUnits ==
    ASSUME NEW units \in Nat \ {0}, NEW maxShards \in Nat \ {0},
           NEW count \in 1..MaxCount(maxShards, units), NEW i \in 0..(count - 1)
    PROVE  PartitionBounds(units, i, count)[2] >= 1
  <1> DEFINE q == Boundary(units, i, count)
  <1>1. count \in Nat \ {0} /\ count <= units
    BY DEF MaxCount
  <1>2. q \in Nat /\ count * q <= units * i
    BY <1>1, DivFacts DEF Boundary
  <1>3. units * (i + 1) \in Nat /\ count * (q + 1) <= units * (i + 1)
    <2>1. count * (q + 1) = count * q + count
      BY <1>1, <1>2
    <2>2. units * (i + 1) = units * i + units /\ units * i \in Nat
      BY <1>1
    <2>3. count * q \in Nat
      BY <1>1, <1>2
    <2> QED
      BY <1>1, <1>2, <2>1, <2>2, <2>3
  <1>4. q + 1 <= Boundary(units, i + 1, count)
    BY <1>1, <1>2, <1>3, DivAtLeast DEF Boundary
  <1>5. i \in Nat /\ i + 1 \in Nat
    BY <1>1
  <1>6. Boundary(units, i + 1, count) \in Nat
    BY <1>1, <1>5, BoundaryRange
  <1>7. PartitionBounds(units, i, count)[2] = Boundary(units, i + 1, count) - q
    BY <1>1, <1>5, BoundsAreBoundaries
  <1> HIDE DEF q
  <1> QED
    BY <1>2, <1>4, <1>6, <1>7

-----------------------------------------------------------------------------
(* concrete_partition, scaled_output_bytes and validate_task.              *)

LEMMA BoundsInside ==
    ASSUME NEW total \in Nat, NEW count \in Nat \ {0}, NEW i \in 0..(count - 1)
    PROVE  LET b == PartitionBounds(total, i, count)
           IN  /\ b[1] \in Nat /\ b[2] \in Nat
               /\ b[1] = Boundary(total, i, count)
               /\ b[1] + b[2] = Boundary(total, i + 1, count)
               /\ b[1] + b[2] \in 0..total
  <1> DEFINE B(k) == Boundary(total, k, count)
             b == PartitionBounds(total, i, count)
  <1>1. i \in Nat /\ i + 1 \in 0..count
    OBVIOUS
  <1>2. B(i) \in Nat /\ B(i + 1) \in 0..total /\ B(i) <= B(i + 1)
    BY <1>1, BoundaryRange
  <1>3. b[1] = B(i) /\ b[2] = B(i + 1) - B(i)
    BY <1>1, BoundsAreBoundaries
  <1>4. B(i) = Boundary(total, i, count) /\ B(i + 1) = Boundary(total, i + 1, count)
    OBVIOUS
  <1> HIDE DEF B, b
  <1>5. b[1] \in Nat /\ b[2] \in Nat /\ b[1] + b[2] = B(i + 1)
    BY <1>2, <1>3
  <1> QED
    BY <1>2, <1>3, <1>4, <1>5 DEF b

(* validate_task admits the cut by bytes of every shard, so submitting the *)
(* tasks of a role that is sharded by bytes never fails for their ranges.  *)
THEOREM ByteCutAdmitted ==
    ASSUME NEW offsets, NEW size \in Nat, NEW count \in Nat \ {0},
           NEW i \in 0..(count - 1)
    PROVE  ValidCut(ConcretePartition(FALSE, offsets, size, i, count), size)
  <1> DEFINE b == PartitionBounds(size, i, count)
  <1>1. b[1] \in Nat /\ b[2] \in Nat /\ b[1] + b[2] <= size
    BY BoundsInside
  <1>2. ConcretePartition(FALSE, offsets, size, i, count)
          = Cut(b[1], b[2], size, b[1], b[2])
    BY DEF ConcretePartition, PartitionUnits
  <1>3. SUFFICES ASSUME NEW x \in Nat, NEW y \in Nat, x + y <= size
                 PROVE  ValidCut(Cut(x, y, size, x, y), size)
    BY <1>1, <1>2
  <1> QED
    BY <1>3 DEF ValidCut, Cut

(* The cuts by records tile the bytes of the input: the first begins at 0, *)
(* each begins where the one before it ends, the last ends at the size.    *)
THEOREM RecordCutsTile ==
    ASSUME NEW size \in Nat, NEW offsets \in Seq(Nat),
           ValidRecordOffsets(offsets, size), NEW count \in Nat \ {0}
    PROVE  LET C(i) == ConcretePartition(TRUE, offsets, size, i, count)
           IN  /\ C(0).offset = 0
               /\ \A i \in 0..(count - 2) : C(i).offset + C(i).length = C(i + 1).offset
               /\ C(count - 1).offset + C(count - 1).length = size
  <1> DEFINE units == Len(offsets) - 1
             B(i) == Boundary(units, i, count)
             C(i) == ConcretePartition(TRUE, offsets, size, i, count)
  <1>1. units \in Nat /\ offsets[1] = 0 /\ offsets[units + 1] = size
    BY DEF ValidRecordOffsets
  <1>2. B(0) = 0 /\ B(count) = units
    BY <1>1, BoundaryRange
  <1>3. ASSUME NEW i \in 0..(count - 1)
        PROVE  /\ C(i).offset = offsets[B(i) + 1]
               /\ C(i).offset + C(i).length = offsets[B(i + 1) + 1]
    <2> DEFINE b == PartitionBounds(units, i, count)
    <2>1. b[1] = B(i) /\ b[1] + b[2] = B(i + 1) /\ b[1] \in Nat /\ b[2] \in Nat
          /\ b[1] + b[2] \in 0..units
      BY <1>1, BoundsInside
    <2>2. C(i) = Cut(b[1], b[2], units, offsets[b[1] + 1],
                     offsets[b[1] + b[2] + 1] - offsets[b[1] + 1])
      BY DEF ConcretePartition, PartitionUnits
    <2>3. SUFFICES ASSUME NEW x \in 0..units, NEW y \in 0..units,
                          x = B(i), y = B(i + 1),
                          C(i) = Cut(x, y - x, units, offsets[x + 1],
                                     offsets[y + 1] - offsets[x + 1])
                   PROVE  /\ C(i).offset = offsets[x + 1]
                          /\ C(i).offset + C(i).length = offsets[y + 1]
      <3>1. b[1] \in 0..units /\ (b[1] + b[2]) - b[1] = b[2]
        BY <1>1, <2>1
      <3> HIDE DEF b, B, C
      <3> QED
        BY <2>1, <2>2, <3>1
    <2> HIDE DEF C, B
    <2>4. offsets[x + 1] \in Nat /\ offsets[y + 1] \in Nat
      <3>1. x + 1 \in 1..Len(offsets) /\ y + 1 \in 1..Len(offsets)
        BY <1>1
      <3> QED
        BY <3>1
    <2>5. C(i).offset = offsets[x + 1]
          /\ C(i).length = offsets[y + 1] - offsets[x + 1]
      BY <2>3 DEF Cut
    <2> QED
      BY <2>4, <2>5
  <1> HIDE DEF units, B, C
  <1>4. C(0).offset = 0
    BY <1>1, <1>2, <1>3
  <1>5. \A i \in 0..(count - 2) : C(i).offset + C(i).length = C(i + 1).offset
    BY <1>3
  <1>6. C(count - 1).offset + C(count - 1).length = size
    <2>1. count - 1 \in 0..(count - 1) /\ (count - 1) + 1 = count
      OBVIOUS
    <2> QED
      BY <1>1, <1>2, <1>3, <2>1
  <1> QED
    BY <1>4, <1>5, <1>6 DEF C

(* Record offsets that valid_record_offsets admits increase, not only from *)
(* one to the next, which is all it compares.                              *)
LEMMA OffsetsIncrease ==
    ASSUME NEW size \in Nat, NEW offsets \in Seq(Nat), ValidRecordOffsets(offsets, size),
           NEW a \in 1..Len(offsets), NEW c \in 1..Len(offsets), a <= c
    PROVE  offsets[a] <= offsets[c]
  <1> DEFINE T == {i \in 1..Len(offsets) : a <= i /\ ~(offsets[a] <= offsets[i])}
  <1>1. SUFFICES ASSUME T # {} PROVE FALSE
    OBVIOUS
  <1>2. T \in SUBSET Nat
    OBVIOUS
  <1>3. PICK i \in T : \A j \in T : i <= j
    BY <1>1, <1>2, LeastNumber
  <1>4. i \in 1..Len(offsets) /\ a <= i /\ ~(offsets[a] <= offsets[i])
    OBVIOUS
  <1>5. offsets[a] \in Nat /\ offsets[i] \in Nat
    BY <1>4
  <1>6. i # a
    BY <1>4, <1>5
  <1>7. i - 1 \in 1..Len(offsets) /\ i - 1 \in 1..(Len(offsets) - 1) /\ a <= i - 1
        /\ (i - 1) + 1 = i /\ i - 1 \notin T
    BY <1>3, <1>4, <1>6
  <1>8. offsets[a] <= offsets[i - 1]
    BY <1>7
  <1>9. offsets[i - 1] < offsets[i] /\ offsets[i - 1] \in Nat
    <2>1. \A k \in 1..(Len(offsets) - 1) : offsets[k] < offsets[k + 1]
      BY DEF ValidRecordOffsets
    <2>2. offsets[i - 1] < offsets[(i - 1) + 1]
      BY <1>7, <2>1
    <2> QED
      BY <1>7, <2>2
  <1> QED
    BY <1>4, <1>5, <1>8, <1>9

(* validate_task admits the cut by records of every shard: it begins and   *)
(* ends at record boundaries inside the input, and its length is no        *)
(* negative number, which the subtraction of the offsets would wrap.       *)
THEOREM RecordCutAdmitted ==
    ASSUME NEW size \in Nat, NEW offsets \in Seq(Nat),
           ValidRecordOffsets(offsets, size), NEW count \in Nat \ {0},
           NEW i \in 0..(count - 1)
    PROVE  /\ ConcretePartition(TRUE, offsets, size, i, count).length \in Nat
           /\ ValidCut(ConcretePartition(TRUE, offsets, size, i, count), size)
  <1> DEFINE units == Len(offsets) - 1
             b == PartitionBounds(units, i, count)
             C == ConcretePartition(TRUE, offsets, size, i, count)
             x == b[1]
             y == b[1] + b[2]
             start == offsets[x + 1]
             end == offsets[y + 1]
  <1>1. units \in Nat /\ Len(offsets) = units + 1 /\ offsets[Len(offsets)] = size
    BY DEF ValidRecordOffsets
  <1>2. x \in Nat /\ b[2] \in Nat /\ y \in 0..units
    BY <1>1, BoundsInside
  <1>3. C = Cut(x, b[2], units, start, end - start)
    BY DEF ConcretePartition, PartitionUnits
  <1> DEFINE n == b[2]
  <1>4. y = x + n
    OBVIOUS
  <1> HIDE DEF units, b, C, n, x, y
  <1>5. x + 1 \in 1..Len(offsets) /\ y + 1 \in 1..Len(offsets)
        /\ Len(offsets) \in 1..Len(offsets) /\ x + 1 <= y + 1 /\ y + 1 <= Len(offsets)
    <2>1. x \in Nat /\ n \in Nat /\ y \in 0..units /\ y = x + n
      BY <1>2, <1>4 DEF n
    <2> QED
      BY <1>1, <2>1
  <1>6. start <= end /\ end <= size
    <2>1. start <= end
      BY <1>5, OffsetsIncrease
    <2>2. end <= offsets[Len(offsets)]
      BY <1>5, OffsetsIncrease
    <2> QED
      BY <1>1, <2>1, <2>2
  <1>7. start \in Nat /\ end \in Nat
    BY <1>5
  <1>8. C.start = x /\ C.count = b[2] /\ C.total = units
        /\ C.offset = start /\ C.length = end - start
    BY <1>3 DEF Cut
  <1> HIDE DEF start, end
  <1>9. C.length \in Nat /\ C.offset + C.length <= size
    BY <1>6, <1>7, <1>8
  <1>10. C.start + C.count <= C.total
    BY <1>1, <1>2, <1>8, <1>4 DEF n
  <1> QED
    BY <1>9, <1>10 DEF C, ValidCut

(* The output sizes estimated for two adjoining cuts add up to the one of  *)
(* both together, so those of all shards add up to the declared size; none *)
(* is negative, which would wrap around.                                   *)
THEOREM EstimatesAddUp ==
    ASSUME NEW total \in Nat \ {0}, NEW bytes \in Nat,
           NEW start \in Nat, NEW m \in Nat, NEW n \in Nat,
           NEW o1, NEW o2, NEW l1, NEW l2, NEW l
    PROVE  LET Estimate(s, c, o, k) == ScaledOutputBytes(Cut(s, c, total, o, k), bytes)
           IN  /\ Estimate(start, m, o1, l1) \in Nat
               /\ Estimate(start, m, o1, l1) + Estimate(start + m, n, o2, l2)
                     = Estimate(start, m + n, o1, l)
  <1> DEFINE E(k) == (bytes * k) \div total
             S(s, c, o, k) == ScaledOutputBytes(Cut(s, c, total, o, k), bytes)
  <1>1. ASSUME NEW s \in Nat, NEW c \in Nat, NEW o, NEW k
        PROVE  S(s, c, o, k) = E(s + c) - E(s)
    BY DEF ScaledOutputBytes, Cut
  <1>2. ASSUME NEW k \in Nat PROVE E(k) \in Nat
    <2>1. bytes * k \in Nat
      OBVIOUS
    <2> QED
      BY <2>1, DivFacts
  <1>3. ASSUME NEW s \in Nat, NEW c \in Nat PROVE E(s) <= E(s + c)
    <2>1. bytes * s \in Nat /\ bytes * (s + c) \in Nat /\ bytes * s <= bytes * (s + c)
      OBVIOUS
    <2> QED
      BY <2>1, DivMonotone
  <1> HIDE DEF E, S
  <1>4. start + m \in Nat /\ (start + m) + n = start + (m + n) /\ m + n \in Nat
    OBVIOUS
  <1>5. E(start) \in Nat /\ E(start + m) \in Nat /\ E(start + (m + n)) \in Nat
        /\ E(start) <= E(start + m)
    BY <1>2, <1>3, <1>4
  <1>6. S(start, m, o1, l1) = E(start + m) - E(start)
        /\ S(start + m, n, o2, l2) = E(start + (m + n)) - E(start + m)
        /\ S(start, m + n, o1, l) = E(start + (m + n)) - E(start)
    BY <1>1, <1>4
  <1>7. S(start, m, o1, l1) \in Nat
        /\ S(start, m, o1, l1) + S(start + m, n, o2, l2) = S(start, m + n, o1, l)
    BY <1>5, <1>6
  <1> QED
    BY <1>7 DEF S

-----------------------------------------------------------------------------
(* The sequences that the planner builds.                                  *)

Has(s, x) == \E q \in 1..Len(s) : s[q] = x

(* The sequence w begins with v.                                           *)
Continues(w, v) == \A q \in 1..Len(v) : q \in 1..Len(w) /\ w[q] = v[q]

LEMMA AddNewFacts ==
    ASSUME NEW S, NEW v \in Seq(S), NEW x \in S
    PROVE  /\ AddNew(v, x) \in Seq(S)
           /\ Has(AddNew(v, x), x)
           /\ Continues(AddNew(v, x), v)
  <1>1. CASE x \in Range(v)
    <2>1. AddNew(v, x) = v
      BY <1>1 DEF AddNew
    <2>2. \E q \in 1..Len(v) : v[q] = x
      BY <1>1 DEF Range
    <2> QED
      BY <2>1, <2>2 DEF Has, Continues
  <1>2. CASE x \notin Range(v)
    <2> DEFINE w == Append(v, x)
    <2>1. AddNew(v, x) = w
      BY <1>2 DEF AddNew
    <2>2. /\ w \in Seq(S) /\ Len(w) = Len(v) + 1 /\ Len(v) \in Nat
          /\ w[Len(v) + 1] = x /\ \A q \in 1..Len(v) : w[q] = v[q]
      BY AppendProperties
    <2> HIDE DEF w
    <2>3. Len(w) \in 1..Len(w) /\ w[Len(w)] = x
      BY <2>2
    <2>4. \A q \in 1..Len(v) : q \in 1..Len(w)
      BY <2>2
    <2> QED
      BY <2>1, <2>2, <2>3, <2>4 DEF Has, Continues
  <1> QED
    BY <1>1, <1>2

(* The function by which Distinct is defined.                              *)
DistinctAfter(ids, g) ==
    g = [n \in 0..Len(ids) |-> IF n = 0 THEN <<>> ELSE AddNew(g[n - 1], ids[n])]

LEMMA DistinctIs ==
    ASSUME NEW ids
    PROVE  Distinct(ids) = (CHOOSE g : DistinctAfter(ids, g))[Len(ids)]
  BY DEF Distinct, DistinctAfter

(* No id is lost when the repetitions are removed.                         *)
LEMMA DistinctFacts ==
    ASSUME NEW S, NEW ids \in Seq(S)
    PROVE  /\ Distinct(ids) \in Seq(S)
           /\ \A p \in 1..Len(ids) : Has(Distinct(ids), ids[p])
  <1> DEFINE N == Len(ids)
             V == Seq(S)
             step == [n \in 1..N |-> [v \in V |-> AddNew(v, ids[n])]]
  <1>1. N \in Nat /\ <<>> \in V /\ \A n \in 1..N : ids[n] \in S
    OBVIOUS
  <1>2. \A n \in 1..N : \A v \in V : AddNew(v, ids[n]) \in V
    BY <1>1, AddNewFacts
  <1>3. step \in [1..N -> [V -> V]]
    BY <1>2
  <1>4. \A n \in 1..N : \A v \in V : step[n][v] = AddNew(v, ids[n])
    OBVIOUS
  <1> HIDE DEF N, V, step
  <1>5. PICK f \in [0..N -> V] : Recurs(f, N, <<>>, step)
    BY <1>1, <1>3, Recursion
  <1>6. DistinctAfter(ids, f)
    <2>1. /\ f[0] = <<>>
          /\ \A n \in 1..N : f[n] = step[n][f[n - 1]]
      BY <1>5 DEF Recurs
    <2>2. ASSUME NEW n \in 0..N
          PROVE  f[n] = IF n = 0 THEN <<>> ELSE AddNew(f[n - 1], ids[n])
      <3>1. CASE n = 0
        BY <2>1, <3>1
      <3>2. CASE n # 0
        <4>1. n \in 1..N /\ n - 1 \in 0..N
          BY <1>1, <3>2
        <4>2. f[n - 1] \in V /\ f[n] = step[n][f[n - 1]]
          BY <2>1, <4>1
        <4> QED
          BY <1>4, <3>2, <4>1, <4>2
      <3> QED
        BY <3>1, <3>2
    <2>3. f = [n \in 0..N |-> f[n]]
      OBVIOUS
    <2>4. f = [n \in 0..N |-> IF n = 0 THEN <<>> ELSE AddNew(f[n - 1], ids[n])]
      BY <2>2, <2>3
    <2> QED
      BY <2>4 DEF DistinctAfter, N
  <1> DEFINE g == CHOOSE h : DistinctAfter(ids, h)
  <1>7. DistinctAfter(ids, g)
    BY <1>6
  <1> HIDE DEF g
  <1>8. g[0] = <<>> /\ \A n \in 1..N : g[n] = AddNew(g[n - 1], ids[n])
    <2>1. \A n \in 0..N : g[n] = IF n = 0 THEN <<>> ELSE AddNew(g[n - 1], ids[n])
      BY <1>7 DEF DistinctAfter, N
    <2> QED
      BY <1>1, <2>1
  <1> DEFINE P == {n \in 0..N : g[n] \in V /\ \A p \in 1..n : Has(g[n], ids[p])}
  <1>9. 0 \in P
    BY <1>1, <1>8
  <1>10. ASSUME NEW n \in 1..N, n - 1 \in P PROVE n \in P
    <2> DEFINE v == g[n - 1]
               w == g[n]
    <2>1. v \in V /\ (\A p \in 1..(n - 1) : Has(v, ids[p])) /\ w = AddNew(v, ids[n])
          /\ ids[n] \in S
      BY <1>1, <1>8, <1>10
    <2> HIDE DEF v, w
    <2>2. w \in V /\ Has(w, ids[n]) /\ Continues(w, v)
      BY <2>1, AddNewFacts DEF V
    <2>3. ASSUME NEW p \in 1..n PROVE Has(w, ids[p])
      <3>1. CASE p = n
        BY <2>2, <3>1
      <3>2. CASE p # n
        <4>1. p \in 1..(n - 1)
          BY <3>2
        <4> QED
          BY <2>1, <2>2, <4>1 DEF Has, Continues
      <3> QED
        BY <3>1, <3>2
    <2> QED
      BY <2>2, <2>3 DEF w
  <1> HIDE DEF P
  <1>11. \A n \in 1..N : n - 1 \in P => n \in P
    BY <1>10
  <1>12. \A n \in 0..N : n \in P
    BY <1>1, <1>9, <1>11, Induction
  <1>13. N \in P
    BY <1>1, <1>12
  <1>14. Distinct(ids) = g[N]
    BY DistinctIs DEF g, N
  <1> QED
    BY <1>13, <1>14 DEF P, N, V

(* The function by which FlattenSeq is defined.                            *)
Flattening(seqs, g) ==
    g = [i \in 1..Len(seqs) |-> IF i = 1 THEN seqs[i] ELSE g[i - 1] \o seqs[i]]

LEMMA FlattenIs ==
    ASSUME NEW seqs, Len(seqs) # 0
    PROVE  FlattenSeq(seqs) = (CHOOSE g : Flattening(seqs, g))[Len(seqs)]
  BY DEF FlattenSeq, Flattening

(* The sequences that the first of seqs flatten to.                        *)
Flattened(g, seqs, S) ==
    /\ g \in [1..Len(seqs) -> Seq(S)]
    /\ g[1] = seqs[1]
    /\ \A i \in 2..Len(seqs) : g[i] = g[i - 1] \o seqs[i]

LEMMA FlattenRecurs ==
    ASSUME NEW S, NEW seqs \in Seq(Seq(S)), Len(seqs) # 0
    PROVE  \E g : Flattened(g, seqs, S) /\ FlattenSeq(seqs) = g[Len(seqs)]
  <1> DEFINE N == Len(seqs)
             V == Seq(S)
             step == [n \in 1..N |-> [v \in V |-> IF n = 1 THEN seqs[1] ELSE v \o seqs[n]]]
  <1>1. N \in Nat /\ 1 \in 1..N /\ <<>> \in V /\ \A n \in 1..N : seqs[n] \in V
    OBVIOUS
  <1>2. \A v, w \in V : v \o w \in V
    OBVIOUS
  <1>3. \A n \in 1..N : \A v \in V : (IF n = 1 THEN seqs[1] ELSE v \o seqs[n]) \in V
    <2> HIDE DEF N, V
    <2> QED
      BY <1>1, <1>2
  <1>4. step \in [1..N -> [V -> V]]
    <2> HIDE DEF N, V
    <2> QED
      BY <1>3
  <1>5. \A n \in 1..N : \A v \in V : step[n][v] = IF n = 1 THEN seqs[1] ELSE v \o seqs[n]
    <2> HIDE DEF N, V
    <2> QED
      OBVIOUS
  <1> HIDE DEF N, V, step
  <1>6. PICK f \in [0..N -> V] : Recurs(f, N, <<>>, step)
    BY <1>1, <1>4, Recursion
  <1> DEFINE h == [i \in 1..N |-> f[i]]
  <1>7. Flattening(seqs, h)
    <2>1. ASSUME NEW n \in 1..N
          PROVE  h[n] = IF n = 1 THEN seqs[n] ELSE h[n - 1] \o seqs[n]
      <3>1. n - 1 \in 0..N /\ f[n - 1] \in V
        BY <1>1
      <3>2. f[n] = step[n][f[n - 1]]
        BY <1>6 DEF Recurs
      <3>3. f[n] = IF n = 1 THEN seqs[1] ELSE f[n - 1] \o seqs[n]
        BY <1>5, <3>1, <3>2
      <3>4. n # 1 => n - 1 \in 1..N
        BY <1>1
      <3> QED
        BY <3>3, <3>4
    <2>2. h = [i \in 1..N |-> h[i]]
      OBVIOUS
    <2> HIDE DEF h
    <2>3. h = [i \in 1..N |-> IF i = 1 THEN seqs[i] ELSE h[i - 1] \o seqs[i]]
      BY <2>1, <2>2
    <2> QED
      BY <2>3 DEF Flattening, N
  <1> DEFINE g == CHOOSE k : Flattening(seqs, k)
  <1>8. Flattening(seqs, g)
    BY <1>7
  <1> HIDE DEF g, h
  <1>9. /\ g = [i \in 1..N |-> g[i]]
        /\ \A i \in 1..N : g[i] = IF i = 1 THEN seqs[i] ELSE g[i - 1] \o seqs[i]
    BY <1>8 DEF Flattening, N
  <1> DEFINE P == {n \in 0..N : n = 0 \/ g[n] \in V}
  <1>10. 0 \in P
    BY <1>1
  <1>11. ASSUME NEW n \in 1..N, n - 1 \in P PROVE n \in P
    <2>1. CASE n = 1
      <3>1. g[n] \in V
        BY <1>1, <1>9, <2>1
      <3> QED
        BY <1>1, <2>1, <3>1
    <2>2. CASE n # 1
      <3>1. n - 1 # 0
        BY <2>2
      <3>2. g[n - 1] \in V
        BY <1>11, <3>1
      <3>3. g[n] \in V
        BY <1>1, <1>2, <1>9, <2>2, <3>2
      <3> QED
        BY <3>3
    <2> QED
      BY <2>1, <2>2
  <1> HIDE DEF P
  <1>12. \A n \in 1..N : n - 1 \in P => n \in P
    BY <1>11
  <1>13. \A n \in 0..N : n \in P
    BY <1>1, <1>10, <1>12, Induction
  <1>14. \A n \in 1..N : g[n] \in V
    <2>1. \A n \in 1..N : n \in 0..N /\ n # 0
      BY <1>1
    <2> QED
      BY <1>13, <2>1 DEF P
  <1>15. g \in [1..N -> V]
    BY <1>9, <1>14
  <1>16. \A i \in 2..N : i \in 1..N /\ i # 1
    BY <1>1
  <1>17. Flattened(g, seqs, S)
    <2>1. g[1] = seqs[1]
      BY <1>1, <1>9
    <2>2. \A i \in 2..N : g[i] = g[i - 1] \o seqs[i]
      BY <1>9, <1>16
    <2> QED
      BY <1>15, <2>1, <2>2 DEF Flattened, N, V
  <1>18. FlattenSeq(seqs) = g[Len(seqs)]
    BY FlattenIs DEF g
  <1> QED
    BY <1>17, <1>18

LEMMA ConcatHas ==
    ASSUME NEW S, NEW v \in Seq(S), NEW w \in Seq(S)
    PROVE  /\ \A q \in 1..Len(v) : Has(v \o w, v[q])
           /\ \A q \in 1..Len(w) : Has(v \o w, w[q])
  <1> DEFINE u == v \o w
  <1>1. /\ u \in Seq(S) /\ Len(u) = Len(v) + Len(w) /\ Len(v) \in Nat /\ Len(w) \in Nat
        /\ \A i \in 1..(Len(v) + Len(w)) :
              u[i] = IF i <= Len(v) THEN v[i] ELSE w[i - Len(v)]
    BY ConcatProperties
  <1> HIDE DEF u
  <1>2. ASSUME NEW q \in 1..Len(v) PROVE Has(u, v[q])
    <2>1. q \in 1..Len(u) /\ u[q] = v[q]
      BY <1>1
    <2> QED
      BY <2>1 DEF Has
  <1>3. ASSUME NEW q \in 1..Len(w) PROVE Has(u, w[q])
    <2>1. /\ Len(v) + q \in 1..(Len(v) + Len(w)) /\ ~(Len(v) + q <= Len(v))
          /\ (Len(v) + q) - Len(v) = q
      BY <1>1
    <2>2. u[Len(v) + q] = w[q]
      BY <1>1, <2>1
    <2> QED
      BY <1>1, <2>1, <2>2 DEF Has
  <1> QED
    BY <1>2, <1>3 DEF u

(* Everything in some of seqs is in what they flatten to.                  *)
LEMMA FlattenHas ==
    ASSUME NEW S, NEW seqs \in Seq(Seq(S)), Len(seqs) # 0
    PROVE  /\ FlattenSeq(seqs) \in Seq(S)
           /\ \A i \in 1..Len(seqs) : \A k \in 1..Len(seqs[i]) : Has(FlattenSeq(seqs), seqs[i][k])
  <1> DEFINE N == Len(seqs)
             V == Seq(S)
  <1>1. N \in Nat /\ N \in 1..N /\ \A i \in 1..N : seqs[i] \in V
    OBVIOUS
  <1>2. PICK g : Flattened(g, seqs, S) /\ FlattenSeq(seqs) = g[N]
    BY FlattenRecurs
  <1>3. /\ \A i \in 1..N : g[i] \in V
        /\ g[1] = seqs[1] /\ \A i \in 2..N : g[i] = g[i - 1] \o seqs[i]
    BY <1>2 DEF Flattened
  <1> HIDE DEF N, V
  <1> DEFINE All(n) == \A i \in 1..n : \A k \in 1..Len(seqs[i]) : Has(g[n], seqs[i][k])
             P == {n \in 0..N : All(n)}
  <1>4. 0 \in P
    BY <1>1
  <1>5. ASSUME NEW n \in 1..N, n - 1 \in P PROVE n \in P
    <2>1. SUFFICES ASSUME NEW i \in 1..n, NEW k \in 1..Len(seqs[i])
                   PROVE  Has(g[n], seqs[i][k])
      BY <1>1
    <2>2. CASE n = 1
      <3>1. i = 1 /\ g[n] = seqs[i]
        BY <1>3, <2>2
      <3> QED
        BY <3>1 DEF Has
    <2>3. CASE n # 1
      <3>1. n \in 2..N /\ n - 1 \in 1..N /\ All(n - 1)
        BY <1>1, <1>5, <2>3
      <3>2. g[n - 1] \in V /\ seqs[n] \in V /\ g[n] = g[n - 1] \o seqs[n]
        BY <1>1, <1>3, <3>1
      <3>3. CASE i = n
        BY <3>2, <3>3, ConcatHas DEF V
      <3>4. CASE i # n
        <4>1. i \in 1..(n - 1)
          BY <3>4
        <4>2. Has(g[n - 1], seqs[i][k])
          BY <3>1, <4>1
        <4>3. PICK q \in 1..Len(g[n - 1]) : g[n - 1][q] = seqs[i][k]
          BY <4>2 DEF Has
        <4> QED
          BY <3>2, <4>3, ConcatHas DEF V
      <3> QED
        BY <3>3, <3>4
    <2> QED
      BY <2>2, <2>3
  <1> HIDE DEF P
  <1>6. \A n \in 1..N : n - 1 \in P => n \in P
    BY <1>5
  <1>7. \A n \in 0..N : n \in P
    BY <1>1, <1>4, <1>6, Induction
  <1>8. N \in P
    BY <1>1, <1>7
  <1> QED
    BY <1>1, <1>2, <1>3, <1>8 DEF P, N, V

-----------------------------------------------------------------------------
(* fused_pipeline_task and validate_task.                                  *)

(* Several templates and the ids of the dependencies, all ids in S.        *)
Fusible(templates, deps, S) ==
    /\ Len(templates) \in Nat /\ Len(templates) >= 2
    /\ DOMAIN templates = 1..Len(templates)
    /\ \A i \in 1..Len(templates) : templates[i].inputs \in Seq(S)
    /\ deps \in Seq(S)

Own(templates, deps, i) ==
    IF i = 1 THEN templates[1].inputs \o deps ELSE templates[i].inputs

Externals(templates, deps) ==
    Distinct(FlattenSeq([i \in DOMAIN templates |-> Own(templates, deps, i)]))

Bindings(templates, deps, i) ==
    [k \in DOMAIN Own(templates, deps, i) |->
        Binding(Externals(templates, deps), Own(templates, deps, i)[k])]

StageInputs(templates, deps, i) ==
    Bindings(templates, deps, i) \o (IF i = 1 THEN <<>> ELSE <<PreviousOutput>>)

LEMMA FusedIs ==
    ASSUME NEW templates, NEW deps
    PROVE  LET task == FusedPipelineTask(templates, deps)
           IN  /\ task.inputs = Externals(templates, deps)
               /\ DOMAIN task.stages = DOMAIN templates
               /\ \A i \in DOMAIN templates :
                     /\ task.stages[i].op = templates[i].op
                     /\ task.stages[i].args = templates[i].args
                     /\ task.stages[i].inputs = StageInputs(templates, deps, i)
               /\ task.stages = [i \in DOMAIN templates |->
                     Stage(templates[i], StageInputs(templates, deps, i))]
  BY DEF FusedPipelineTask, PipelineTask, Stage, Own, Externals, Bindings, StageInputs

(* What the task and its stages have besides their inputs.                 *)
LEMMA FusedHas ==
    ASSUME NEW templates, NEW deps
    PROVE  LET task == FusedPipelineTask(templates, deps)
           IN  /\ task.artifact = "plurifold:pipeline" /\ task.entry = "run"
               /\ task.effects = "Pure"
               /\ \A i \in DOMAIN templates :
                     /\ task.stages[i].family = templates[i].family
                     /\ task.stages[i].entry = templates[i].entry
  BY DEF FusedPipelineTask, PipelineTask, Stage

(* Each input of a stage's own is one of the task's inputs.                *)
LEMMA OwnFacts ==
    ASSUME NEW S, NEW templates, NEW deps, Fusible(templates, deps, S),
           NEW i \in 1..Len(templates)
    PROVE  LET own == Own(templates, deps, i)
               external == Externals(templates, deps)
           IN  /\ own \in Seq(S) /\ external \in Seq(S)
               /\ \A k \in 1..Len(own) : Has(external, own[k])
  <1> DEFINE own(j) == Own(templates, deps, j)
             seqs == [j \in 1..Len(templates) |-> own(j)]
             flat == FlattenSeq(seqs)
             external == Externals(templates, deps)
  <1>1. Len(templates) \in Nat /\ 1 \in 1..Len(templates) /\ Len(templates) # 0
        /\ DOMAIN templates = 1..Len(templates)
    BY DEF Fusible
  <1>2. ASSUME NEW j \in 1..Len(templates) PROVE own(j) \in Seq(S)
    <2>1. templates[j].inputs \in Seq(S) /\ templates[1].inputs \in Seq(S) /\ deps \in Seq(S)
      BY <1>1 DEF Fusible
    <2>2. templates[1].inputs \o deps \in Seq(S)
      BY <2>1
    <2> QED
      BY <2>1, <2>2 DEF Own
  <1> HIDE DEF own
  <1>3. seqs \in Seq(Seq(S)) /\ Len(seqs) = Len(templates)
    <2>1. seqs \in [1..Len(templates) -> Seq(S)]
      BY <1>2
    <2> HIDE DEF seqs
    <2> QED
      BY <1>1, <2>1
  <1>4. seqs[i] = own(i)
    OBVIOUS
  <1>5. external = Distinct(flat)
    BY <1>1 DEF Externals, own
  <1> HIDE DEF seqs, flat, external
  <1>6. /\ flat \in Seq(S)
        /\ \A k \in 1..Len(own(i)) : Has(flat, own(i)[k])
    <2>1. i \in 1..Len(seqs) /\ Len(seqs) # 0
      BY <1>1, <1>3
    <2> QED
      BY <1>3, <1>4, <2>1, FlattenHas DEF flat
  <1>7. external \in Seq(S) /\ \A p \in 1..Len(flat) : Has(external, flat[p])
    BY <1>5, <1>6, DistinctFacts
  <1>8. ASSUME NEW k \in 1..Len(own(i)) PROVE Has(external, own(i)[k])
    <2>1. PICK p \in 1..Len(flat) : flat[p] = own(i)[k]
      BY <1>6 DEF Has
    <2> QED
      BY <1>7, <2>1
  <1> QED
    BY <1>2, <1>7, <1>8 DEF own, external

LEMMA BindingFacts ==
    ASSUME NEW S, NEW external \in Seq(S), NEW id, Has(external, id)
    PROVE  /\ Binding(external, id).index \in 1..Len(external)
           /\ external[Binding(external, id).index] = id
           /\ Binding(external, id) # PreviousOutput
  <1> DEFINE q == CHOOSE i \in DOMAIN external : external[i] = id
  <1>1. DOMAIN external = 1..Len(external) /\ \E i \in DOMAIN external : external[i] = id
    BY DEF Has
  <1>2. q \in 1..Len(external) /\ external[q] = id
    BY <1>1
  <1>3. Binding(external, id) = External(q)
    BY DEF Binding
  <1> HIDE DEF q
  <1>4. External(q).index = q /\ External(q).kind = "External"
    BY DEF External
  <1>5. PreviousOutput.kind = "PreviousOutput"
    BY DEF PreviousOutput
  <1> QED
    BY <1>2, <1>3, <1>4, <1>5

(* What stage i is bound to: its own inputs and, if it is not the first,   *)
(* the previous output as the last one.                                    *)
LEMMA StageInputFacts ==
    ASSUME NEW S, NEW templates, NEW deps, Fusible(templates, deps, S),
           NEW i \in 1..Len(templates)
    PROVE  LET own == Own(templates, deps, i)
               external == Externals(templates, deps)
               inputs == StageInputs(templates, deps, i)
           IN  /\ Len(own) \in Nat
               /\ DOMAIN inputs = 1..(IF i = 1 THEN Len(own) ELSE Len(own) + 1)
               /\ \A k \in 1..Len(own) :
                     /\ inputs[k] # PreviousOutput
                     /\ inputs[k].index \in 1..Len(external)
                     /\ external[inputs[k].index] = own[k]
               /\ i # 1 => inputs[Len(own) + 1] = PreviousOutput
  <1> DEFINE own == Own(templates, deps, i)
             external == Externals(templates, deps)
             b == [k \in 1..Len(own) |-> Binding(external, own[k])]
             last == IF i = 1 THEN <<>> ELSE <<PreviousOutput>>
             inputs == b \o last
             R == {Binding(external, own[k]) : k \in 1..Len(own)} \cup {PreviousOutput}
  <1>1. /\ own \in Seq(S) /\ external \in Seq(S)
        /\ \A k \in 1..Len(own) : Has(external, own[k])
    BY OwnFacts
  <1>2. Len(own) \in Nat /\ DOMAIN own = 1..Len(own)
    BY <1>1
  <1>3. StageInputs(templates, deps, i) = inputs
    BY <1>2 DEF StageInputs, Bindings
  <1> HIDE DEF own, external
  <1>4. \A k \in 1..Len(own) : b[k] = Binding(external, own[k])
    OBVIOUS
  <1>5. b \in Seq(R) /\ Len(b) = Len(own)
    <2>1. b \in [1..Len(own) -> R]
      OBVIOUS
    <2> HIDE DEF b, R
    <2> QED
      BY <1>2, <2>1
  <1>6. last \in Seq(R) /\ Len(last) = (IF i = 1 THEN 0 ELSE 1) /\ (i # 1 => last[1] = PreviousOutput)
    <2>1. PreviousOutput \in R
      OBVIOUS
    <2> HIDE DEF R
    <2> QED
      BY <2>1
  <1> HIDE DEF b, R, last
  <1>7. /\ inputs \in Seq(R) /\ Len(inputs) = Len(b) + Len(last)
        /\ \A k \in 1..(Len(b) + Len(last)) :
              inputs[k] = IF k <= Len(b) THEN b[k] ELSE last[k - Len(b)]
    <2>1. b \in Seq(R) /\ last \in Seq(R)
      BY <1>5, <1>6
    <2> QED
      BY <2>1, ConcatProperties
  <1> HIDE DEF inputs
  <1>8. DOMAIN inputs = 1..(IF i = 1 THEN Len(own) ELSE Len(own) + 1)
    <2>1. DOMAIN inputs = 1..Len(inputs)
      BY <1>7
    <2>2. Len(inputs) = IF i = 1 THEN Len(own) ELSE Len(own) + 1
      BY <1>2, <1>5, <1>6, <1>7
    <2> QED
      BY <2>1, <2>2
  <1>9. ASSUME NEW k \in 1..Len(own)
        PROVE  /\ inputs[k] # PreviousOutput
               /\ inputs[k].index \in 1..Len(external)
               /\ external[inputs[k].index] = own[k]
    <2>1. k \in 1..(Len(b) + Len(last)) /\ k <= Len(b)
      BY <1>2, <1>5, <1>6
    <2>2. inputs[k] = Binding(external, own[k])
      BY <1>4, <1>7, <2>1
    <2> QED
      BY <1>1, <2>2, BindingFacts
  <1>10. i # 1 => inputs[Len(own) + 1] = PreviousOutput
    <2>1. SUFFICES ASSUME i # 1 PROVE inputs[Len(own) + 1] = PreviousOutput
      OBVIOUS
    <2>2. Len(last) = 1 /\ last[1] = PreviousOutput
      BY <1>6, <2>1
    <2>3. /\ Len(own) + 1 \in 1..(Len(b) + Len(last)) /\ ~(Len(own) + 1 <= Len(b))
          /\ (Len(own) + 1) - Len(b) = 1
      BY <1>2, <1>5, <2>2
    <2> QED
      BY <1>7, <2>2, <2>3
  <1> QED
    BY <1>2, <1>3, <1>8, <1>9, <1>10 DEF own, external

(* validate_task admits the pipeline that fused_pipeline_task makes of     *)
(* roles that are fusable if and only if the entrypoint of each is "run".  *)
(* Only the later stages take the previous output, once each, and every    *)
(* other binding is one of the task's inputs, whatever the roles share;    *)
(* fusable_template has looked at everything else but the entrypoint.      *)
THEOREM PipelineAdmission ==
    ASSUME NEW S, NEW templates, NEW deps, Fusible(templates, deps, S), MayFuse(templates)
    PROVE  ValidPipeline(FusedPipelineTask(templates, deps))
             <=> \A i \in DOMAIN templates : templates[i].entry = "run"
  <1> DEFINE task == FusedPipelineTask(templates, deps)
             external == Externals(templates, deps)
             N == Len(templates)
  <1>1. N \in Nat /\ N >= 2 /\ DOMAIN templates = 1..N
    BY DEF Fusible
  <1>2. /\ task.inputs = external /\ DOMAIN task.stages = 1..N
        /\ \A i \in 1..N : task.stages[i].inputs = StageInputs(templates, deps, i)
    <2>1. task.inputs = external /\ DOMAIN task.stages = DOMAIN templates
      BY FusedIs
    <2>2. \A i \in DOMAIN templates : task.stages[i].inputs = StageInputs(templates, deps, i)
      BY FusedIs
    <2> HIDE DEF task, external, N
    <2> QED
      BY <1>1, <2>1, <2>2
  <1>3. Len(task.stages) = N
    <2>1. task.stages = [i \in 1..N |->
             Stage(templates[i], StageInputs(templates, deps, i))]
      BY <1>1, FusedIs
    <2> HIDE DEF task, N
    <2> QED
      BY <1>1, <2>1
  <1>4. ASSUME NEW i \in 1..N
        PROVE  LET inputs == task.stages[i].inputs
               IN  /\ Cardinality({k \in DOMAIN inputs : inputs[k] = PreviousOutput})
                        = IF i = 1 THEN 0 ELSE 1
                   /\ \A k \in DOMAIN inputs :
                         inputs[k] = PreviousOutput \/ inputs[k].index <= Len(task.inputs)
    <2> DEFINE inputs == StageInputs(templates, deps, i)
               m == Len(Own(templates, deps, i))
               C == {k \in DOMAIN inputs : inputs[k] = PreviousOutput}
    <2>1. task.stages[i].inputs = inputs /\ task.inputs = external
      BY <1>2
    <2>2. /\ m \in Nat
          /\ DOMAIN inputs = 1..(IF i = 1 THEN m ELSE m + 1)
          /\ \A k \in 1..m : inputs[k] # PreviousOutput /\ inputs[k].index \in 1..Len(external)
          /\ i # 1 => inputs[m + 1] = PreviousOutput
      BY StageInputFacts
    <2> HIDE DEF inputs, m, external
    <2>3. Cardinality(C) = IF i = 1 THEN 0 ELSE 1
      <3>1. CASE i = 1
        <4>1. C = {}
          BY <2>2, <3>1
        <4> QED
          BY <3>1, <4>1, FS_EmptySet
      <3>2. CASE i # 1
        <4>1. \A k \in 1..(m + 1) : k = m + 1 \/ k \in 1..m
          BY <2>2
        <4>2. m + 1 \in 1..(m + 1)
          BY <2>2
        <4>3. C = {m + 1}
          BY <2>2, <3>2, <4>1, <4>2
        <4> QED
          BY <3>2, <4>3, FS_Singleton
      <3> QED
        BY <3>1, <3>2
    <2>4. ASSUME NEW k \in DOMAIN inputs
          PROVE  inputs[k] = PreviousOutput \/ inputs[k].index <= Len(external)
      <3>1. CASE k \in 1..m
        BY <2>2, <3>1
      <3>2. CASE k \notin 1..m
        <4>1. i # 1 /\ k = m + 1
          BY <2>2, <3>2
        <4> QED
          BY <2>2, <4>1
      <3> QED
        BY <3>1, <3>2
    <2> QED
      BY <2>1, <2>3, <2>4
  <1>5. /\ task.artifact = "plurifold:pipeline" /\ task.entry = "run"
        /\ task.effects = "Pure"
        /\ \A i \in 1..N : task.stages[i].entry = templates[i].entry
        /\ \A i \in 1..N : task.stages[i].family = "builtin"
    <2>1. /\ task.artifact = "plurifold:pipeline" /\ task.entry = "run"
          /\ task.effects = "Pure"
          /\ \A i \in DOMAIN templates : /\ task.stages[i].family = templates[i].family
                                         /\ task.stages[i].entry = templates[i].entry
      BY FusedHas
    <2>2. \A i \in DOMAIN templates : templates[i].family = "builtin"
      BY DEF MayFuse, FusableTemplate
    <2> HIDE DEF task, N
    <2> QED
      BY <1>1, <2>1, <2>2
  <1> HIDE DEF task, N
  <1>6. ValidPipeline(task) <=> \A i \in 1..N : task.stages[i].entry = "run"
    BY <1>1, <1>2, <1>3, <1>4, <1>5 DEF ValidPipeline
  <1> QED
    BY <1>1, <1>5, <1>6 DEF task

-----------------------------------------------------------------------------
(* reduction_groups.                                                       *)

LEMMA ExtendedTyped ==
    ASSUME NEW S, NEW gs \in Seq(Seq(S)), NEW x \in S, NEW fanIn
    PROVE  Extended(gs, x, fanIn) \in Seq(Seq(S))
  <1> DEFINE more == Append(gs[Len(gs)], x)
  <1>1. <<x>> \in Seq(S)
    OBVIOUS
  <1>2. Append(gs, <<x>>) \in Seq(Seq(S))
    BY <1>1
  <1>3. ASSUME gs # <<>>
        PROVE  [gs EXCEPT ![Len(gs)] = more] \in Seq(Seq(S))
    <2>1. Len(gs) \in 1..Len(gs)
      BY <1>3
    <2>2. gs[Len(gs)] \in Seq(S)
      BY <2>1
    <2>3. more \in Seq(S)
      BY <2>2
    <2> HIDE DEF more
    <2> QED
      BY <2>1, <2>3, ExceptSeq
  <1>4. \/ gs # <<>> /\ Extended(gs, x, fanIn) = [gs EXCEPT ![Len(gs)] = more]
        \/ Extended(gs, x, fanIn) = Append(gs, <<x>>)
    BY DEF Extended
  <1> QED
    BY <1>2, <1>3, <1>4

(* The function by which LocalGroups is defined.                           *)
GroupsAfter(inputs, fanIn, g) ==
    g = [n \in 0..Len(inputs) |->
           IF n = 0 THEN <<>> ELSE Extended(g[n - 1], inputs[n], fanIn)]

LEMMA LocalGroupsIs ==
    ASSUME NEW inputs, NEW fanIn
    PROVE  LocalGroups(inputs, fanIn)
             = (CHOOSE g : GroupsAfter(inputs, fanIn, g))[Len(inputs)]
  BY DEF LocalGroups, GroupsAfter

LEMMA LocalGroupsRecurs ==
    ASSUME NEW S, NEW inputs \in Seq(S), NEW fanIn
    PROVE  \E g : /\ g[0] = <<>>
                  /\ \A n \in 1..Len(inputs) : g[n] = Extended(g[n - 1], inputs[n], fanIn)
                  /\ LocalGroups(inputs, fanIn) = g[Len(inputs)]
  <1> DEFINE N == Len(inputs)
             V == Seq(Seq(S))
             step == [n \in 1..N |-> [v \in V |-> Extended(v, inputs[n], fanIn)]]
  <1>1. N \in Nat /\ <<>> \in V /\ \A n \in 1..N : inputs[n] \in S
    OBVIOUS
  <1>2. \A n \in 1..N : \A v \in V : Extended(v, inputs[n], fanIn) \in V
    BY <1>1, ExtendedTyped
  <1>3. step \in [1..N -> [V -> V]]
    BY <1>2
  <1>4. \A n \in 1..N : \A v \in V : step[n][v] = Extended(v, inputs[n], fanIn)
    OBVIOUS
  <1> HIDE DEF N, V, step
  <1>5. PICK f \in [0..N -> V] : Recurs(f, N, <<>>, step)
    BY <1>1, <1>3, Recursion
  <1>6. GroupsAfter(inputs, fanIn, f)
    <2>1. /\ f[0] = <<>>
          /\ \A n \in 1..N : f[n] = step[n][f[n - 1]]
      BY <1>5 DEF Recurs
    <2>2. ASSUME NEW n \in 0..N
          PROVE  f[n] = IF n = 0 THEN <<>> ELSE Extended(f[n - 1], inputs[n], fanIn)
      <3>1. CASE n = 0
        BY <2>1, <3>1
      <3>2. CASE n # 0
        <4>1. n \in 1..N /\ n - 1 \in 0..N
          BY <1>1, <3>2
        <4>2. f[n - 1] \in V /\ f[n] = step[n][f[n - 1]]
          BY <2>1, <4>1
        <4> QED
          BY <1>4, <3>2, <4>1, <4>2
      <3> QED
        BY <3>1, <3>2
    <2>3. f = [n \in 0..N |-> f[n]]
      OBVIOUS
    <2>4. f = [n \in 0..N |-> IF n = 0 THEN <<>> ELSE Extended(f[n - 1], inputs[n], fanIn)]
      BY <2>2, <2>3
    <2> QED
      BY <2>4 DEF GroupsAfter, N
  <1> DEFINE g == CHOOSE h : GroupsAfter(inputs, fanIn, h)
  <1>7. GroupsAfter(inputs, fanIn, g)
    BY <1>6
  <1> HIDE DEF g
  <1>8. g[0] = <<>> /\ \A n \in 1..N : g[n] = Extended(g[n - 1], inputs[n], fanIn)
    <2>1. \A n \in 0..N :
            g[n] = IF n = 0 THEN <<>> ELSE Extended(g[n - 1], inputs[n], fanIn)
      BY <1>7 DEF GroupsAfter, N
    <2> QED
      BY <1>1, <2>1
  <1>9. LocalGroups(inputs, fanIn) = g[Len(inputs)]
    BY LocalGroupsIs DEF g
  <1> QED
    BY <1>8, <1>9 DEF N

LEMMA SubSeqFacts ==
    ASSUME NEW S, NEW s \in Seq(S), NEW lo \in Nat, NEW hi \in 0..Len(s), lo <= hi
    PROVE  SubSeq(s, lo + 1, hi) \in Seq(S) /\ Len(SubSeq(s, lo + 1, hi)) = hi - lo
  <1>1. lo + 1 \in Int /\ hi \in Int /\ \A i \in (lo + 1)..hi : i \in 1..Len(s)
    OBVIOUS
  <1>2. \A i \in (lo + 1)..hi : s[i] \in S
    BY <1>1
  <1>3. /\ SubSeq(s, lo + 1, hi) \in Seq(S)
        /\ Len(SubSeq(s, lo + 1, hi)) = IF lo + 1 <= hi THEN hi - (lo + 1) + 1 ELSE 0
    BY <1>1, <1>2, SubSeqProperties
  <1> QED
    BY <1>3

LEMMA SubSeqGrows ==
    ASSUME NEW S, NEW s \in Seq(S), NEW lo \in Nat, NEW n \in 1..Len(s), lo < n
    PROVE  Append(SubSeq(s, lo + 1, n - 1), s[n]) = SubSeq(s, lo + 1, n)
  <1> DEFINE u == SubSeq(s, lo + 1, n - 1)
  <1>1. lo + 1 \in 1..Len(s) /\ n \in (lo + 1)..Len(s) /\ n - 1 \in 0..Len(s)
        /\ lo <= n - 1 /\ s[n] \in S
    OBVIOUS
  <1>2. SubSeq(s, lo + 1, n) = u \o <<s[n]>>
    BY <1>1, SubSeqRecursiveSecond
  <1>3. u \in Seq(S)
    BY <1>1, SubSeqFacts
  <1> HIDE DEF u
  <1>4. Append(u, s[n]) = u \o <<s[n]>>
    BY <1>1, <1>3, AppendIsConcat
  <1> QED
    BY <1>2, <1>4 DEF u

(* The groups gs are the first n elements of s, cut at b: in order, each   *)
(* in one group, and no group is empty or larger than the fan-in.          *)
CutAt(gs, s, b, n, fanIn) ==
    /\ b \in [0..Len(gs) -> Nat] /\ b[0] = 0 /\ b[Len(gs)] = n
    /\ \A i \in 1..Len(gs) : b[i] - b[i - 1] \in 1..fanIn
    /\ \A i \in 1..Len(gs) : gs[i] = SubSeq(s, b[i - 1] + 1, b[i])

Grouped(gs, s, n, fanIn) == \E b : CutAt(gs, s, b, n, fanIn)

LEMMA NewGroup ==
    ASSUME NEW S, NEW s \in Seq(S), NEW gs \in Seq(Seq(S)), NEW n \in 1..Len(s),
           NEW fanIn \in Nat \ {0}, Grouped(gs, s, n - 1, fanIn)
    PROVE  Grouped(Append(gs, <<s[n]>>), s, n, fanIn)
  <1> DEFINE L == Len(gs)
             w == Append(gs, <<s[n]>>)
  <1>1. PICK b : CutAt(gs, s, b, n - 1, fanIn)
    BY DEF Grouped
  <1>2. /\ b \in [0..L -> Nat] /\ b[0] = 0 /\ b[L] = n - 1
        /\ \A i \in 1..L : b[i] - b[i - 1] \in 1..fanIn
        /\ \A i \in 1..L : gs[i] = SubSeq(s, b[i - 1] + 1, b[i])
    BY <1>1 DEF CutAt
  <1>3. s[n] \in S /\ <<s[n]>> \in Seq(S) /\ L \in Nat
    OBVIOUS
  <1>4. Len(w) = L + 1 /\ w[L + 1] = <<s[n]>> /\ \A i \in 1..L : w[i] = gs[i]
    BY <1>3, AppendProperties
  <1> HIDE DEF L, w
  <1> DEFINE c == [i \in 0..(L + 1) |-> IF i = L + 1 THEN n ELSE b[i]]
  <1>5. \A i \in 0..(L + 1) : i = L + 1 \/ i \in 0..L
    BY <1>3
  <1>6. c \in [0..(L + 1) -> Nat]
    BY <1>2, <1>5
  <1>7. c[L + 1] = n /\ \A i \in 0..L : c[i] = b[i]
    BY <1>3
  <1> HIDE DEF c
  <1>8. c[0] = 0 /\ c[L] = n - 1
    BY <1>2, <1>3, <1>7
  <1>9. ASSUME NEW i \in 1..(L + 1)
        PROVE  c[i] - c[i - 1] \in 1..fanIn /\ w[i] = SubSeq(s, c[i - 1] + 1, c[i])
    <2>1. CASE i = L + 1
      <3>1. i - 1 = L
        BY <1>3, <2>1
      <3>2. c[i] = n /\ c[i - 1] = n - 1 /\ (n - 1) + 1 = n /\ n - (n - 1) = 1
        BY <1>7, <1>8, <2>1, <3>1
      <3>3. SubSeq(s, n, n) = <<s[n]>>
        <4>1. Append(SubSeq(s, (n - 1) + 1, n - 1), s[n]) = SubSeq(s, (n - 1) + 1, n)
          BY n - 1 \in Nat, n - 1 < n, SubSeqGrows
        <4>2. SubSeq(s, n, n - 1) = <<>>
          BY n \in Int, n - 1 \in Int, n - 1 < n, SubSeqEmpty
        <4>3. Append(<<>>, s[n]) = <<s[n]>>
          OBVIOUS
        <4> QED
          BY <3>2, <4>1, <4>2, <4>3
      <3>4. 1 \in 1..fanIn
        OBVIOUS
      <3> QED
        BY <1>4, <2>1, <3>2, <3>3, <3>4
    <2>2. CASE i # L + 1
      <3>1. i \in 1..L /\ i \in 0..L /\ i - 1 \in 0..L
        BY <1>3, <2>2
      <3> QED
        BY <1>2, <1>4, <1>7, <3>1
    <2> QED
      BY <2>1, <2>2
  <1>10. CutAt(w, s, c, n, fanIn)
    BY <1>4, <1>6, <1>7, <1>8, <1>9 DEF CutAt
  <1> QED
    BY <1>10 DEF Grouped, w

(* The groups with x added to the last one.                                *)
Larger(gs, x) == [gs EXCEPT ![Len(gs)] = Append(gs[Len(gs)], x)]

LEMMA LargerGroup ==
    ASSUME NEW S, NEW s \in Seq(S), NEW gs \in Seq(Seq(S)), NEW n \in 1..Len(s),
           NEW fanIn \in Nat \ {0}, Grouped(gs, s, n - 1, fanIn),
           gs # <<>>, Len(gs[Len(gs)]) < fanIn
    PROVE  Grouped(Larger(gs, s[n]), s, n, fanIn)
  <1> DEFINE L == Len(gs)
             more == Append(gs[L], s[n])
             w == [gs EXCEPT ![L] = more]
  <1>1. PICK b : CutAt(gs, s, b, n - 1, fanIn)
    BY DEF Grouped
  <1>2. /\ b \in [0..L -> Nat] /\ b[0] = 0 /\ b[L] = n - 1
        /\ \A i \in 1..L : b[i] - b[i - 1] \in 1..fanIn
        /\ \A i \in 1..L : gs[i] = SubSeq(s, b[i - 1] + 1, b[i])
    BY <1>1 DEF CutAt
  <1>3. L \in Nat /\ L \in 1..L /\ L - 1 \in 0..L /\ L \in 0..L /\ 0 \in 0..L /\ 0 # L
        /\ gs[L] \in Seq(S) /\ s[n] \in S
    OBVIOUS
  <1>4. more \in Seq(S)
    <2> HIDE DEF L
    <2> QED
      BY <1>3
  <1>5. Len(w) = L /\ w[L] = more /\ \A i \in 1..L : i # L => w[i] = gs[i]
    <2> HIDE DEF more
    <2>1. \A i \in 1..L : w[i] = IF i = L THEN more ELSE gs[i]
      BY <1>3, <1>4, ExceptSeq
    <2>2. Len(w) = L
      BY <1>3, <1>4, ExceptSeq
    <2> QED
      BY <1>3, <2>1, <2>2
  <1> DEFINE lo == b[L - 1]
             c == [b EXCEPT ![L] = n]
  <1>6. Len(gs[L]) < fanIn
    OBVIOUS
  <1> HIDE DEF L, w
  <1>7. lo \in Nat /\ (n - 1) - lo \in 1..fanIn /\ gs[L] = SubSeq(s, lo + 1, n - 1)
    BY <1>2, <1>3
  <1> HIDE DEF lo
  <1>8. n - lo \in 1..fanIn /\ lo < n
    <2>1. lo <= n - 1 /\ n - 1 \in 0..Len(s)
      BY <1>7
    <2>2. Len(gs[L]) = (n - 1) - lo
      BY <1>7, <2>1, SubSeqFacts
    <2> QED
      BY <1>6, <1>7, <2>2
  <1>9. more = SubSeq(s, lo + 1, n)
    BY <1>7, <1>8, SubSeqGrows
  <1>10. c \in [0..L -> Nat] /\ c[L] = n /\ \A i \in 0..L : i # L => c[i] = b[i]
    <2>1. b \in [0..L -> Nat]
      BY <1>2
    <2>2. L \in 0..L
      BY <1>3
    <2>3. n \in Nat
      OBVIOUS
    <2> QED
      BY <2>1, <2>2, <2>3
  <1> HIDE DEF c, more
  <1>11. c[0] = 0 /\ c[L - 1] = lo
    BY <1>2, <1>3, <1>10 DEF lo
  <1>12. ASSUME NEW i \in 1..L
         PROVE  c[i] - c[i - 1] \in 1..fanIn /\ w[i] = SubSeq(s, c[i - 1] + 1, c[i])
    <2>1. CASE i = L
      BY <1>5, <1>8, <1>9, <1>10, <1>11, <2>1
    <2>2. CASE i # L
      <3>1. i \in 0..L /\ i - 1 \in 0..L /\ i - 1 # L
        BY <1>3, <2>2
      <3> QED
        BY <1>2, <1>5, <1>10, <2>2, <3>1
    <2> QED
      BY <2>1, <2>2
  <1>13. CutAt(w, s, c, n, fanIn)
    BY <1>5, <1>10, <1>11, <1>12 DEF CutAt
  <1> QED
    BY <1>13 DEF Grouped, Larger, w, L, more

LEMMA ExtendedGrouped ==
    ASSUME NEW S, NEW s \in Seq(S), NEW gs \in Seq(Seq(S)), NEW n \in 1..Len(s),
           NEW fanIn \in Nat \ {0}, Grouped(gs, s, n - 1, fanIn)
    PROVE  Grouped(Extended(gs, s[n], fanIn), s, n, fanIn)
  <1>1. \/ /\ gs # <<>> /\ Len(gs[Len(gs)]) < fanIn
           /\ Extended(gs, s[n], fanIn) = Larger(gs, s[n])
        \/ Extended(gs, s[n], fanIn) = Append(gs, <<s[n]>>)
    BY DEF Extended, Larger, Last
  <1>2. CASE Extended(gs, s[n], fanIn) = Append(gs, <<s[n]>>)
    BY <1>2, NewGroup
  <1>3. CASE /\ gs # <<>> /\ Len(gs[Len(gs)]) < fanIn
             /\ Extended(gs, s[n], fanIn) = Larger(gs, s[n])
    BY <1>3, LargerGroup
  <1> QED
    BY <1>1, <1>2, <1>3

LEMMA LocalGroupsGrouped ==
    ASSUME NEW S, NEW s \in Seq(S), NEW fanIn \in Nat \ {0}
    PROVE  /\ LocalGroups(s, fanIn) \in Seq(Seq(S))
           /\ Grouped(LocalGroups(s, fanIn), s, Len(s), fanIn)
  <1> DEFINE N == Len(s)
  <1>1. N \in Nat /\ \A n \in 1..N : s[n] \in S
    OBVIOUS
  <1>2. PICK g : /\ g[0] = <<>>
                 /\ \A n \in 1..N : g[n] = Extended(g[n - 1], s[n], fanIn)
                 /\ LocalGroups(s, fanIn) = g[N]
    BY LocalGroupsRecurs
  <1> DEFINE P == {n \in 0..N : g[n] \in Seq(Seq(S)) /\ Grouped(g[n], s, n, fanIn)}
  <1>3. 0 \in P
    <2>1. <<>> \in Seq(Seq(S)) /\ Len(<<>>) = 0
      OBVIOUS
    <2> DEFINE b == [i \in 0..0 |-> 0]
    <2>2. b \in [0..0 -> Nat] /\ b[0] = 0 /\ \A i \in 1..0 : FALSE
      OBVIOUS
    <2> HIDE DEF b
    <2>3. CutAt(<<>>, s, b, 0, fanIn)
      BY <2>1, <2>2 DEF CutAt
    <2>4. Grouped(<<>>, s, 0, fanIn)
      BY <2>3 DEF Grouped
    <2> QED
      BY <1>1, <1>2, <2>1, <2>4, 0 \in 0..N
  <1>4. ASSUME NEW n \in 1..N, n - 1 \in P PROVE n \in P
    <2>1. /\ g[n - 1] \in Seq(Seq(S)) /\ Grouped(g[n - 1], s, n - 1, fanIn)
          /\ g[n] = Extended(g[n - 1], s[n], fanIn) /\ s[n] \in S
      BY <1>1, <1>2, <1>4
    <2>2. g[n] \in Seq(Seq(S))
      BY <2>1, ExtendedTyped
    <2>3. Grouped(g[n], s, n, fanIn)
      BY <2>1, ExtendedGrouped
    <2> QED
      BY <2>2, <2>3
  <1> HIDE DEF P, N
  <1>5. \A n \in 1..N : n - 1 \in P => n \in P
    BY <1>4
  <1>6. \A n \in 0..N : n \in P
    BY <1>1, <1>3, <1>5, Induction
  <1>7. N \in P
    BY <1>1, <1>6
  <1> QED
    BY <1>2, <1>7 DEF P, N

LEMMA ChunksGrouped ==
    ASSUME NEW S, NEW s \in Seq(S), NEW size \in Nat \ {0}
    PROVE  /\ Chunks(s, size) \in Seq(Seq(S))
           /\ Grouped(Chunks(s, size), s, Len(s), size)
           /\ size * Len(Chunks(s, size)) <= Len(s) + size - 1
  <1> DEFINE N == Len(s)
             K == (N + size - 1) \div size
             b == [c \in 0..K |-> IF c * size < N THEN c * size ELSE N]
             w == Chunks(s, size)
  <1>1. N \in Nat /\ N + size - 1 \in Nat
    OBVIOUS
  <1>2. K \in Nat /\ size * K <= N + size - 1 /\ N + size - 1 < size * K + size
    BY <1>1, DivFacts
  <1>3. w = [c \in 1..K |-> SubSeq(s, (c - 1) * size + 1, IF c * size < N THEN c * size ELSE N)]
    BY DEF Chunks
  <1> HIDE DEF N, K, w
  <1>4. ASSUME NEW c \in 0..K
        PROVE  /\ c * size \in Nat /\ b[c] \in Nat /\ b[c] <= N
               /\ b[c] = IF c * size < N THEN c * size ELSE N
    BY <1>1
  <1>5. b \in [0..K -> Nat]
    BY <1>4
  <1>6. \A c \in 0..K : b[c] = IF c * size < N THEN c * size ELSE N
    BY <1>4
  <1> HIDE DEF b
  <1>7. ASSUME NEW c \in 1..K
        PROVE  /\ b[c - 1] = (c - 1) * size /\ b[c] - b[c - 1] \in 1..size
               /\ b[c - 1] \in Nat /\ b[c - 1] <= b[c] /\ b[c] \in 0..N
               /\ w[c] = SubSeq(s, b[c - 1] + 1, b[c])
    <2> DEFINE x == (c - 1) * size
               y == c * size
    <2>1. x \in Nat /\ y \in Nat /\ y = x + size
      BY <1>2
    <2>2. y <= size * K
      BY <1>2
    <2> HIDE DEF x, y
    <2>3. x < N
      <3>1. size * K \in Nat
        BY <1>2
      <3> QED
        BY <1>1, <1>2, <2>1, <2>2, <3>1
    <2>4. b[c - 1] = x /\ b[c] = IF y < N THEN y ELSE N
      <3>1. c - 1 \in 0..K /\ c \in 0..K
        BY <1>2
      <3> QED
        BY <1>6, <2>3, <3>1 DEF x, y
    <2>5. b[c] - x \in 1..size /\ x <= b[c] /\ b[c] \in 0..N
      BY <1>1, <2>1, <2>3, <2>4
    <2>6. w[c] = SubSeq(s, x + 1, b[c])
      BY <1>3, <2>4 DEF x, y
    <2> QED
      BY <2>1, <2>4, <2>5, <2>6 DEF x
  <1>8. w \in Seq(Seq(S)) /\ Len(w) = K
    <2>1. ASSUME NEW c \in 1..K PROVE w[c] \in Seq(S)
      <3> DEFINE lo == b[c - 1]
                 hi == b[c]
      <3>1. lo \in Nat /\ hi \in 0..Len(s) /\ lo <= hi /\ w[c] = SubSeq(s, lo + 1, hi)
        BY <1>7 DEF N
      <3> HIDE DEF lo, hi
      <3> QED
        BY <3>1, SubSeqFacts
    <2>2. w = [c \in 1..K |-> w[c]]
      BY <1>3
    <2>3. w \in [1..K -> Seq(S)]
      BY <2>1, <2>2
    <2> QED
      BY <1>2, <2>3
  <1>9. b[0] = 0 /\ b[K] = N
    <2>1. 0 \in 0..K /\ K \in 0..K /\ 0 * size = 0 /\ K * size = size * K /\ size * K \in Nat
      BY <1>2
    <2>2. N <= size * K
      BY <1>1, <1>2, <2>1
    <2> QED
      BY <1>1, <1>6, <2>1, <2>2
  <1>10. CutAt(w, s, b, N, size)
    <2>1. \A i \in 1..K : b[i] - b[i - 1] \in 1..size
      BY <1>7
    <2>2. \A i \in 1..K : w[i] = SubSeq(s, b[i - 1] + 1, b[i])
      BY <1>7
    <2> QED
      BY <1>5, <1>8, <1>9, <2>1, <2>2 DEF CutAt
  <1> QED
    BY <1>2, <1>8, <1>10 DEF Grouped, w, N

(* reduction_groups loses, repeats and reorders nothing, wherever the      *)
(* inputs are: its groups are the inputs, cut into runs of neighbours that *)
(* are not empty and not larger than the fan-in.                           *)
THEOREM GroupsInOrder ==
    ASSUME NEW S, NEW inputs \in Seq(S), NEW fanIn \in Nat \ {0}
    PROVE  /\ ReductionGroups(inputs, fanIn) \in Seq(Seq(S))
           /\ Grouped(ReductionGroups(inputs, fanIn), inputs, Len(inputs), fanIn)
  <1>1. \/ ReductionGroups(inputs, fanIn) = LocalGroups(inputs, fanIn)
        \/ ReductionGroups(inputs, fanIn) = Chunks(inputs, fanIn)
    BY DEF ReductionGroups
  <1> QED
    BY <1>1, LocalGroupsGrouped, ChunksGrouped

(* If some group has two elements, there are fewer groups than elements.   *)
LEMMA FewerGroups ==
    ASSUME NEW gs, Len(gs) \in Nat, NEW s, NEW n \in Nat, NEW fanIn \in Nat,
           Grouped(gs, s, n, fanIn), NEW j \in 1..Len(gs), Len(gs[j]) > 1
    PROVE  Len(gs) < n
  <1> DEFINE L == Len(gs)
  <1>1. PICK b : CutAt(gs, s, b, n, fanIn)
    BY DEF Grouped
  <1>2. /\ b \in [0..L -> Nat] /\ b[0] = 0 /\ b[L] = n
        /\ \A i \in 1..L : b[i] - b[i - 1] \in 1..fanIn
        /\ gs[j] = SubSeq(s, b[j - 1] + 1, b[j])
    BY <1>1 DEF CutAt
  <1>3. L \in Nat /\ j \in 1..L /\ Len(gs[j]) > 1
    OBVIOUS
  <1> HIDE DEF L
  <1>4. b[j] - b[j - 1] > 1
    <2> DEFINE lo == b[j - 1]
               hi == b[j]
               S == {s[i] : i \in (lo + 1)..hi}
    <2>1. j - 1 \in 0..L /\ j \in 0..L
      BY <1>3
    <2>2. lo \in Nat /\ hi \in Nat /\ hi - lo \in 1..fanIn /\ gs[j] = SubSeq(s, lo + 1, hi)
      BY <1>2, <1>3, <2>1
    <2> HIDE DEF lo, hi
    <2>3. lo + 1 \in Int /\ hi \in Int /\ \A i \in (lo + 1)..hi : s[i] \in S
      BY <2>2
    <2> HIDE DEF S
    <2>4. Len(SubSeq(s, lo + 1, hi)) = IF lo + 1 <= hi THEN hi - (lo + 1) + 1 ELSE 0
      BY <2>3, SubSeqProperties
    <2> QED
      BY <1>3, <2>2, <2>4 DEF lo, hi
  <1> DEFINE P == {k \in 0..L : b[k] >= k /\ (k >= j => b[k] >= k + 1)}
  <1>5. 0 \in P
    BY <1>2, <1>3
  <1>6. ASSUME NEW k \in 1..L, k - 1 \in P PROVE k \in P
    <2> DEFINE x == b[k - 1]
               y == b[k]
    <2>1. k \in 0..L /\ k - 1 \in 0..L
      BY <1>3
    <2>2. x \in Nat /\ y \in Nat /\ y - x \in 1..fanIn /\ x >= k - 1
          /\ (k - 1 >= j => x >= k)
      BY <1>2, <1>6, <2>1
    <2>3. k = j => y - x > 1
      BY <1>4
    <2> HIDE DEF x, y
    <2>4. y >= k /\ (k >= j => y >= k + 1)
      <3>1. k >= j => k - 1 >= j \/ k = j
        BY <1>3
      <3> QED
        BY <1>3, <2>2, <2>3, <3>1
    <2> QED
      BY <2>1, <2>4 DEF y
  <1> HIDE DEF P
  <1>7. \A k \in 1..L : k - 1 \in P => k \in P
    BY <1>6
  <1>8. \A k \in 0..L : k \in P
    BY <1>3, <1>5, <1>7, Induction
  <1>9. L \in P
    BY <1>3, <1>8
  <1>10. b[L] >= L + 1
    BY <1>3, <1>9 DEF P
  <1> QED
    BY <1>2, <1>3, <1>10 DEF L

(* Every level of reductions is shorter than the one before it, wherever   *)
(* the inputs are, so reducing comes to an end: advance_reduction_level    *)
(* plans another level as long as there is more than one output.           *)
THEOREM LevelsShrink ==
    ASSUME NEW S, NEW inputs \in Seq(S), Len(inputs) > 1,
           NEW fanIn \in Nat, fanIn >= 2
    PROVE  Len(ReductionGroups(inputs, fanIn)) \in 1..(Len(inputs) - 1)
  <1> DEFINE N == Len(inputs)
             gs == ReductionGroups(inputs, fanIn)
             L == Len(gs)
  <1>1. N \in Nat /\ N > 1 /\ fanIn \in Nat \ {0}
    OBVIOUS
  <1>2. gs \in Seq(Seq(S)) /\ Grouped(gs, inputs, N, fanIn)
    BY <1>1, GroupsInOrder
  <1>3. L \in Nat /\ DOMAIN gs = 1..L
    <2> HIDE DEF gs
    <2> QED
      BY <1>2
  <1>4. L # 0
    <2>1. PICK b : CutAt(gs, inputs, b, N, fanIn)
      BY <1>2 DEF Grouped
    <2>2. b[0] = 0 /\ b[L] = N
      BY <2>1 DEF CutAt
    <2> HIDE DEF L, N
    <2> QED
      BY <1>1, <2>2
  <1>5. CASE \E j \in DOMAIN gs : Len(gs[j]) > 1
    <2>1. PICK j \in 1..L : Len(gs[j]) > 1
      BY <1>3, <1>5
    <2> HIDE DEF gs, N
    <2>2. Len(gs) < N
      BY <1>1, <1>2, <1>3, <2>1, FewerGroups
    <2>3. L = Len(gs)
      OBVIOUS
    <2> HIDE DEF L
    <2>4. L \in 1..(N - 1)
      BY <1>1, <1>3, <1>4, <2>2, <2>3
    <2> QED
      BY <2>4 DEF L, N, gs
  <1>6. CASE gs = Chunks(inputs, fanIn)
    <2>1. fanIn * L <= N + fanIn - 1
      BY <1>1, <1>6, ChunksGrouped
    <2> HIDE DEF gs, N, L
    <2>2. L < N
      <3>1. SUFFICES ASSUME N <= L PROVE FALSE
        BY <1>1, <1>3
      <3>2. fanIn * N <= fanIn * L
        BY <1>1, <1>3, <3>1
      <3>3. fanIn * N <= N + fanIn - 1
        <4>1. fanIn * N \in Nat /\ fanIn * L \in Nat
          BY <1>1, <1>3
        <4> QED
          BY <1>1, <2>1, <3>2, <4>1
      <3>4. PICK f \in Nat : fanIn = f + 2
        BY <1>1, fanIn - 2 \in Nat
      <3>5. PICK m \in Nat : N = m + 2
        BY <1>1, N - 2 \in Nat
      <3>6. fanIn * N = f * m + 2 * f + 2 * m + 4 /\ f * m \in Nat
        BY <3>4, <3>5
      <3> QED
        BY <3>3, <3>4, <3>5, <3>6
    <2>3. L \in 1..(N - 1)
      BY <1>1, <1>3, <1>4, <2>2
    <2> QED
      BY <2>3 DEF L, N, gs
  <1>7. (\E j \in DOMAIN gs : Len(gs[j]) > 1) \/ gs = Chunks(inputs, fanIn)
    BY DEF ReductionGroups
  <1> QED
    BY <1>5, <1>6, <1>7

-----------------------------------------------------------------------------
(* What the planner makes of a job.                                        *)

Listed(s) == \E S : s \in Seq(S)

(* The inductive invariant: the outputs of a level are a sequence, and     *)
(* those of the shards are not empty.                                      *)
Levels ==
    /\ job \in Program
    /\ Listed(items)
    /\ phase = "shards" => Len(items) # 0
    /\ next \in Nat \ {0}

LEMMA ListedFunction ==
    ASSUME NEW m \in Nat, NEW f, f = [i \in 1..m |-> f[i]]
    PROVE  Listed(f) /\ Len(f) = m
  <1> DEFINE S == {f[i] : i \in 1..m}
  <1>1. f \in [1..m -> S]
    OBVIOUS
  <1> HIDE DEF S
  <1>2. f \in Seq(S) /\ Len(f) = m
    BY <1>1
  <1> QED
    BY <1>2 DEF Listed

LEMMA ListedFacts ==
    ASSUME NEW s, Listed(s)
    PROVE  Len(s) \in Nat /\ DOMAIN s = 1..Len(s) /\ s \in [1..Len(s) -> {s[i] : i \in 1..Len(s)}]
  <1>1. PICK S : s \in Seq(S)
    BY DEF Listed
  <1>2. Len(s) \in Nat /\ DOMAIN s = 1..Len(s) /\ s \in [1..Len(s) -> S]
    BY <1>1
  <1> QED
    BY <1>2

(* A level is planned of outputs that are a sequence, and is one.          *)
LEMMA AdvanceKeepsLevels ==
    ASSUME Levels, NEW new, Listed(new), Len(new) = Len(items), Advance(new)
    PROVE  Listed(items') /\ (phase' = "shards" => phase = "shards" /\ Len(items') = Len(items))
  <1> DEFINE level == ReductionGroups(new, job.fanIn)
  <1>1. \/ /\ job.reduce # "none" /\ phase' = "reducing"
           /\ items' = [i \in DOMAIN level |->
                          IF Len(level[i]) = 1 THEN level[i][1] ELSE Waiting]
        \/ items' = new /\ (phase' = "chain" \/ phase' = phase)
    BY DEF Advance
  <1>2. CASE items' = new /\ (phase' = "chain" \/ phase' = phase)
    BY <1>2
  <1>3. CASE /\ job.reduce # "none" /\ phase' = "reducing"
             /\ items' = [i \in DOMAIN level |->
                            IF Len(level[i]) = 1 THEN level[i][1] ELSE Waiting]
    <2>1. job.fanIn \in Nat \ {0}
      BY <1>3, ProgramAssumption DEF Levels
    <2>2. PICK S : new \in Seq(S)
      BY DEF Listed
    <2>3. level \in Seq(Seq(S))
      BY <2>1, <2>2, GroupsInOrder
    <2>4. Len(level) \in Nat /\ DOMAIN level = 1..Len(level)
      <3> HIDE DEF level
      <3> QED
        BY <2>3
    <2> DEFINE m == Len(level)
    <2>5. items' = [i \in 1..m |-> items'[i]] /\ m \in Nat
      BY <1>3, <2>4
    <2> HIDE DEF m
    <2>6. Listed(items')
      BY <2>5, ListedFunction
    <2> QED
      BY <1>3, <2>6
  <1> QED
    BY <1>1, <1>2, <1>3

(* The output of one task of a level is there.                             *)
LEMMA ReplacedListed ==
    ASSUME NEW s, Listed(s), NEW i \in DOMAIN s, NEW e
    PROVE  Listed([s EXCEPT ![i] = e]) /\ Len([s EXCEPT ![i] = e]) = Len(s)
  <1> DEFINE w == [s EXCEPT ![i] = e]
             m == Len(s)
  <1>1. m \in Nat /\ DOMAIN s = 1..m
    BY ListedFacts
  <1>2. w = [k \in 1..m |-> w[k]]
    BY <1>1
  <1> HIDE DEF w, m
  <1>3. Listed(w) /\ Len(w) = m
    BY <1>1, <1>2, ListedFunction
  <1> QED
    BY <1>3 DEF w, m

LEMMA StepKeepsLevels ==
    ASSUME Levels, [Next]_vars
    PROVE  Levels'
  <1>1. ASSUME NEW count \in ShardCounts(job), PlanShards(count)
        PROVE  Levels'
    <2>1. job' = job /\ next' = next /\ items' = [i \in 1..count |-> Waiting]
      BY <1>1 DEF PlanShards
    <2>2. count \in Nat /\ count # 0
      <3>1. CASE job.auto
        <4>1. PICK x : count \in 1..x
          BY <1>1, <3>1 DEF ShardCounts
        <4> QED
          BY <4>1
      <3>2. CASE ~job.auto
        BY <1>1, <3>2, ProgramAssumption DEF ShardCounts, Levels
      <3> QED
        BY <3>1, <3>2
    <2>3. items' = [i \in 1..count |-> items'[i]]
      BY <2>1
    <2>4. Listed(items') /\ Len(items') = count
      BY <2>2, <2>3, ListedFunction
    <2> QED
      BY <2>1, <2>2, <2>4 DEF Levels
  <1>2. ASSUME NEW r \in Resource, NEW i \in DOMAIN items,
               RunShard(i, r) \/ RunReduction(i, r)
        PROVE  Levels'
    <2>1. job' = job /\ next' = next
      BY <1>2 DEF RunShard, RunReduction
    <2>2. \/ \E o : Advance([items EXCEPT ![i] = o])
          \/ Stop
      <3>1. CASE RunShard(i, r)
        BY <3>1 DEF RunShard
      <3>2. CASE RunReduction(i, r)
        BY <3>2 DEF RunReduction
      <3> QED
        BY <1>2, <3>1, <3>2
    <2>3. CASE Stop
      BY <2>1, <2>3 DEF Stop, Levels
    <2>4. CASE \E o : Advance([items EXCEPT ![i] = o])
      <3>1. PICK o : Advance([items EXCEPT ![i] = o])
        BY <2>4
      <3> DEFINE new == [items EXCEPT ![i] = o]
      <3>2. Listed(new) /\ Len(new) = Len(items)
        BY ReplacedListed DEF Levels
      <3>3. Advance(new)
        BY <3>1
      <3> HIDE DEF new
      <3>4. Listed(items') /\ (phase' = "shards" => phase = "shards" /\ Len(items') = Len(items))
        BY <3>2, <3>3, AdvanceKeepsLevels
      <3> QED
        BY <2>1, <3>4 DEF Levels
    <2> QED
      BY <2>2, <2>3, <2>4
  <1>3. ASSUME NEW r \in Resource, NEW n \in DOMAIN job.chain, RunChain(n, r)
        PROVE  Levels'
    <2>1. job' = job /\ next' = next + n /\ phase = "chain"
      BY <1>3 DEF RunChain
    <2>2. \/ phase' = "stopped" /\ items' = items
          \/ phase' \in {"done", "chain"} /\ \E x : items' = <<x>>
      BY <1>3 DEF RunChain, Stop
    <2>3. n \in Nat
      <3>1. job.chain \in Seq(TaskTemplate)
        BY ProgramAssumption DEF Levels
      <3> QED
        BY <3>1
    <2>4. next' \in Nat \ {0}
      BY <2>1, <2>3 DEF Levels
    <2>5. Listed(items')
      <3>1. ASSUME NEW x PROVE Listed(<<x>>)
        <4>1. <<x>> \in Seq({x})
          OBVIOUS
        <4> QED
          BY <4>1 DEF Listed
      <3> QED
        BY <2>2, <3>1 DEF Levels
    <2>6. phase' # "shards"
      BY <2>2
    <2> QED
      BY <2>1, <2>4, <2>5, <2>6 DEF Levels
  <1>4. CASE UNCHANGED vars
    BY <1>4 DEF vars, Levels
  <1> QED
    BY <1>1, <1>2, <1>3, <1>4 DEF Next

LEMMA ShardsAdmitted ==
    ASSUME Levels, phase = "shards", NEW i \in DOMAIN items
    PROVE  ValidCut(ShardCut(job, i, Len(items)), Len(Source(job)))
  <1> DEFINE count == Len(items)
             size == Len(Source(job))
             k == i - 1
  <1>1. /\ Source(job) \in Seq(0..(Base - 1)) /\ job.byRecords \in BOOLEAN
        /\ job.byRecords => /\ job.offsets \in Seq(Nat)
                            /\ ValidRecordOffsets(job.offsets, size)
    BY ProgramAssumption DEF Levels, Source
  <1>2. size \in Nat
    BY <1>1
  <1>3. count \in Nat /\ DOMAIN items = 1..count /\ count # 0
    BY ListedFacts DEF Levels
  <1> HIDE DEF count, size
  <1>4. count \in Nat \ {0} /\ k \in 0..(count - 1)
    BY <1>3
  <1>5. ShardCut(job, i, count) = ConcretePartition(job.byRecords, job.offsets, size, k, count)
    BY DEF ShardCut, size
  <1> HIDE DEF k
  <1>6. CASE job.byRecords
    <2>1. job.byRecords = TRUE
      BY <1>1, <1>6
    <2>2. ValidCut(ConcretePartition(TRUE, job.offsets, size, k, count), size)
      BY <1>1, <1>2, <1>4, <1>6, RecordCutAdmitted
    <2> QED
      BY <1>5, <2>1, <2>2 DEF count, size
  <1>7. CASE ~job.byRecords
    <2>1. job.byRecords = FALSE
      BY <1>1, <1>7
    <2>2. ValidCut(ConcretePartition(FALSE, job.offsets, size, k, count), size)
      BY <1>2, <1>4, ByteCutAdmitted
    <2> QED
      BY <1>5, <2>1, <2>2 DEF count, size
  <1> QED
    BY <1>6, <1>7

LEMMA ChainAdmitted ==
    ASSUME Levels, NEW n \in next..Len(job.chain), n > next,
           MayFuse(SubSeq(job.chain, next, n))
    PROVE  LET templates == SubSeq(job.chain, next, n)
           IN  ValidPipeline(FusedPipelineTask(templates, Dependencies))
                 <=> \A i \in DOMAIN templates : templates[i].entry = "run"
  <1> DEFINE chain == job.chain
             templates == SubSeq(chain, next, n)
             deps == Dependencies
             S == ObjectId \cup {<<"output", i>> : i \in DOMAIN items}
  <1>1. chain \in Seq(TaskTemplate) /\ next \in Nat \ {0}
    BY ProgramAssumption DEF Levels
  <1>2. templates \in Seq(TaskTemplate) /\ Len(templates) = n - next + 1
    <2> DEFINE lo == next - 1
    <2>1. lo \in Nat /\ n \in 0..Len(chain) /\ lo <= n /\ lo + 1 = next /\ n - lo = n - next + 1
      BY <1>1
    <2> HIDE DEF lo, chain
    <2>2. SubSeq(chain, lo + 1, n) \in Seq(TaskTemplate) /\ Len(SubSeq(chain, lo + 1, n)) = n - lo
      BY <1>1, <2>1, SubSeqFacts
    <2> QED
      BY <2>1, <2>2
  <1>3. deps \in Seq(S)
    <2>1. DOMAIN items = 1..Len(items) /\ Len(items) \in Nat
      BY ListedFacts DEF Levels
    <2>2. deps = [i \in 1..Len(items) |-> <<"output", i>>]
      BY <2>1 DEF Dependencies
    <2>3. \A i \in 1..Len(items) : <<"output", i>> \in S
      BY <2>1
    <2> HIDE DEF deps, S
    <2>4. deps \in [1..Len(items) -> S]
      BY <2>2, <2>3
    <2> QED
      BY <2>1, <2>4
  <1>4. \A t \in TaskTemplate : t.inputs \in Seq(S)
    <2>1. \A t \in TaskTemplate : t.inputs \in Seq(ObjectId)
      BY DEF TaskTemplate
    <2>2. \A q \in Seq(ObjectId) : q \in Seq(S)
      <3>1. ObjectId \subseteq S
        OBVIOUS
      <3> HIDE DEF S
      <3> QED
        BY <3>1, SeqMonotonic
    <2> HIDE DEF S
    <2> QED
      BY <2>1, <2>2
  <1>5. MayFuse(templates)
    OBVIOUS
  <1> HIDE DEF templates, deps, S
  <1>6. Len(templates) \in Nat /\ Len(templates) >= 2 /\ DOMAIN templates = 1..Len(templates)
    BY <1>1, <1>2
  <1>7. \A i \in 1..Len(templates) : templates[i].inputs \in Seq(S)
    BY <1>2, <1>4, ElementOfSeq
  <1>8. Fusible(templates, deps, S)
    BY <1>3, <1>6, <1>7 DEF Fusible
  <1>9. ValidPipeline(FusedPipelineTask(templates, deps))
          <=> \A i \in DOMAIN templates : templates[i].entry = "run"
    BY <1>5, <1>8, PipelineAdmission
  <1> QED
    BY <1>9 DEF templates, deps

(* The entrypoint is the only reason for which validate_task refuses what  *)
(* the planner makes of a job: it admits the cut of every shard, however   *)
(* many there are, and, of the parts of the chain that may be fused, the   *)
(* pipelines of those whose entrypoints are all "run" and no others.       *)
THEOREM OnlyEntrypointRefusedHolds == Spec => []OnlyEntrypointRefused
  <1>1. Init => Levels
    <2> SUFFICES ASSUME Init PROVE Levels
      OBVIOUS
    <2>1. items \in Seq({}) /\ job \in Program /\ phase = "planning" /\ next = 1
      BY DEF Init
    <2> QED
      BY <2>1 DEF Levels, Listed
  <1>2. Levels /\ [Next]_vars => Levels'
    BY StepKeepsLevels
  <1>3. Levels => OnlyEntrypointRefused
    BY ShardsAdmitted, ChainAdmitted DEF OnlyEntrypointRefused
  <1> QED
    BY <1>1, <1>2, <1>3, PTL DEF Spec

-----------------------------------------------------------------------------
(* execute_builtin_operation and execute_pipeline.                         *)

IsOutcome(o) == o = Fail \/ \E x : o = Ok(x)

LEMMA OutcomeFacts ==
    ASSUME NEW o, IsOutcome(o)
    PROVE  /\ o.ok \in BOOLEAN
           /\ o.ok => o = Ok(o.bytes)
           /\ ~o.ok => o = Fail
  <1>1. ~Fail.ok /\ Fail.ok \in BOOLEAN
    BY DEF Fail
  <1>2. ASSUME NEW x PROVE Ok(x).ok = TRUE /\ Ok(x).bytes = x
    BY DEF Ok
  <1> QED
    BY <1>1, <1>2 DEF IsOutcome

LEMMA CheckedSumOutcome ==
    ASSUME NEW values
    PROVE  IsOutcome(CheckedSum(values))
  BY DEF CheckedSum, IsOutcome

LEMMA BuiltinOutcome ==
    ASSUME NEW op, NEW args, NEW inputs, NEW shard
    PROVE  IsOutcome(ExecuteBuiltin(op, args, inputs, shard))
  <1> DEFINE first == IF inputs = <<>> THEN Fail ELSE Ok(inputs[1])
             sharded(o) == IF shard = NoShard THEN Fail ELSE o
             words == IF \A i \in DOMAIN inputs : Len(inputs[i]) = WordLen
                      THEN CheckedSum([i \in DOMAIN inputs |-> FromLeBytes(inputs[i])])
                      ELSE Fail
             records == IF inputs = <<>> THEN Fail ELSE CheckedSum(Records(inputs[1]))
             result == ExecuteBuiltin(op, args, inputs, shard)
  <1>1. IsOutcome(Fail) /\ \A x : IsOutcome(Ok(x))
    BY DEF IsOutcome
  <1>2. IsOutcome(first)
    BY <1>1
  <1>3. IsOutcome(words) /\ IsOutcome(records)
    BY <1>1, CheckedSumOutcome
  <1>4. \A o : IsOutcome(o) => IsOutcome(sharded(o))
    BY <1>1
  <1>5. CASE op = "identity"
    BY <1>2, <1>5 DEF ExecuteBuiltin
  <1>6. CASE op = "concat"
    BY <1>1, <1>6 DEF ExecuteBuiltin
  <1>7. CASE op = "echo"
    BY <1>1, <1>7 DEF ExecuteBuiltin
  <1>8. CASE op = "sleep"
    BY <1>1, <1>2, <1>8 DEF ExecuteBuiltin
  <1>9. CASE op \in {"shard-echo", "shard-sleep"}
    <2>1. result = sharded(Ok(args \o <<shard.index, shard.count>>))
      BY <1>9 DEF ExecuteBuiltin
    <2> QED
      BY <1>1, <2>1
  <1>10. CASE op = "shard-sleep-input"
    <2>1. result = sharded(first)
      BY <1>10 DEF ExecuteBuiltin
    <2> QED
      BY <1>2, <1>4, <2>1
  <1>11. CASE op = "sum-records-u64"
    <2>1. result = sharded(records)
      BY <1>11 DEF ExecuteBuiltin
    <2> QED
      BY <1>3, <1>4, <2>1
  <1>12. CASE op = "sum-u64"
    <2>1. result = words
      BY <1>12 DEF ExecuteBuiltin
    <2> QED
      BY <1>3, <2>1
  <1>13. CASE op \notin {"identity", "concat", "echo", "sleep", "shard-echo", "shard-sleep",
                        "shard-sleep-input", "sum-records-u64", "sum-u64"}
    <2>1. result = Fail
      BY <1>13 DEF ExecuteBuiltin
    <2> QED
      BY <1>1, <2>1
  <1> QED
    BY <1>5, <1>6, <1>7, <1>8, <1>9, <1>10, <1>11, <1>12, <1>13

(* One stage, after the outcome prev.                                      *)
BoundTo(inputs, prev, b) == IF b = PreviousOutput THEN prev.bytes ELSE inputs[b.index]

RunStage(stages, inputs, shard, prev, i) ==
    IF prev.ok /\ \A b \in Range(stages[i].inputs) :
                     IF b = PreviousOutput THEN i > 1 ELSE b.index \in DOMAIN inputs
    THEN ExecuteBuiltin(stages[i].op, stages[i].args,
           [k \in DOMAIN stages[i].inputs |-> BoundTo(inputs, prev, stages[i].inputs[k])],
           shard)
    ELSE Fail

(* The function by which ExecutePipeline is defined.                       *)
PipelineAfter(stages, inputs, shard, g) ==
    g = [i \in 0..Len(stages) |->
           IF i = 0 THEN Ok(<<>>) ELSE RunStage(stages, inputs, shard, g[i - 1], i)]

LEMMA PipelineIs ==
    ASSUME NEW stages, NEW inputs, NEW shard, Len(stages) \in Nat, Len(stages) >= 2
    PROVE  ExecutePipeline(stages, inputs, shard)
             = (CHOOSE g : PipelineAfter(stages, inputs, shard, g))[Len(stages)]
  <1>1. ~(Len(stages) < 2)
    OBVIOUS
  <1> QED
    BY <1>1 DEF ExecutePipeline, PipelineAfter, RunStage, BoundTo

LEMMA PipelineRecurs ==
    ASSUME NEW stages, NEW inputs, NEW shard, Len(stages) \in Nat, Len(stages) >= 2
    PROVE  \E g : /\ g[0] = Ok(<<>>)
                  /\ \A n \in 1..Len(stages) : g[n] = RunStage(stages, inputs, shard, g[n - 1], n)
                  /\ ExecutePipeline(stages, inputs, shard) = g[Len(stages)]
  <1> DEFINE N == Len(stages)
             Upto(f, n) == /\ DOMAIN f = 0..n /\ f[0] = Ok(<<>>)
                           /\ \A k \in 1..n : f[k] = RunStage(stages, inputs, shard, f[k - 1], k)
             P == {n \in 0..N : \E f : Upto(f, n)}
  <1>1. N \in Nat
    OBVIOUS
  <1> HIDE DEF N
  <1>2. 0 \in P
    <2> DEFINE f == [k \in 0..0 |-> Ok(<<>>)]
    <2>1. DOMAIN f = 0..0 /\ f[0] = Ok(<<>>) /\ \A k \in 1..0 : FALSE
      OBVIOUS
    <2> HIDE DEF f
    <2>2. Upto(f, 0)
      BY <2>1
    <2> HIDE DEF Upto
    <2> QED
      BY <1>1, <2>2, 0 \in 0..N
  <1>3. ASSUME NEW n \in 1..N, n - 1 \in P PROVE n \in P
    <2> DEFINE m == n - 1
    <2>1. m \in Nat /\ n = m + 1 /\ m \in P /\ n \in 0..N
      BY <1>3
    <2> HIDE DEF m
    <2>2. PICK f : Upto(f, m)
      <3> HIDE DEF Upto
      <3> QED
        BY <2>1
    <2> DEFINE h == [k \in 0..n |-> IF k = n THEN RunStage(stages, inputs, shard, f[m], n) ELSE f[k]]
    <2>3. \A k \in 0..m : k \in 0..n /\ k # n
      BY <2>1
    <2>4. DOMAIN h = 0..n /\ h[n] = RunStage(stages, inputs, shard, f[m], n)
      BY <2>1
    <2>5. \A k \in 0..m : h[k] = f[k]
      BY <2>3
    <2> HIDE DEF h
    <2>6. h[0] = Ok(<<>>)
      BY <2>1, <2>2, <2>5
    <2>7. ASSUME NEW k \in 1..n
          PROVE  h[k] = RunStage(stages, inputs, shard, h[k - 1], k)
      <3>1. CASE k = n
        <4>1. k - 1 = m /\ m \in 0..m
          BY <2>1, <3>1
        <4>2. h[k - 1] = f[m]
          BY <2>5, <4>1
        <4> QED
          BY <2>4, <3>1, <4>2
      <3>2. CASE k # n
        <4>1. k \in 1..m /\ k \in 0..m /\ k - 1 \in 0..m
          BY <2>1, <3>2
        <4>2. h[k] = f[k] /\ h[k - 1] = f[k - 1]
          BY <2>5, <4>1
        <4> QED
          BY <2>2, <4>1, <4>2
      <3> QED
        BY <3>1, <3>2
    <2>8. Upto(h, n)
      BY <2>4, <2>6, <2>7
    <2> HIDE DEF Upto
    <2> QED
      BY <2>1, <2>8
  <1> HIDE DEF P
  <1>4. \A n \in 1..N : n - 1 \in P => n \in P
    BY <1>3
  <1>5. \A n \in 0..N : n \in P
    BY <1>1, <1>2, <1>4, Induction
  <1>6. N \in P
    BY <1>1, <1>5
  <1>7. PICK f : Upto(f, N)
    <2> HIDE DEF Upto
    <2> QED
      BY <1>6 DEF P
  <1> DEFINE u == [n \in 0..N |-> f[n]]
  <1>8. PipelineAfter(stages, inputs, shard, u)
    <2>1. ASSUME NEW n \in 0..N
          PROVE  u[n] = IF n = 0 THEN Ok(<<>>) ELSE RunStage(stages, inputs, shard, u[n - 1], n)
      <3>1. CASE n = 0
        BY <1>7, <3>1
      <3>2. CASE n # 0
        <4>1. n \in 1..N /\ n - 1 \in 0..N
          BY <1>1, <3>2
        <4>2. u[n] = f[n] /\ u[n - 1] = f[n - 1]
          BY <4>1
        <4>3. f[n] = RunStage(stages, inputs, shard, f[n - 1], n)
          BY <1>7, <4>1
        <4> QED
          BY <3>2, <4>2, <4>3
      <3> QED
        BY <3>1, <3>2
    <2>2. u = [n \in 0..N |-> u[n]]
      OBVIOUS
    <2> HIDE DEF u
    <2>3. u = [n \in 0..N |-> IF n = 0 THEN Ok(<<>>) ELSE RunStage(stages, inputs, shard, u[n - 1], n)]
      BY <2>1, <2>2
    <2> QED
      BY <2>3 DEF PipelineAfter, N
  <1> DEFINE g == CHOOSE v : PipelineAfter(stages, inputs, shard, v)
  <1>9. PipelineAfter(stages, inputs, shard, g)
    BY <1>8
  <1> HIDE DEF g
  <1>10. \A n \in 0..N : g[n] = IF n = 0 THEN Ok(<<>>) ELSE RunStage(stages, inputs, shard, g[n - 1], n)
    BY <1>9 DEF PipelineAfter, N
  <1>11. g[0] = Ok(<<>>) /\ \A n \in 1..N : g[n] = RunStage(stages, inputs, shard, g[n - 1], n)
    <2>1. 0 \in 0..N /\ \A n \in 1..N : n \in 0..N /\ n # 0
      BY <1>1
    <2> QED
      BY <1>10, <2>1
  <1>12. ExecutePipeline(stages, inputs, shard) = g[Len(stages)]
    BY PipelineIs DEF g
  <1> QED
    BY <1>11, <1>12 DEF N

-----------------------------------------------------------------------------
(* The job as written.                                                     *)

(* The next role, after the outcome prev.                                  *)
RunRole(j, prev, n) ==
    IF prev.ok THEN RoleOutcome(j.chain[n], <<prev.bytes>>) ELSE Fail

(* The function by which AsWritten is defined.                             *)
WrittenAfter(j, g) ==
    g = [n \in 0..Len(j.chain) |-> IF n = 0 THEN AsOneTask(j) ELSE RunRole(j, g[n - 1], n)]

Written(j) == CHOOSE g : WrittenAfter(j, g)

LEMMA AsWrittenIs ==
    ASSUME NEW j
    PROVE  AsWritten(j) = Written(j)[Len(j.chain)]
  BY DEF AsWritten, Written, WrittenAfter, RunRole

LEMMA WrittenFacts ==
    ASSUME NEW j, Len(j.chain) \in Nat
    PROVE  /\ Written(j)[0] = AsOneTask(j)
           /\ \A n \in 1..Len(j.chain) : Written(j)[n] = RunRole(j, Written(j)[n - 1], n)
           /\ AsWritten(j) = Written(j)[Len(j.chain)]
  <1> DEFINE N == Len(j.chain)
             Upto(f, n) == /\ DOMAIN f = 0..n /\ f[0] = AsOneTask(j)
                           /\ \A k \in 1..n : f[k] = RunRole(j, f[k - 1], k)
             P == {n \in 0..N : \E f : Upto(f, n)}
  <1>1. N \in Nat
    OBVIOUS
  <1> HIDE DEF N
  <1>2. 0 \in P
    <2> DEFINE f == [k \in 0..0 |-> AsOneTask(j)]
    <2>1. DOMAIN f = 0..0 /\ f[0] = AsOneTask(j) /\ \A k \in 1..0 : FALSE
      OBVIOUS
    <2> HIDE DEF f
    <2>2. Upto(f, 0)
      BY <2>1
    <2> HIDE DEF Upto
    <2> QED
      BY <1>1, <2>2, 0 \in 0..N
  <1>3. ASSUME NEW n \in 1..N, n - 1 \in P PROVE n \in P
    <2> DEFINE m == n - 1
    <2>1. m \in Nat /\ n = m + 1 /\ m \in P /\ n \in 0..N
      BY <1>3
    <2> HIDE DEF m
    <2>2. PICK f : Upto(f, m)
      <3> HIDE DEF Upto
      <3> QED
        BY <2>1
    <2> DEFINE h == [k \in 0..n |-> IF k = n THEN RunRole(j, f[m], n) ELSE f[k]]
    <2>3. \A k \in 0..m : k \in 0..n /\ k # n
      BY <2>1
    <2>4. DOMAIN h = 0..n /\ h[n] = RunRole(j, f[m], n)
      BY <2>1
    <2>5. \A k \in 0..m : h[k] = f[k]
      BY <2>3
    <2> HIDE DEF h
    <2>6. h[0] = AsOneTask(j)
      BY <2>1, <2>2, <2>5
    <2>7. ASSUME NEW k \in 1..n
          PROVE  h[k] = RunRole(j, h[k - 1], k)
      <3>1. CASE k = n
        <4>1. k - 1 = m /\ m \in 0..m
          BY <2>1, <3>1
        <4>2. h[k - 1] = f[m]
          BY <2>5, <4>1
        <4> QED
          BY <2>4, <3>1, <4>2
      <3>2. CASE k # n
        <4>1. k \in 1..m /\ k \in 0..m /\ k - 1 \in 0..m
          BY <2>1, <3>2
        <4>2. h[k] = f[k] /\ h[k - 1] = f[k - 1]
          BY <2>5, <4>1
        <4> QED
          BY <2>2, <4>1, <4>2
      <3> QED
        BY <3>1, <3>2
    <2>8. Upto(h, n)
      BY <2>4, <2>6, <2>7
    <2> HIDE DEF Upto
    <2> QED
      BY <2>1, <2>8
  <1> HIDE DEF P
  <1>4. \A n \in 1..N : n - 1 \in P => n \in P
    BY <1>3
  <1>5. \A n \in 0..N : n \in P
    BY <1>1, <1>2, <1>4, Induction
  <1>6. N \in P
    BY <1>1, <1>5
  <1>7. PICK f : Upto(f, N)
    <2> HIDE DEF Upto
    <2> QED
      BY <1>6 DEF P
  <1> DEFINE u == [n \in 0..N |-> f[n]]
  <1>8. WrittenAfter(j, u)
    <2>1. ASSUME NEW n \in 0..N
          PROVE  u[n] = IF n = 0 THEN AsOneTask(j) ELSE RunRole(j, u[n - 1], n)
      <3>1. CASE n = 0
        BY <1>7, <3>1
      <3>2. CASE n # 0
        <4>1. n \in 1..N /\ n - 1 \in 0..N
          BY <1>1, <3>2
        <4>2. u[n] = f[n] /\ u[n - 1] = f[n - 1]
          BY <4>1
        <4>3. f[n] = RunRole(j, f[n - 1], n)
          BY <1>7, <4>1
        <4> QED
          BY <3>2, <4>2, <4>3
      <3> QED
        BY <3>1, <3>2
    <2>2. u = [n \in 0..N |-> u[n]]
      OBVIOUS
    <2> HIDE DEF u
    <2>3. u = [n \in 0..N |-> IF n = 0 THEN AsOneTask(j) ELSE RunRole(j, u[n - 1], n)]
      BY <2>1, <2>2
    <2> QED
      BY <2>3 DEF WrittenAfter, N
  <1> DEFINE g == Written(j)
  <1>9. WrittenAfter(j, g)
    BY <1>8 DEF Written
  <1> HIDE DEF g
  <1>10. \A n \in 0..N : g[n] = IF n = 0 THEN AsOneTask(j) ELSE RunRole(j, g[n - 1], n)
    BY <1>9 DEF WrittenAfter, N
  <1>11. g[0] = AsOneTask(j) /\ \A n \in 1..N : g[n] = RunRole(j, g[n - 1], n)
    <2>1. 0 \in 0..N /\ \A n \in 1..N : n \in 0..N /\ n # 0
      BY <1>1
    <2> QED
      BY <1>10, <2>1
  <1>12. AsWritten(j) = g[N]
    BY AsWrittenIs DEF g, N
  <1> QED
    BY <1>11, <1>12 DEF N, g

-----------------------------------------------------------------------------
(* A fused pipeline computes what its roles compute one after the other.   *)

(* How to recognise a concatenation.                                       *)
Joins(f, c, d) ==
    /\ DOMAIN f = 1..(Len(c) + Len(d))
    /\ f = [k \in DOMAIN f |-> f[k]]
    /\ \A k \in 1..Len(c) : f[k] = c[k]
    /\ \A k \in 1..Len(d) : f[Len(c) + k] = d[k]

LEMMA ConcatIs ==
    ASSUME NEW f, NEW c, NEW d, Listed(c), Listed(d), Joins(f, c, d)
    PROVE  f = c \o d
  <1> DEFINE m == Len(c)
             n == Len(d)
             S == {c[k] : k \in 1..m} \cup {d[k] : k \in 1..n}
             u == c \o d
  <1>1. /\ m \in Nat /\ c \in [1..m -> {c[k] : k \in 1..m}]
        /\ n \in Nat /\ d \in [1..n -> {d[k] : k \in 1..n}]
    BY ListedFacts
  <1>2. c \in [1..m -> S] /\ d \in [1..n -> S]
    BY <1>1
  <1>3. m = Len(c) /\ n = Len(d)
    OBVIOUS
  <1> HIDE DEF S, m, n
  <1>4. c \in Seq(S) /\ d \in Seq(S)
    <2>1. m \in Nat /\ n \in Nat
      BY <1>1
    <2>2. c \in Seq(S)
      BY <1>2, <2>1
    <2>3. d \in Seq(S)
      BY <1>2, <2>1
    <2> QED
      BY <2>2, <2>3
  <1>5. /\ u \in Seq(S) /\ Len(u) = m + n
        /\ \A i \in 1..(m + n) : u[i] = IF i <= m THEN c[i] ELSE d[i - m]
    BY <1>3, <1>4, ConcatProperties
  <1> HIDE DEF u
  <1>6. /\ DOMAIN f = 1..(m + n) /\ f = [k \in 1..(m + n) |-> f[k]]
        /\ \A k \in 1..m : f[k] = c[k]
        /\ \A k \in 1..n : f[m + k] = d[k]
    BY <1>3 DEF Joins
  <1>7. ASSUME NEW i \in 1..(m + n) PROVE f[i] = u[i]
    <2>1. CASE i <= m
      <3>1. i \in 1..m
        BY <1>1, <2>1
      <3>2. f[i] = c[i]
        BY <1>6, <3>1
      <3> QED
        BY <1>5, <2>1, <3>2
    <2>2. CASE ~(i <= m)
      <3>1. i - m \in 1..n /\ m + (i - m) = i
        BY <1>1, <2>2
      <3>2. f[m + (i - m)] = d[i - m]
        BY <1>6, <3>1
      <3> QED
        BY <1>5, <2>2, <3>1, <3>2
    <2> QED
      BY <2>1, <2>2
  <1>8. u = [k \in 1..(m + n) |-> u[k]]
    BY <1>1, <1>5
  <1>9. f = u
    BY <1>6, <1>7, <1>8
  <1> QED
    BY <1>9 DEF u

(* The bytes of the published objects that a template has for inputs.      *)
Contents(t) == [i \in DOMAIN t.inputs |-> Content[t.inputs[i][2]]]

LEMMA ObjectBytes ==
    ASSUME NEW id \in ObjectId
    PROVE  BytesOf(id) = Content[id[2]]
  <1>1. id[1] = "object"
    BY DEF ObjectId
  <1>2. "object" # "output"
    OBVIOUS
  <1> QED
    BY <1>1, <1>2 DEF BytesOf

LEMMA OutputBytes ==
    ASSUME NEW k
    PROVE  BytesOf(<<"output", k>>) = items[k].bytes
  BY DEF BytesOf

LEMMA LaterBytes ==
    ASSUME NEW t, t.inputs \in Seq(ObjectId)
    PROVE  [k \in DOMAIN t.inputs |-> BytesOf(t.inputs[k])] = Contents(t)
  <1> DEFINE own == t.inputs
  <1>1. own \in Seq(ObjectId)
    OBVIOUS
  <1>2. Contents(t) = [k \in DOMAIN own |-> Content[own[k][2]]]
    BY DEF Contents
  <1> HIDE DEF own
  <1>3. \A k \in DOMAIN own : BytesOf(own[k]) = Content[own[k][2]]
    BY <1>1, ObjectBytes
  <1>4. [k \in DOMAIN own |-> BytesOf(own[k])] = Contents(t)
    BY <1>2, <1>3
  <1> QED
    BY <1>4 DEF own

LEMMA BytesFacts ==
    ASSUME NEW s, Listed(s)
    PROVE  /\ Listed(Bytes(s)) /\ Len(Bytes(s)) = Len(s) /\ DOMAIN Bytes(s) = 1..Len(s)
           /\ \A k \in 1..Len(s) : Bytes(s)[k] = s[k].bytes
  <1> DEFINE b == Bytes(s)
  <1>1. Len(s) \in Nat /\ DOMAIN s = 1..Len(s)
    BY ListedFacts
  <1>2. b = [k \in 1..Len(s) |-> s[k].bytes]
    BY <1>1 DEF Bytes
  <1>3. b = [k \in 1..Len(s) |-> b[k]]
    BY <1>2
  <1>4. Listed(b) /\ Len(b) = Len(s)
    BY <1>1, <1>3, ListedFunction
  <1> QED
    BY <1>2, <1>4

(* What the first of several roles, or a role on its own, is given.        *)
LEMMA FirstBytes ==
    ASSUME Listed(items), NEW t, t.inputs \in Seq(ObjectId)
    PROVE  LET own == t.inputs \o Dependencies
           IN  /\ DOMAIN own = 1..Len(own) /\ Len(own) \in Nat
               /\ [k \in DOMAIN own |-> BytesOf(own[k])] = Contents(t) \o Bytes(items)
  <1> DEFINE ins == t.inputs
             deps == Dependencies
             own == ins \o deps
             m == Len(ins)
             n == Len(items)
             S == ObjectId \cup {<<"output", i>> : i \in 1..n}
             f == [k \in DOMAIN own |-> BytesOf(own[k])]
  <1>1. n \in Nat /\ DOMAIN items = 1..n
    BY ListedFacts
  <1>2. ins \in Seq(ObjectId) /\ m \in Nat /\ DOMAIN ins = 1..m
    OBVIOUS
  <1>3. deps = [i \in 1..n |-> <<"output", i>>]
    BY <1>1 DEF Dependencies
  <1>4. deps \in Seq(S) /\ Len(deps) = n
    <2>1. \A i \in 1..n : <<"output", i>> \in S
      OBVIOUS
    <2> HIDE DEF S, deps, n
    <2>2. deps \in [1..n -> S]
      BY <1>3, <2>1
    <2> QED
      BY <1>1, <2>2
  <1>5. ins \in Seq(S)
    <2>1. ObjectId \subseteq S
      OBVIOUS
    <2> HIDE DEF S, ins
    <2> QED
      BY <1>2, <2>1, SeqMonotonic
  <1>6. Contents(t) = [i \in 1..m |-> Content[ins[i][2]]]
    BY <1>2 DEF Contents
  <1>7. m = Len(ins)
    OBVIOUS
  <1> HIDE DEF S, ins, deps, m, n
  <1>8. /\ own \in Seq(S) /\ Len(own) = m + n
        /\ \A i \in 1..(m + n) : own[i] = IF i <= m THEN ins[i] ELSE deps[i - m]
    <2>1. /\ ins \o deps \in Seq(S) /\ Len(ins \o deps) = Len(ins) + Len(deps)
          /\ \A i \in 1..(Len(ins) + Len(deps)) :
                (ins \o deps)[i] = IF i <= Len(ins) THEN ins[i] ELSE deps[i - Len(ins)]
      BY <1>4, <1>5, ConcatProperties
    <2> QED
      BY <1>4, <1>7, <2>1
  <1> HIDE DEF own
  <1>9. DOMAIN own = 1..(m + n) /\ Len(own) \in Nat
    BY <1>8
  <1> DEFINE c == Contents(t)
             d == Bytes(items)
  <1>10. Listed(c) /\ Len(c) = m
    <2>1. c = [i \in 1..m |-> c[i]]
      BY <1>6
    <2> HIDE DEF c
    <2> QED
      BY <1>2, <2>1, ListedFunction
  <1>11. /\ Listed(d) /\ Len(d) = n
         /\ \A k \in 1..n : d[k] = items[k].bytes
    BY BytesFacts DEF n
  <1>12. \A k \in 1..m : c[k] = Content[ins[k][2]]
    BY <1>6
  <1> HIDE DEF c, d
  <1>13. ASSUME NEW k \in 1..m PROVE f[k] = c[k]
    <2>1. k \in 1..(m + n) /\ k <= m
      BY <1>1, <1>2
    <2>2. own[k] = ins[k] /\ ins[k] \in ObjectId
      BY <1>2, <1>7, <1>8, <2>1
    <2>3. f[k] = BytesOf(ins[k])
      BY <1>9, <2>1, <2>2
    <2> QED
      BY <1>12, <2>2, <2>3, ObjectBytes
  <1>14. ASSUME NEW k \in 1..n PROVE f[m + k] = d[k]
    <2>1. m + k \in 1..(m + n) /\ ~(m + k <= m) /\ (m + k) - m = k
      BY <1>1, <1>2
    <2>2. own[m + k] = deps[(m + k) - m]
      BY <1>8, <2>1
    <2>3. own[m + k] = <<"output", k>>
      BY <1>3, <2>1, <2>2
    <2>4. f[m + k] = BytesOf(<<"output", k>>)
      BY <1>9, <2>1, <2>3
    <2> QED
      BY <1>11, <2>4, OutputBytes
  <1>15. DOMAIN f = 1..(m + n) /\ f = [k \in DOMAIN f |-> f[k]]
    BY <1>9
  <1> HIDE DEF f
  <1>16. Joins(f, c, d)
    BY <1>10, <1>11, <1>13, <1>14, <1>15 DEF Joins
  <1>17. f = c \o d
    BY <1>10, <1>11, <1>16, ConcatIs
  <1> QED
    BY <1>8, <1>9, <1>17 DEF f, c, d, own, ins, deps

(* Roles of a chain that the planner may fuse.                             *)
Chainable(templates) ==
    /\ Listed(items)
    /\ Len(templates) \in Nat /\ Len(templates) >= 2
    /\ DOMAIN templates = 1..Len(templates)
    /\ \A i \in 1..Len(templates) : templates[i].inputs \in Seq(ObjectId)

LEMMA ChainableFusible ==
    ASSUME NEW templates, Chainable(templates)
    PROVE  Fusible(templates, Dependencies, ObjectId \cup {<<"output", k>> : k \in 1..Len(items)})
  <1> DEFINE n == Len(items)
             S == ObjectId \cup {<<"output", k>> : k \in 1..n}
             deps == Dependencies
  <1>1. n \in Nat /\ DOMAIN items = 1..n
    BY ListedFacts DEF Chainable
  <1>2. deps = [k \in 1..n |-> <<"output", k>>]
    BY <1>1 DEF Dependencies
  <1>3. \A k \in 1..n : <<"output", k>> \in S
    OBVIOUS
  <1>4. ObjectId \subseteq S
    OBVIOUS
  <1> HIDE DEF n, S, deps
  <1>5. deps \in [1..n -> S]
    BY <1>2, <1>3
  <1>6. deps \in Seq(S)
    BY <1>1, <1>5
  <1>7. ASSUME NEW i \in 1..Len(templates)
        PROVE  templates[i].inputs \in Seq(S)
    <2>1. templates[i].inputs \in Seq(ObjectId)
      BY DEF Chainable
    <2> QED
      BY <1>4, <2>1, SeqMonotonic
  <1>8. Fusible(templates, deps, S)
    BY <1>6, <1>7 DEF Fusible, Chainable
  <1> QED
    BY <1>8 DEF S, deps, n

(* What a stage of a fused task is given.                                  *)
Given(task) == [k \in DOMAIN task.inputs |-> BytesOf(task.inputs[k])]

(* Every input of a stage is there, and is what its role has for input.    *)
LEMMA StageGiven ==
    ASSUME NEW templates, Chainable(templates), NEW i \in 1..Len(templates), NEW prev
    PROVE  LET task == FusedPipelineTask(templates, Dependencies)
               w == StageInputs(templates, Dependencies, i)
           IN  /\ \A b \in Range(w) : IF b = PreviousOutput THEN i > 1
                                      ELSE b.index \in DOMAIN Given(task)
               /\ [k \in DOMAIN w |-> BoundTo(Given(task), prev, w[k])]
                    = Contents(templates[i]) \o (IF i = 1 THEN Bytes(items) ELSE <<prev.bytes>>)
  <1> DEFINE deps == Dependencies
             task == FusedPipelineTask(templates, deps)
             w == StageInputs(templates, deps, i)
             own == Own(templates, deps, i)
             e == Externals(templates, deps)
             L == Len(own)
             S == ObjectId \cup {<<"output", k>> : k \in 1..Len(items)}
             given == Given(task)
             t == templates[i]
             f == [k \in DOMAIN w |-> BoundTo(given, prev, w[k])]
  <1>1. Fusible(templates, deps, S)
    BY ChainableFusible
  <1>2. t.inputs \in Seq(ObjectId) /\ Listed(items)
    BY DEF Chainable
  <1> HIDE DEF S
  <1>3. /\ L \in Nat /\ DOMAIN w = 1..(IF i = 1 THEN L ELSE L + 1)
        /\ \A k \in 1..L : /\ w[k] # PreviousOutput
                           /\ w[k].index \in 1..Len(e)
                           /\ e[w[k].index] = own[k]
        /\ i # 1 => w[L + 1] = PreviousOutput
    BY <1>1, StageInputFacts
  <1>4. e \in Seq(S) /\ own \in Seq(S)
    BY <1>1, OwnFacts
  <1>5. task.inputs = e
    BY FusedIs
  <1>6. own = IF i = 1 THEN t.inputs \o deps ELSE t.inputs
    BY DEF Own
  <1> HIDE DEF deps, task, w, own, e, t
  <1>7. given = [k \in 1..Len(e) |-> BytesOf(e[k])]
    BY <1>4, <1>5 DEF Given
  <1> HIDE DEF given
  <1>8. ASSUME NEW b \in Range(w)
        PROVE  IF b = PreviousOutput THEN i > 1 ELSE b.index \in DOMAIN given
    <2>1. PICK k \in DOMAIN w : b = w[k]
      BY DEF Range
    <2>2. CASE k \in 1..L
      BY <1>3, <1>7, <2>1, <2>2
    <2>3. CASE k \notin 1..L
      <3>1. i # 1 /\ k = L + 1
        BY <1>3, <2>3
      <3>2. i > 1
        BY <3>1
      <3> QED
        BY <1>3, <2>1, <3>1, <3>2
    <2> QED
      BY <2>2, <2>3
  <1>9. ASSUME NEW k \in 1..L
        PROVE  k \in DOMAIN w /\ f[k] = BytesOf(own[k])
    <2>1. k \in DOMAIN w
      BY <1>3
    <2>2. f[k] = given[w[k].index]
      BY <1>3, <2>1 DEF BoundTo
    <2> QED
      BY <1>3, <1>7, <2>1, <2>2
  <1>10. f = [k \in DOMAIN w |-> f[k]] /\ DOMAIN f = DOMAIN w
    OBVIOUS
  <1>11. CASE i = 1
    <2>1. own = t.inputs \o deps /\ DOMAIN own = 1..L /\ DOMAIN w = 1..L
      BY <1>3, <1>4, <1>6, <1>11
    <2>2. [k \in DOMAIN own |-> BytesOf(own[k])] = Contents(t) \o Bytes(items)
      BY <1>2, <2>1, FirstBytes DEF deps
    <2> HIDE DEF f
    <2>3. f = [k \in DOMAIN own |-> BytesOf(own[k])]
      BY <1>9, <1>10, <2>1
    <2>4. f = Contents(t) \o Bytes(items)
      BY <2>2, <2>3
    <2> QED
      BY <1>8, <1>11, <2>4 DEF f, w, given, task, deps, t
  <1>12. CASE i # 1
    <2> DEFINE c == Contents(t)
               d == <<prev.bytes>>
    <2>1. own = t.inputs /\ DOMAIN own = 1..L /\ DOMAIN w = 1..(L + 1)
      BY <1>3, <1>4, <1>6, <1>12
    <2>2. [k \in DOMAIN own |-> BytesOf(own[k])] = c
      BY <1>2, <2>1, LaterBytes
    <2>3. c = [k \in 1..L |-> c[k]] /\ \A k \in 1..L : c[k] = BytesOf(own[k])
      <3> HIDE DEF c
      <3> QED
        BY <2>1, <2>2
    <2>4. Listed(d) /\ Len(d) = 1 /\ d[1] = prev.bytes
      <3>1. d \in Seq({prev.bytes})
        OBVIOUS
      <3>2. Len(d) = 1 /\ d[1] = prev.bytes
        OBVIOUS
      <3> HIDE DEF d
      <3> QED
        BY <3>1, <3>2 DEF Listed
    <2> HIDE DEF c, d
    <2>5. Listed(c) /\ Len(c) = L
      BY <1>3, <2>3, ListedFunction
    <2>6. L + 1 \in DOMAIN w
      BY <1>3, <2>1
    <2>7. f[L + 1] = prev.bytes
      BY <1>3, <1>12, <2>6 DEF BoundTo
    <2> HIDE DEF f
    <2>8. \A k \in 1..Len(c) : f[k] = c[k]
      BY <1>9, <2>3, <2>5
    <2>9. \A k \in 1..Len(d) : f[Len(c) + k] = d[k]
      BY <2>4, <2>5, <2>7
    <2>10. DOMAIN f = 1..(Len(c) + Len(d)) /\ f = [k \in DOMAIN f |-> f[k]]
      BY <1>10, <2>1, <2>4, <2>5
    <2>11. Joins(f, c, d)
      BY <2>8, <2>9, <2>10 DEF Joins
    <2>12. f = c \o d
      BY <2>4, <2>5, <2>11, ConcatIs
    <2> QED
      BY <1>8, <1>12, <2>12 DEF f, w, given, task, deps, t, c, d
  <1> QED
    BY <1>11, <1>12

LEMMA StageRuns ==
    ASSUME NEW templates, Chainable(templates), NEW i \in 1..Len(templates), NEW prev
    PROVE  LET task == FusedPipelineTask(templates, Dependencies)
           IN  RunStage(task.stages, Given(task), NoShard, prev, i)
                 = IF prev.ok
                   THEN RoleOutcome(templates[i], IF i = 1 THEN Bytes(items) ELSE <<prev.bytes>>)
                   ELSE Fail
  <1> DEFINE task == FusedPipelineTask(templates, Dependencies)
             w == StageInputs(templates, Dependencies, i)
             given == Given(task)
             stage == task.stages[i]
             d == IF i = 1 THEN Bytes(items) ELSE <<prev.bytes>>
             f == [k \in DOMAIN w |-> BoundTo(given, prev, w[k])]
             present == \A b \in Range(w) : IF b = PreviousOutput THEN i > 1
                                            ELSE b.index \in DOMAIN given
  <1>1. i \in DOMAIN templates
    BY DEF Chainable
  <1>2. stage.op = templates[i].op /\ stage.args = templates[i].args /\ stage.inputs = w
    <2>1. \A k \in DOMAIN templates :
             /\ task.stages[k].op = templates[k].op
             /\ task.stages[k].args = templates[k].args
             /\ task.stages[k].inputs = StageInputs(templates, Dependencies, k)
      BY FusedIs
    <2> HIDE DEF task
    <2> QED
      BY <1>1, <2>1
  <1>3. present /\ f = Contents(templates[i]) \o d
    BY StageGiven
  <1>4. RoleOutcome(templates[i], d)
          = ExecuteBuiltin(templates[i].op, templates[i].args, Contents(templates[i]) \o d, NoShard)
    BY DEF RoleOutcome, Contents
  <1>5. RunStage(task.stages, given, NoShard, prev, i)
          = IF prev.ok /\ present THEN ExecuteBuiltin(stage.op, stage.args, f, NoShard) ELSE Fail
    <2> HIDE DEF task, given, w
    <2> QED
      BY <1>2 DEF RunStage
  <1> HIDE DEF present, f, d, stage, given, task, w
  <1>6. RunStage(task.stages, given, NoShard, prev, i)
          = IF prev.ok THEN RoleOutcome(templates[i], d) ELSE Fail
    BY <1>2, <1>3, <1>4, <1>5
  <1> QED
    BY <1>6 DEF task, given, d

(* The outcomes of roles, each a task of its own: the first has the        *)
(* outputs of the level before, each later one the output of the previous  *)
(* role, and none runs after one that failed.                              *)
InTurn(templates, f) ==
    /\ f[1] = RoleOutcome(templates[1], Bytes(items))
    /\ \A i \in 2..Len(templates) :
          f[i] = IF f[i - 1].ok THEN RoleOutcome(templates[i], <<f[i - 1].bytes>>) ELSE Fail

(* What a fused task computes is what its roles compute one after the      *)
(* other, for roles with any inputs, repeated or shared, and for any       *)
(* number of outputs of the level before: removing repetitions from the    *)
(* task's inputs and binding the stages to what is left loses nothing, and *)
(* the task fails if and only if one of the roles would.                   *)
THEOREM FusedAsSeparate ==
    ASSUME NEW templates, Chainable(templates)
    PROVE  \E f : /\ InTurn(templates, f)
                  /\ Fused(FusedPipelineTask(templates, Dependencies)) = f[Len(templates)]
  <1> DEFINE task == FusedPipelineTask(templates, Dependencies)
             stages == task.stages
             given == Given(task)
             N == Len(templates)
             stage(i) == Stage(templates[i], StageInputs(templates, Dependencies, i))
  <1>1. N \in Nat /\ N >= 2 /\ DOMAIN templates = 1..N
    BY DEF Chainable
  <1>2. stages = [i \in 1..N |-> stage(i)]
    BY <1>1, FusedIs
  <1>3. Len(stages) = N
    <2>1. stages = [i \in 1..N |-> stages[i]]
      <3> HIDE DEF stage, stages
      <3> QED
        BY <1>2
    <2> HIDE DEF stages, N
    <2> QED
      BY <1>1, <2>1, ListedFunction
  <1>4. Fused(task) = ExecutePipeline(stages, given, NoShard)
    BY DEF Fused, Given
  <1>5. \A i \in 1..N : \A prev :
           RunStage(stages, given, NoShard, prev, i)
             = IF prev.ok
               THEN RoleOutcome(templates[i], IF i = 1 THEN Bytes(items) ELSE <<prev.bytes>>)
               ELSE Fail
    BY StageRuns
  <1> HIDE DEF stages, given, N, task
  <1>6. PICK g : /\ g[0] = Ok(<<>>)
                 /\ \A n \in 1..N : g[n] = RunStage(stages, given, NoShard, g[n - 1], n)
                 /\ ExecutePipeline(stages, given, NoShard) = g[N]
    BY <1>1, <1>3, PipelineRecurs
  <1>7. g[0].ok = TRUE
    BY <1>6 DEF Ok
  <1>8. g[1] = RoleOutcome(templates[1], Bytes(items))
    <2>1. 1 \in 1..N /\ 1 - 1 = 0
      BY <1>1
    <2>2. g[1] = RunStage(stages, given, NoShard, g[0], 1)
      BY <1>6, <2>1
    <2> QED
      BY <1>5, <1>7, <2>1, <2>2
  <1>9. ASSUME NEW i \in 2..N
        PROVE  g[i] = IF g[i - 1].ok THEN RoleOutcome(templates[i], <<g[i - 1].bytes>>) ELSE Fail
    <2>1. i \in 1..N /\ i # 1
      BY <1>1
    <2>2. g[i] = RunStage(stages, given, NoShard, g[i - 1], i)
      BY <1>6, <2>1
    <2> QED
      BY <1>5, <2>1, <2>2
  <1>10. InTurn(templates, g)
    BY <1>8, <1>9 DEF InTurn, N
  <1>11. Fused(task) = g[N]
    BY <1>4, <1>6
  <1> QED
    BY <1>10, <1>11 DEF task, N

(* A role that runs on its own.                                            *)
LEMMA SeparateIs ==
    ASSUME Listed(items), NEW t, t.inputs \in Seq(ObjectId)
    PROVE  Separate(t, t.inputs \o Dependencies) = RoleOutcome(t, Bytes(items))
  <1> DEFINE own == t.inputs \o Dependencies
  <1>1. [k \in DOMAIN own |-> BytesOf(own[k])] = Contents(t) \o Bytes(items)
    BY FirstBytes
  <1>2. RoleOutcome(t, Bytes(items))
          = ExecuteBuiltin(t.op, t.args, Contents(t) \o Bytes(items), NoShard)
    BY DEF RoleOutcome, Contents
  <1> HIDE DEF own
  <1>3. Separate(t, own) = RoleOutcome(t, Bytes(items))
    BY <1>1, <1>2 DEF Separate
  <1> QED
    BY <1>3 DEF own

-----------------------------------------------------------------------------
(* However it is cut, grouped and fused, a job computes what is written.   *)

(* Where m ranges begin and end that together are all units, in order; if  *)
(* there are several, none is empty.                                       *)
Tiles(j, b, m) ==
    /\ b \in [0..m -> 0..Units(j)] /\ b[0] = 0 /\ b[m] = Units(j)
    /\ m > 1 => \A i \in 1..m : b[i - 1] < b[i]

LEMMA UnitsFacts ==
    ASSUME NEW j \in Program
    PROVE  /\ Units(j) \in Nat /\ j.shards \in Nat \ {0}
           /\ j.auto \in BOOLEAN /\ j.byRecords \in BOOLEAN
           /\ Source(j) \in Seq(0..(Base - 1))
           /\ j.byRecords => /\ j.offsets \in Seq(Nat)
                             /\ ValidRecordOffsets(j.offsets, Len(Source(j)))
  <1>1. /\ j.shards \in Nat \ {0} /\ j.auto \in BOOLEAN /\ j.byRecords \in BOOLEAN
        /\ Source(j) \in Seq(0..(Base - 1))
        /\ j.byRecords => /\ j.offsets \in Seq(Nat)
                          /\ ValidRecordOffsets(j.offsets, Len(Source(j)))
    BY ProgramAssumption DEF Source
  <1>2. Len(Source(j)) \in Nat
    BY <1>1
  <1>3. j.byRecords => Len(j.offsets) - 1 \in Nat
    <2>1. j.byRecords => Len(j.offsets) \in Nat /\ Len(j.offsets) >= 2
      BY <1>1 DEF ValidRecordOffsets
    <2> QED
      BY <2>1
  <1>4. Units(j) \in Nat
    BY <1>1, <1>2, <1>3 DEF Units, PartitionUnits
  <1> QED
    BY <1>1, <1>4

(* All units, as one range.                                                *)
LEMMA WholeRange ==
    ASSUME NEW j \in Program
    PROVE  RangeOutcome(j, 0, Units(j)) = AsOneTask(j)
  <1> DEFINE s == Source(j)
             n == Units(j)
  <1>1. CASE ~j.auto
    BY <1>1 DEF RangeOutcome, AsOneTask, Units
  <1>2. CASE j.auto
    <2>1. n \in Nat /\ s \in Seq(0..(Base - 1)) /\ j.byRecords \in BOOLEAN
      BY UnitsFacts
    <2>2. Position(j, 0) = 0 /\ Position(j, n) = Len(s)
      <3>1. CASE j.byRecords
        <4>1. /\ Len(j.offsets) \in Nat /\ j.offsets[1] = 0
              /\ j.offsets[Len(j.offsets)] = Len(s)
          BY <3>1, UnitsFacts DEF ValidRecordOffsets
        <4>2. n + 1 = Len(j.offsets)
          BY <1>2, <3>1, <4>1 DEF Units, PartitionUnits
        <4> QED
          BY <3>1, <4>1, <4>2 DEF Position
      <3>2. CASE ~j.byRecords
        <4>1. n = Len(s)
          BY <1>2, <3>2 DEF Units, PartitionUnits
        <4> QED
          BY <3>2, <4>1 DEF Position
      <3> QED
        BY <3>1, <3>2
    <2>3. UnitsBytes(j, 0, n) = SubSeq(s, 0 + 1, Len(s))
      BY <2>2 DEF UnitsBytes
    <2>4. SubSeq(s, 1, Len(s)) = s
      BY <2>1, SubSeqFull
    <2>5. UnitsBytes(j, 0, n) = s
      BY <2>3, <2>4
    <2> HIDE DEF n, s
    <2>6. RangeOutcome(j, 0, n) = AsOneTask(j)
      BY <1>2, <2>5 DEF RangeOutcome, AsOneTask, s
    <2> QED
      BY <2>6 DEF n
  <1> QED
    BY <1>1, <1>2

(* A sequence of one, flattened.                                           *)
LEMMA FlattenOne ==
    ASSUME NEW x, NEW seqs, seqs = [k \in 1..1 |-> x]
    PROVE  FlattenSeq(seqs) = x
  <1>1. seqs = [k \in 1..1 |-> seqs[k]] /\ seqs[1] = x
    OBVIOUS
  <1>2. Len(seqs) = 1
    BY <1>1, ListedFunction
  <1> DEFINE u == [i \in 1..1 |-> x]
  <1>3. Flattening(seqs, u)
    BY <1>1, <1>2 DEF Flattening
  <1> DEFINE g == CHOOSE g : Flattening(seqs, g)
  <1>4. Flattening(seqs, g)
    BY <1>3
  <1>5. FlattenSeq(seqs) = g[1]
    BY <1>2, FlattenIs
  <1> HIDE DEF g
  <1>6. g[1] = seqs[1]
    BY <1>2, <1>4 DEF Flattening
  <1> QED
    BY <1>1, <1>5, <1>6

(* Shard i of a fixed number, as a range.                                  *)
LEMMA FixedShard ==
    ASSUME NEW j, NEW i \in Nat \ {0}
    PROVE  AllShards(j, i - 1, i) = ShardOutcome(j, i, j.shards)
  <1> DEFINE o == ShardOutcome(j, i, j.shards)
             outcome(k) == ShardOutcome(j, (i - 1) + k, j.shards)
             seqs == [k \in 1..(i - (i - 1)) |-> outcome(k).bytes]
  <1>1. i - (i - 1) = 1 /\ (i - 1) + 1 = i
    OBVIOUS
  <1>2. outcome(1) = o
    BY <1>1
  <1>3. AllShards(j, i - 1, i)
          = IF \E k \in 1..(i - (i - 1)) : ~outcome(k).ok THEN Fail
            ELSE ExecuteBuiltin("concat", <<>>, seqs, NoShard)
    BY DEF AllShards
  <1>4. \A k \in 1..(i - (i - 1)) : k = 1
    BY <1>1
  <1>5. 1 \in 1..(i - (i - 1))
    BY <1>1
  <1>6. (\E k \in 1..(i - (i - 1)) : ~outcome(k).ok) <=> ~o.ok
    <2> HIDE DEF outcome, o
    <2> QED
      BY <1>2, <1>4, <1>5
  <1>7. seqs = [k \in 1..1 |-> o.bytes]
    <2>1. 1..(i - (i - 1)) = 1..1
      BY <1>1
    <2>2. \A k \in 1..1 : outcome(k) = o
      <3> HIDE DEF outcome, o
      <3> QED
        BY <1>2
    <2> HIDE DEF outcome, o
    <2> QED
      BY <2>1, <2>2
  <1>8. ExecuteBuiltin("concat", <<>>, seqs, NoShard) = Ok(FlattenSeq(seqs))
    <2> HIDE DEF seqs
    <2> QED
      BY DEF ExecuteBuiltin
  <1>9. IsOutcome(o)
    BY BuiltinOutcome DEF ShardOutcome
  <1> HIDE DEF o, outcome, seqs
  <1>10. FlattenSeq(seqs) = o.bytes
    BY <1>7, FlattenOne
  <1>11. AllShards(j, i - 1, i) = IF ~o.ok THEN Fail ELSE Ok(o.bytes)
    BY <1>3, <1>6, <1>8, <1>10
  <1> QED
    BY <1>9, <1>11, OutcomeFacts DEF o

(* What shard i reads is the units between two boundaries.                 *)
LEMMA ShardReads ==
    ASSUME NEW j \in Program, j.auto, NEW count \in Nat \ {0}, NEW i \in 1..count
    PROVE  ShardInput(j, i, count)
             = UnitsBytes(j, Boundary(Units(j), i - 1, count), Boundary(Units(j), i, count))
  <1> DEFINE units == Units(j)
             size == Len(Source(j))
             p == PartitionBounds(units, i - 1, count)
             lo == Boundary(units, i - 1, count)
             hi == Boundary(units, i, count)
             cut == ShardCut(j, i, count)
  <1>1. units \in Nat /\ j.byRecords \in BOOLEAN /\ (j.byRecords => j.offsets \in Seq(Nat))
    BY UnitsFacts
  <1>2. i - 1 \in 0..(count - 1) /\ (i - 1) + 1 = i
    OBVIOUS
  <1> HIDE DEF units
  <1>3. p[1] = lo /\ p[1] + p[2] = hi /\ p[1] \in Nat /\ p[2] \in Nat /\ hi \in 0..units
    <2> DEFINE k == i - 1
               q == PartitionBounds(units, k, count)
    <2>1. k \in 0..(count - 1) /\ k + 1 = i
      BY <1>2
    <2> HIDE DEF k
    <2>2. /\ q[1] \in Nat /\ q[2] \in Nat /\ q[1] = Boundary(units, k, count)
          /\ q[1] + q[2] = Boundary(units, k + 1, count) /\ q[1] + q[2] \in 0..units
      BY <1>1, <2>1, BoundsInside
    <2> QED
      BY <2>1, <2>2 DEF k
  <1>4. lo \in Nat /\ hi \in Nat /\ lo <= hi /\ hi <= units
    BY <1>1, <1>3
  <1>5. units = PartitionUnits(j.byRecords, j.offsets, size)
    BY DEF Units, units
  <1>6. cut = IF j.byRecords
              THEN Cut(p[1], p[2], units, j.offsets[p[1] + 1],
                       j.offsets[p[1] + p[2] + 1] - j.offsets[p[1] + 1])
              ELSE Cut(p[1], p[2], units, p[1], p[2])
    BY <1>5 DEF ShardCut, ConcretePartition
  <1> HIDE DEF p, lo, hi, cut
  <1>7. cut.offset = Position(j, lo) /\ cut.offset + cut.length = Position(j, hi)
    <2>1. CASE j.byRecords
      <3> DEFINE a == j.offsets[lo + 1]
                 c == j.offsets[hi + 1]
      <3>1. units = Len(j.offsets) - 1 /\ Len(j.offsets) \in Nat
        BY <1>1, <1>5, <2>1 DEF PartitionUnits
      <3>2. lo + 1 \in 1..Len(j.offsets) /\ hi + 1 \in 1..Len(j.offsets)
        BY <1>4, <3>1
      <3>3. a \in Nat /\ c \in Nat
        BY <1>1, <2>1, <3>2, ElementOfSeq
      <3>4. cut = Cut(lo, p[2], units, a, c - a)
        BY <1>3, <1>6, <2>1
      <3> HIDE DEF a, c
      <3>5. cut.offset = a /\ cut.length = c - a
        BY <3>4 DEF Cut
      <3>6. cut.offset + cut.length = c
        BY <3>3, <3>5
      <3> QED
        BY <2>1, <3>5, <3>6 DEF Position, a, c
    <2>2. CASE ~j.byRecords
      <3>1. cut = Cut(p[1], p[2], units, p[1], p[2])
        BY <1>6, <2>2
      <3>2. cut.offset = p[1] /\ cut.length = p[2]
        BY <3>1 DEF Cut
      <3> QED
        BY <1>3, <2>2, <3>2 DEF Position
    <2> QED
      BY <1>1, <2>1, <2>2
  <1>8. ShardInput(j, i, count) = SubSeq(Source(j), cut.offset + 1, cut.offset + cut.length)
    BY DEF ShardInput, cut
  <1>9. ShardInput(j, i, count) = UnitsBytes(j, lo, hi)
    BY <1>7, <1>8 DEF UnitsBytes
  <1> QED
    BY <1>9 DEF lo, hi, units

(* The shards of a role, however many there are, compute ranges that tile  *)
(* its units.                                                              *)
LEMMA ShardsTile ==
    ASSUME NEW j \in Program, NEW count \in ShardCounts(j)
    PROVE  /\ count \in Nat \ {0}
           /\ \E b : /\ Tiles(j, b, count)
                     /\ \A i \in 1..count :
                           ShardOutcome(j, i, count) = RangeOutcome(j, b[i - 1], b[i])
  <1> DEFINE units == Units(j)
  <1>1. units \in Nat /\ j.shards \in Nat \ {0} /\ j.auto \in BOOLEAN
    BY UnitsFacts
  <1>2. CASE ~j.auto
    <2> DEFINE b == [i \in 0..count |-> i]
    <2>1. count = j.shards /\ units = j.shards
      BY <1>2 DEF ShardCounts, Units
    <2>2. count \in Nat \ {0}
      BY <1>1, <2>1
    <2>3. /\ b \in [0..count -> 0..units] /\ b[0] = 0 /\ b[count] = units
          /\ \A i \in 1..count : b[i - 1] = i - 1 /\ b[i] = i
      <3> HIDE DEF units
      <3> QED
        BY <2>1, <2>2
    <2> HIDE DEF b
    <2>4. Tiles(j, b, count)
      BY <2>2, <2>3 DEF Tiles
    <2>5. ASSUME NEW i \in 1..count
          PROVE  ShardOutcome(j, i, count) = RangeOutcome(j, b[i - 1], b[i])
      <3>1. i \in Nat \ {0}
        OBVIOUS
      <3>2. RangeOutcome(j, b[i - 1], b[i]) = AllShards(j, i - 1, i)
        BY <1>2, <2>3 DEF RangeOutcome
      <3> QED
        BY <2>1, <3>1, <3>2, FixedShard
    <2> QED
      BY <2>2, <2>4, <2>5
  <1>3. CASE j.auto
    <2> DEFINE b == [i \in 0..count |-> Boundary(units, i, count)]
    <2>1. count \in 1..MaxCount(j.shards, units)
      BY <1>3 DEF ShardCounts
    <2>2. MaxCount(j.shards, units) \in Nat /\ (units = 0 => MaxCount(j.shards, units) = 1)
      BY <1>1 DEF MaxCount
    <2>3. count \in Nat \ {0} /\ (count > 1 => units # 0)
      BY <2>1, <2>2
    <2> HIDE DEF units
    <2>4. \A i \in 0..count : Boundary(units, i, count) \in 0..units
      BY <1>1, <2>3, BoundaryRange
    <2>5. b \in [0..count -> 0..units]
      BY <2>4
    <2>6. \A i \in 1..count : /\ b[i] = Boundary(units, i, count)
                              /\ b[i - 1] = Boundary(units, i - 1, count)
      <3>1. \A i \in 1..count : i \in 0..count /\ i - 1 \in 0..count
        BY <2>3
      <3> QED
        BY <3>1
    <2>7. b[0] = 0 /\ b[count] = units
      <3>1. 0 \in 0..count /\ count \in 0..count
        BY <2>3
      <3> QED
        BY <1>1, <2>3, <3>1, BoundaryRange
    <2> HIDE DEF b
    <2>8. ASSUME count > 1, NEW i \in 1..count PROVE b[i - 1] < b[i]
      <3>1. i - 1 \in 0..(count - 1) /\ i - 1 \in Nat /\ (i - 1) + 1 = i
        BY <2>3
      <3>2. units \in Nat \ {0}
        BY <1>1, <2>3, <2>8
      <3>3. PartitionBounds(units, i - 1, count)[2] >= 1
        BY <1>1, <2>1, <3>1, <3>2, EveryPartHasUnits
      <3>4. PartitionBounds(units, i - 1, count)[2] = b[i] - b[i - 1]
        <4> DEFINE k == i - 1
        <4>1. k \in Nat /\ k + 1 = i /\ b[i] = Boundary(units, i, count)
              /\ b[k] = Boundary(units, k, count)
          BY <2>6, <3>1
        <4> HIDE DEF k
        <4>2. PartitionBounds(units, k, count)[2]
                = Boundary(units, k + 1, count) - Boundary(units, k, count)
          BY <1>1, <2>3, <4>1, BoundsAreBoundaries
        <4>3. PartitionBounds(units, k, count)[2] = b[i] - b[k]
          BY <4>1, <4>2
        <4> QED
          BY <4>3 DEF k
      <3>5. b[i] \in Nat /\ b[i - 1] \in Nat
        <4>1. i \in 0..count /\ i - 1 \in 0..count
          BY <2>3
        <4> QED
          BY <1>1, <2>5, <4>1
      <3> QED
        BY <3>3, <3>4, <3>5
    <2>9. Tiles(j, b, count)
      BY <2>5, <2>7, <2>8 DEF Tiles, units
    <2>10. ASSUME NEW i \in 1..count
           PROVE  ShardOutcome(j, i, count) = RangeOutcome(j, b[i - 1], b[i])
      <3>1. ShardInput(j, i, count) = UnitsBytes(j, b[i - 1], b[i])
        BY <1>3, <2>3, <2>6, ShardReads DEF units
      <3>2. b[i - 1] \in 0..units /\ b[i] \in 0..units
        <4>1. i \in 0..count /\ i - 1 \in 0..count
          BY <2>3
        <4> QED
          BY <2>5, <4>1
      <3>3. b[i - 1] <= b[i]
        <4>1. CASE count > 1
          <5>1. b[i - 1] < b[i]
            BY <2>8, <4>1
          <5> QED
            BY <1>1, <3>2, <5>1
        <4>2. CASE ~(count > 1)
          <5>1. i = 1 /\ count = 1
            BY <2>3, <4>2
          <5> QED
            BY <1>1, <2>7, <3>2, <5>1
        <4> QED
          BY <4>1, <4>2
      <3>4. ShardsAreParts(j)
        BY DivisibleAssumption
      <3>5. ExecuteBuiltin(j.op, j.args, <<UnitsBytes(j, b[i - 1], b[i])>>, Shard(i - 1, count))
              = RangeOutcome(j, b[i - 1], b[i])
        <4> DEFINE lo == b[i - 1]
                   hi == b[i]
        <4>1. lo \in 0..Units(j) /\ hi \in 0..Units(j) /\ lo <= hi
          BY <3>2, <3>3 DEF units
        <4>2. \A x, y \in 0..Units(j) : x <= y =>
                 ExecuteBuiltin(j.op, j.args, <<UnitsBytes(j, x, y)>>, Shard(i - 1, count))
                   = RangeOutcome(j, x, y)
          BY <1>3, <3>4 DEF ShardsAreParts
        <4> HIDE DEF lo, hi
        <4>3. ExecuteBuiltin(j.op, j.args, <<UnitsBytes(j, lo, hi)>>, Shard(i - 1, count))
                = RangeOutcome(j, lo, hi)
          BY <4>1, <4>2
        <4> QED
          BY <4>3 DEF lo, hi
      <3> QED
        BY <3>1, <3>5 DEF ShardOutcome
    <2> QED
      BY <2>3, <2>9, <2>10
  <1> QED
    BY <1>1, <1>2, <1>3

LEMMA SubSeqAt ==
    ASSUME NEW S, NEW s \in Seq(S), NEW lo \in Nat, NEW k \in Nat, lo + k <= Len(s)
    PROVE  LET sub == SubSeq(s, lo + 1, lo + k)
           IN  DOMAIN sub = 1..k /\ \A q \in 1..k : sub[q] = s[lo + q]
  <1> DEFINE sub == SubSeq(s, lo + 1, lo + k)
  <1>1. lo + k \in 0..Len(s) /\ lo <= lo + k /\ (lo + k) - lo = k
    OBVIOUS
  <1>2. sub \in Seq(S) /\ Len(sub) = k
    BY <1>1, SubSeqFacts
  <1>3. DOMAIN sub = 1..k
    <2> HIDE DEF sub
    <2> QED
      BY <1>2
  <1>4. ASSUME NEW q \in 1..k PROVE sub[q] = s[lo + q]
    BY <1>1, <1>2, SubSeqProperties
  <1> QED
    BY <1>3, <1>4

LEMMA Nondecreasing ==
    ASSUME NEW N \in Nat, NEW d, \A i \in 0..N : d[i] \in Nat,
           \A i \in 1..N : d[i - 1] <= d[i],
           NEW a \in 0..N, NEW c \in 0..N, a <= c
    PROVE  d[a] <= d[c]
  <1> DEFINE P == {n \in 0..N : a <= n => d[a] <= d[n]}
  <1>1. 0 \in P
    <2>1. d[a] \in Nat /\ d[0] \in Nat /\ 0 \in 0..N
      OBVIOUS
    <2>2. a <= 0 => a = 0
      OBVIOUS
    <2> QED
      BY <2>1, <2>2
  <1>2. ASSUME NEW n \in 1..N, n - 1 \in P PROVE n \in P
    <2>1. n \in 0..N /\ n - 1 \in 0..N
      OBVIOUS
    <2>2. d[n - 1] \in Nat /\ d[n] \in Nat /\ d[a] \in Nat /\ d[n - 1] <= d[n]
      BY <2>1
    <2>3. a <= n - 1 => d[a] <= d[n - 1]
      BY <1>2
    <2>4. CASE a <= n - 1
      BY <2>1, <2>2, <2>3, <2>4
    <2>5. CASE ~(a <= n - 1)
      <3>1. a <= n => a = n
        BY <2>5
      <3> QED
        BY <2>1, <2>2, <3>1
    <2> QED
      BY <2>4, <2>5
  <1> HIDE DEF P
  <1>3. \A n \in 1..N : n - 1 \in P => n \in P
    BY <1>2
  <1>4. \A n \in 0..N : n \in P
    BY <1>1, <1>3, Induction
  <1> QED
    BY <1>4 DEF P

LEMMA Increasing ==
    ASSUME NEW N \in Nat, NEW d, \A i \in 0..N : d[i] \in Nat,
           \A i \in 1..N : d[i - 1] < d[i],
           NEW a \in 0..N, NEW c \in 0..N, a < c
    PROVE  d[a] < d[c]
  <1>1. \A i \in 1..N : d[i - 1] <= d[i]
    <2>1. \A i \in 1..N : i \in 0..N /\ i - 1 \in 0..N
      OBVIOUS
    <2> QED
      BY <2>1
  <1>2. c - 1 \in 0..N /\ a <= c - 1 /\ c \in 1..N
    OBVIOUS
  <1>3. d[a] <= d[c - 1]
    BY <1>1, <1>2, Nondecreasing
  <1>4. d[c - 1] < d[c] /\ d[a] \in Nat /\ d[c] \in Nat /\ d[c - 1] \in Nat
    BY <1>2
  <1> QED
    BY <1>3, <1>4

(* The objects of s are what the role makes of the ranges.                 *)
Made(j, s, b) == \A i \in 1..Len(s) : RangeOutcome(j, b[i - 1], b[i]) = Ok(s[i].bytes)

LEMMA OkFacts ==
    ASSUME NEW x
    PROVE  Ok(x).ok = TRUE /\ Ok(x).bytes = x
  BY DEF Ok

(* The reduction of a run of objects makes what the role makes of their    *)
(* ranges together.                                                        *)
LEMMA RunReduces ==
    ASSUME NEW j \in Program, j.reduce # "none", NEW S, NEW s \in Seq(S), Len(s) > 1,
           NEW c, Tiles(j, c, Len(s)), Made(j, s, c),
           NEW lo \in 0..Len(s), NEW k \in 2..j.fanIn, lo + k <= Len(s)
    PROVE  ReduceOutcome(j, Bytes(SubSeq(s, lo + 1, lo + k))) = RangeOutcome(j, c[lo], c[lo + k])
  <1> DEFINE m == Len(s)
             sub == SubSeq(s, lo + 1, lo + k)
             b == [q \in 0..k |-> c[lo + q]]
             units == Units(j)
  <1>1. m \in Nat /\ k \in Nat /\ k >= 2 /\ lo \in Nat /\ lo + k <= m
    BY ProgramAssumption
  <1>2. /\ c \in [0..m -> 0..units] /\ \A i \in 1..m : c[i - 1] < c[i]
    BY DEF Tiles
  <1>3. \A q \in 0..k : lo + q \in 0..m
    BY <1>1
  <1>4. b \in [0..k -> 0..units]
    <2> HIDE DEF units, m
    <2> QED
      BY <1>2, <1>3
  <1>5. b[0] = c[lo] /\ b[k] = c[lo + k]
    <2>1. 0 \in 0..k /\ k \in 0..k /\ lo + 0 = lo
      BY <1>1
    <2> QED
      BY <2>1
  <1>6. ASSUME NEW q \in 1..k
        PROVE  /\ lo + q \in 1..m
               /\ b[q - 1] = c[(lo + q) - 1] /\ b[q] = c[lo + q]
               /\ RangeOutcome(j, b[q - 1], b[q]) = Ok(s[lo + q].bytes)
               /\ b[q - 1] < b[q]
    <2>1. lo + q \in 1..m /\ q - 1 \in 0..k /\ q \in 0..k /\ lo + (q - 1) = (lo + q) - 1
      BY <1>1
    <2>2. b[q - 1] = c[(lo + q) - 1] /\ b[q] = c[lo + q]
      BY <2>1
    <2> HIDE DEF b
    <2>3. RangeOutcome(j, c[(lo + q) - 1], c[lo + q]) = Ok(s[lo + q].bytes)
      BY <2>1 DEF Made
    <2> QED
      BY <1>2, <2>1, <2>2, <2>3
  <1> HIDE DEF b
  <1>7. Succeed(j, b, k)
    <2>1. ASSUME NEW q \in 1..k
          PROVE  b[q - 1] < b[q] /\ RangeOutcome(j, b[q - 1], b[q]).ok
      BY <1>6, OkFacts
    <2> QED
      BY <2>1 DEF Succeed
  <1>8. OrderedAssociative(j)
    BY DivisibleAssumption
  <1>9. ReduceOutcome(j, Bytes(Ranges(j, b, k))) = RangeOutcome(j, b[0], b[k])
    <2> HIDE DEF units
    <2>1. b \in [0..k -> 0..Units(j)]
      BY <1>4 DEF units
    <2> QED
      BY <1>7, <1>8, <2>1 DEF OrderedAssociative
  <1>10. Bytes(Ranges(j, b, k)) = [q \in 1..k |-> s[lo + q].bytes]
    <2> DEFINE R == Ranges(j, b, k)
    <2>1. DOMAIN R = 1..k /\ \A q \in 1..k : R[q] = RangeOutcome(j, b[q - 1], b[q])
      BY DEF Ranges
    <2>2. \A q \in 1..k : R[q].bytes = s[lo + q].bytes
      <3> HIDE DEF R
      <3> TAKE q \in 1..k
      <3>1. R[q] = Ok(s[lo + q].bytes)
        BY <1>6, <2>1
      <3> QED
        BY <3>1, OkFacts
    <2> HIDE DEF R
    <2>3. Bytes(R) = [q \in 1..k |-> s[lo + q].bytes]
      BY <2>1, <2>2 DEF Bytes
    <2> QED
      BY <2>3 DEF R
  <1>11. Bytes(sub) = [q \in 1..k |-> s[lo + q].bytes]
    <2>1. /\ DOMAIN sub = 1..k
          /\ \A q \in 1..k : sub[q] = s[lo + q]
      BY <1>1, SubSeqAt
    <2> HIDE DEF sub
    <2> QED
      BY <2>1 DEF Bytes
  <1> QED
    BY <1>5, <1>9, <1>10, <1>11 DEF sub

(* What task i of a level has for outcome.                                 *)
TaskOutcome(j, ph, gs, m, i) ==
    IF ph = "shards" THEN ShardOutcome(j, i, m) ELSE ReduceOutcome(j, Bytes(gs[i]))

(* The tasks of a level have ranges that tile the units: those that have   *)
(* committed have made what the role makes of their range, and the others  *)
(* will.                                                                   *)
Settled(j, ph, gs, s, b, i) ==
    IF s[i] = Waiting
    THEN TaskOutcome(j, ph, gs, Len(s), i) = RangeOutcome(j, b[i - 1], b[i])
    ELSE RangeOutcome(j, b[i - 1], b[i]) = Ok(s[i].bytes)

Tiled(j, ph, gs, s, b) ==
    /\ Listed(s) /\ Len(s) # 0 /\ Tiles(j, b, Len(s))
    /\ \A i \in 1..Len(s) : Settled(j, ph, gs, s, b, i)

(* The items of a new level: a group of one is carried over.               *)
Carried(level) ==
    [i \in DOMAIN level |-> IF Len(level[i]) = 1 THEN level[i][1] ELSE Waiting]

(* The groups of a complete level tile the units again.                    *)
LEMMA NewLevel ==
    ASSUME NEW j \in Program, j.reduce # "none", NEW s, Listed(s), Len(s) > 1,
           Waiting \notin Range(s), NEW c, Tiles(j, c, Len(s)), Made(j, s, c)
    PROVE  LET level == ReductionGroups(s, j.fanIn)
           IN  \E b : Tiled(j, "reducing", level, Carried(level), b)
  <1> DEFINE m == Len(s)
             F == j.fanIn
             level == ReductionGroups(s, F)
             its == Carried(level)
             L == Len(level)
  <1>1. PICK S : s \in Seq(S)
    BY DEF Listed
  <1>2. F \in Nat /\ F >= 2 /\ m \in Nat /\ m > 1
    BY <1>1, ProgramAssumption
  <1>3. level \in Seq(Seq(S)) /\ Grouped(level, s, m, F)
    <2>1. F \in Nat \ {0}
      BY <1>2
    <2> HIDE DEF F
    <2> QED
      BY <1>1, <2>1, GroupsInOrder
  <1> HIDE DEF F
  <1>4. L \in 1..(m - 1)
    <2>1. Len(s) > 1
      OBVIOUS
    <2>2. Len(ReductionGroups(s, F)) \in 1..(Len(s) - 1)
      BY <1>1, <1>2, <2>1, LevelsShrink
    <2> QED
      BY <2>2
  <1> HIDE DEF level
  <1>5. PICK d : CutAt(level, s, d, m, F)
    BY <1>3 DEF Grouped
  <1>6. /\ d \in [0..L -> Nat] /\ d[0] = 0 /\ d[L] = m
        /\ \A g \in 1..L : d[g] - d[g - 1] \in 1..F
        /\ \A g \in 1..L : level[g] = SubSeq(s, d[g - 1] + 1, d[g])
    BY <1>5 DEF CutAt
  <1>7. L \in Nat /\ L # 0 /\ DOMAIN level = 1..L
    BY <1>3, <1>4
  <1>8. Listed(its) /\ Len(its) = L
    <2>1. its = [i \in 1..L |-> its[i]]
      BY <1>7 DEF Carried
    <2> HIDE DEF its
    <2> QED
      BY <1>7, <2>1, ListedFunction
  <1>9. \A g \in 1..L : its[g] = IF Len(level[g]) = 1 THEN level[g][1] ELSE Waiting
    BY <1>7 DEF Carried
  <1> HIDE DEF L, its, m
  <1>10. ASSUME NEW g \in 1..L
         PROVE  /\ g \in 0..L /\ g - 1 \in 0..L
                /\ d[g] \in Nat /\ d[g - 1] \in Nat /\ d[g - 1] < d[g]
    <2>1. g \in 0..L /\ g - 1 \in 0..L
      BY <1>7
    <2>2. d[g] \in Nat /\ d[g - 1] \in Nat
      BY <1>6, <2>1
    <2>3. d[g] - d[g - 1] \in 1..F
      BY <1>6
    <2> QED
      BY <1>2, <2>1, <2>2, <2>3
  <1>11. ASSUME NEW g \in 0..L PROVE d[g] \in 0..m
    <2>1. \A i \in 0..L : d[i] \in Nat
      BY <1>6
    <2>2. \A i \in 1..L : d[i - 1] <= d[i]
      BY <1>10
    <2>3. L \in 0..L /\ g <= L
      BY <1>7
    <2>4. d[g] <= d[L]
      BY <1>7, <2>1, <2>2, <2>3, Nondecreasing
    <2> QED
      BY <1>2, <1>6, <2>1, <2>4
  <1>12. /\ c \in [0..m -> 0..Units(j)] /\ c[0] = 0 /\ c[m] = Units(j)
         /\ \A i \in 1..m : c[i - 1] < c[i]
    BY <1>2 DEF Tiles, m
  <1>13. Units(j) \in Nat
    BY UnitsFacts
  <1> DEFINE e == [g \in 0..L |-> c[d[g]]]
  <1>14. e \in [0..L -> 0..Units(j)]
    BY <1>11, <1>12
  <1>15. e[0] = 0 /\ e[L] = Units(j)
    <2>1. 0 \in 0..L /\ L \in 0..L
      BY <1>7
    <2> QED
      BY <1>6, <1>12, <2>1
  <1>16. \A g \in 1..L : e[g - 1] = c[d[g - 1]] /\ e[g] = c[d[g]]
    BY <1>10
  <1> HIDE DEF e
  <1>17. ASSUME NEW g \in 1..L PROVE e[g - 1] < e[g]
    <2>1. d[g - 1] \in 0..m /\ d[g] \in 0..m /\ d[g - 1] < d[g]
      BY <1>10, <1>11
    <2>2. \A i \in 0..m : c[i] \in Nat
      BY <1>12, <1>13
    <2>3. c[d[g - 1]] < c[d[g]]
      BY <1>2, <1>12, <2>1, <2>2, Increasing
    <2> QED
      BY <1>16, <2>3
  <1>18. Tiles(j, e, L)
    BY <1>14, <1>15, <1>17 DEF Tiles
  <1>19. ASSUME NEW g \in 1..L PROVE Settled(j, "reducing", level, its, e, g)
    <2> DEFINE lo == d[g - 1]
               k == d[g] - d[g - 1]
               sub == SubSeq(s, lo + 1, lo + k)
    <2>1. lo \in Nat /\ k \in Nat /\ k \in 1..F /\ lo + k = d[g] /\ lo \in 0..m /\ lo + k <= m
      <3>1. lo \in Nat /\ d[g] \in Nat /\ lo \in 0..m /\ d[g] \in 0..m
        BY <1>10, <1>11
      <3>2. k \in 1..F
        BY <1>6
      <3> QED
        BY <1>2, <3>1, <3>2
    <2>2. level[g] = sub
      BY <1>6, <2>1
    <2>3. e[g - 1] = c[lo] /\ e[g] = c[lo + k]
      BY <1>16, <2>1
    <2> HIDE DEF lo, k
    <2>4. DOMAIN sub = 1..k /\ \A q \in 1..k : sub[q] = s[lo + q]
      BY <1>1, <2>1, SubSeqAt DEF m
    <2>5. Len(sub) = k
      <3>1. lo + k \in 0..Len(s) /\ lo <= lo + k /\ (lo + k) - lo = k
        BY <1>2, <2>1 DEF m
      <3> QED
        BY <1>1, <2>1, <3>1, SubSeqFacts
    <2> HIDE DEF sub
    <2>6. CASE k = 1
      <3>1. its[g] = sub[1]
        BY <1>9, <2>2, <2>5, <2>6
      <3>2. sub[1] = s[lo + 1]
        BY <2>4, <2>6
      <3>3. lo + 1 \in 1..m /\ (lo + 1) - 1 = lo
        BY <1>2, <2>1, <2>6
      <3>4. s[lo + 1] # Waiting
        BY <1>1, <3>3 DEF Range, m
      <3>5. RangeOutcome(j, c[(lo + 1) - 1], c[lo + 1]) = Ok(s[lo + 1].bytes)
        BY <3>3 DEF Made, m
      <3>6. RangeOutcome(j, e[g - 1], e[g]) = Ok(its[g].bytes) /\ its[g] # Waiting
        BY <2>3, <2>6, <3>1, <3>2, <3>3, <3>4, <3>5
      <3> QED
        BY <3>6 DEF Settled
    <2>7. CASE k # 1
      <3>1. k \in 2..j.fanIn
        BY <1>2, <2>1, <2>7 DEF F
      <3>2. ReduceOutcome(j, Bytes(sub)) = RangeOutcome(j, c[lo], c[lo + k])
        BY <1>1, <2>1, <3>1, RunReduces DEF m, sub
      <3>3. its[g] = Waiting
        BY <1>9, <2>2, <2>5, <2>7
      <3>4. TaskOutcome(j, "reducing", level, Len(its), g) = ReduceOutcome(j, Bytes(sub))
        BY <2>2 DEF TaskOutcome
      <3>5. TaskOutcome(j, "reducing", level, Len(its), g) = RangeOutcome(j, e[g - 1], e[g])
        BY <2>3, <3>2, <3>4
      <3> QED
        BY <3>3, <3>5 DEF Settled
    <2> QED
      BY <2>6, <2>7
  <1>20. Tiled(j, "reducing", level, its, e)
    BY <1>7, <1>8, <1>18, <1>19 DEF Tiled
  <1> QED
    BY <1>20 DEF level, its, F

LEMMA OneObject ==
    ASSUME NEW s, Listed(s), Len(s) = 1
    PROVE  Bytes(s) = <<s[1].bytes>>
  <1>1. DOMAIN s = 1..1
    BY ListedFacts
  <1>2. Bytes(s) = [k \in 1..1 |-> s[k].bytes]
    BY <1>1 DEF Bytes
  <1>3. \A k \in 1..1 : k = 1
    OBVIOUS
  <1>4. Bytes(s) = [k \in 1..1 |-> s[1].bytes]
    BY <1>2, <1>3
  <1> QED
    BY <1>4

LEMMA ChainFacts ==
    ASSUME NEW j \in Program
    PROVE  /\ Len(j.chain) \in Nat
           /\ \A n \in 1..Len(j.chain) : j.chain[n].inputs \in Seq(ObjectId)
  <1>1. j.chain \in Seq(TaskTemplate)
    BY ProgramAssumption
  <1>2. \A t \in TaskTemplate : t.inputs \in Seq(ObjectId)
    BY DEF TaskTemplate
  <1> QED
    BY <1>1, <1>2, ElementOfSeq

(* A role after one that failed fails too.                                 *)
LEMMA FailureLasts ==
    ASSUME NEW j \in Program, NEW n \in 0..Len(j.chain), ~Written(j)[n].ok
    PROVE  ~AsWritten(j).ok
  <1> DEFINE N == Len(j.chain)
             W == Written(j)
             P == {k \in 0..N : n <= k => ~W[k].ok}
  <1>1. N \in Nat
    BY ChainFacts
  <1>2. AsWritten(j) = W[N] /\ \A k \in 1..N : W[k] = RunRole(j, W[k - 1], k)
    BY <1>1, WrittenFacts
  <1>3. ~W[n].ok
    OBVIOUS
  <1> HIDE DEF W, N
  <1>4. 0 \in P
    <2>1. n <= 0 => n = 0
      BY <1>1 DEF N
    <2> QED
      BY <1>1, <1>3, <2>1
  <1>5. ASSUME NEW k \in 1..N, k - 1 \in P PROVE k \in P
    <2>1. k \in 0..N
      BY <1>1
    <2>2. CASE n <= k - 1
      <3>1. ~W[k - 1].ok
        BY <1>5, <2>2
      <3>2. W[k] = Fail
        BY <1>2, <3>1 DEF RunRole
      <3>3. ~W[k].ok
        BY <3>2 DEF Fail
      <3> QED
        BY <2>1, <3>3
    <2>3. CASE ~(n <= k - 1)
      <3>1. n <= k => n = k
        BY <1>1, <2>3 DEF N
      <3> QED
        BY <1>3, <2>1, <3>1
    <2> QED
      BY <2>2, <2>3
  <1> HIDE DEF P
  <1>6. \A k \in 1..N : k - 1 \in P => k \in P
    BY <1>5
  <1>7. \A k \in 0..N : k \in P
    BY <1>1, <1>4, <1>6, Induction
  <1>8. N \in 0..N /\ n <= N
    BY <1>1 DEF N
  <1>9. ~W[N].ok
    BY <1>7, <1>8 DEF P
  <1> QED
    BY <1>2, <1>9

(* What the first role of the chain makes of a level that is passed on.    *)
LEMMA PassedOn ==
    ASSUME NEW j \in Program, NEW s, Listed(s), Len(s) # 0, NEW c,
           Tiles(j, c, Len(s)), Made(j, s, c),
           Len(s) = 1 \/ (j.reduce = "none" /\ Len(s) \in ShardCounts(j)),
           Len(j.chain) >= 1
    PROVE  RoleOutcome(j.chain[1], Bytes(s)) = Written(j)[1]
  <1> DEFINE m == Len(s)
             one == AsOneTask(j)
             t == j.chain[1]
  <1>1. m \in Nat /\ m # 0 /\ DOMAIN s = 1..m
    BY ListedFacts
  <1>2. Written(j)[1] = IF one.ok THEN RoleOutcome(t, <<one.bytes>>) ELSE Fail
    <2>1. Len(j.chain) \in Nat /\ 1 \in 1..Len(j.chain)
      BY ChainFacts
    <2>2. Written(j)[0] = one /\ Written(j)[1] = RunRole(j, Written(j)[1 - 1], 1)
      BY <2>1, WrittenFacts
    <2>3. Written(j)[1] = RunRole(j, one, 1)
      BY <2>2
    <2> QED
      BY <2>3 DEF RunRole
  <1>3. CASE m = 1
    <2>1. c[0] = 0 /\ c[1] = Units(j)
      BY <1>3 DEF Tiles
    <2>2. RangeOutcome(j, c[1 - 1], c[1]) = Ok(s[1].bytes)
      BY <1>3 DEF Made
    <2>3. one = Ok(s[1].bytes)
      BY <2>1, <2>2, WholeRange
    <2>4. one.ok = TRUE /\ one.bytes = s[1].bytes
      BY <2>3, OkFacts
    <2>5. Bytes(s) = <<s[1].bytes>>
      BY <1>3, OneObject
    <2> HIDE DEF one
    <2> QED
      BY <1>2, <2>4, <2>5
  <1>4. CASE m # 1
    <2>1. m > 1 /\ j.reduce = "none" /\ m \in ShardCounts(j)
      BY <1>1, <1>4
    <2>2. ConsumerJoins(j)
      <3>1. j.chain # <<>>
        OBVIOUS
      <3> QED
        BY <2>1, <3>1, DivisibleAssumption
    <2>3. c \in [0..m -> 0..Units(j)] /\ c[0] = 0 /\ c[m] = Units(j)
      BY DEF Tiles
    <2>4. \A i \in 1..m : /\ c[i - 1] < c[i]
                          /\ RangeOutcome(j, c[i - 1], c[i]) = Ok(s[i].bytes)
      BY <2>1 DEF Tiles, Made
    <2> HIDE DEF m
    <2>5. Succeed(j, c, m)
      <3>1. ASSUME NEW i \in 1..m
            PROVE  c[i - 1] < c[i] /\ RangeOutcome(j, c[i - 1], c[i]).ok
        BY <2>4, OkFacts
      <3> QED
        BY <3>1 DEF Succeed
    <2>6. Bytes(Ranges(j, c, m)) = Bytes(s)
      <3> DEFINE R == Ranges(j, c, m)
      <3>1. DOMAIN R = 1..m /\ \A i \in 1..m : R[i] = RangeOutcome(j, c[i - 1], c[i])
        BY DEF Ranges
      <3> HIDE DEF R
      <3>2. ASSUME NEW i \in 1..m PROVE R[i].bytes = s[i].bytes
        <4>1. R[i] = Ok(s[i].bytes)
          BY <2>4, <3>1
        <4> QED
          BY <4>1, OkFacts
      <3>3. Bytes(R) = [i \in 1..m |-> s[i].bytes]
        BY <3>1, <3>2 DEF Bytes
      <3>4. Bytes(s) = [i \in 1..m |-> s[i].bytes]
        BY <1>1 DEF Bytes
      <3> QED
        BY <3>3, <3>4 DEF R
    <2>7. RoleOutcome(t, Bytes(Ranges(j, c, m)))
            = IF one.ok THEN RoleOutcome(t, <<one.bytes>>) ELSE Fail
      BY <2>1, <2>2, <2>3, <2>5 DEF ConsumerJoins
    <2> QED
      BY <1>2, <2>6, <2>7
  <1> QED
    BY <1>3, <1>4

(* The next n roles of the chain, fused or not, bring the job to where it  *)
(* is written to be after them.                                            *)
LEMMA ChainRuns ==
    ASSUME Levels, NEW n \in DOMAIN job.chain, next + n - 1 <= Len(job.chain),
           RoleOutcome(job.chain[next], Bytes(items)) = Written(job)[next]
    PROVE  LET templates == SubSeq(job.chain, next, next + n - 1)
           IN  (IF n = 1 THEN Separate(templates[1], templates[1].inputs \o Dependencies)
                ELSE Fused(FusedPipelineTask(templates, Dependencies)))
               = Written(job)[next + n - 1]
  <1> DEFINE chain == job.chain
             N == Len(chain)
             W == Written(job)
             lo == next - 1
             T == SubSeq(chain, lo + 1, lo + n)
  <1>1. job \in Program /\ Listed(items) /\ next \in Nat \ {0}
    BY DEF Levels
  <1>2. N \in Nat /\ \A k \in 1..N : chain[k].inputs \in Seq(ObjectId)
    BY <1>1, ChainFacts
  <1>3. \A k \in 1..N : W[k] = RunRole(job, W[k - 1], k)
    BY <1>2, WrittenFacts
  <1>4. PICK S : chain \in Seq(S)
    BY <1>1, ProgramAssumption
  <1>5. RoleOutcome(chain[next], Bytes(items)) = W[next]
    OBVIOUS
  <1>6. n \in 1..N
    <2> HIDE DEF chain
    <2>1. DOMAIN chain = 1..N
      BY <1>4
    <2> QED
      BY <2>1 DEF chain
  <1>7. next + n - 1 = lo + n /\ next = lo + 1 /\ lo \in Nat /\ n \in Nat /\ n # 0 /\ lo + n <= N
    <2> HIDE DEF N
    <2>1. next + n - 1 <= N
      BY DEF N
    <2> QED
      BY <1>1, <1>2, <1>6, <2>1
  <1> HIDE DEF chain, N, W, lo
  <1>8. /\ DOMAIN T = 1..n /\ Len(T) = n
        /\ \A q \in 1..n : T[q] = chain[lo + q] /\ T[q].inputs \in Seq(ObjectId)
    <2>1. DOMAIN T = 1..n /\ \A q \in 1..n : T[q] = chain[lo + q]
      BY <1>4, <1>7, SubSeqAt DEF N
    <2>2. lo + n \in 0..Len(chain) /\ lo <= lo + n /\ (lo + n) - lo = n
      BY <1>2, <1>7 DEF N
    <2>3. Len(T) = n
      BY <1>4, <1>7, <2>2, SubSeqFacts
    <2>4. \A q \in 1..n : lo + q \in 1..N
      BY <1>2, <1>7
    <2> HIDE DEF T
    <2> QED
      BY <1>2, <2>1, <2>3, <2>4
  <1>9. SubSeq(job.chain, next, next + n - 1) = T
    BY <1>7 DEF chain
  <1> HIDE DEF T
  <1>10. RoleOutcome(T[1], Bytes(items)) = W[lo + 1]
    <2>1. 1 \in 1..n
      BY <1>7
    <2> QED
      BY <1>5, <1>7, <1>8, <2>1
  <1>11. CASE n = 1
    <2>1. 1 \in 1..n
      BY <1>7
    <2>2. Separate(T[1], T[1].inputs \o Dependencies) = RoleOutcome(T[1], Bytes(items))
      BY <1>1, <1>8, <2>1, SeparateIs
    <2> QED
      BY <1>7, <1>9, <1>10, <1>11, <2>2 DEF W
  <1>12. CASE n # 1
    <2>1. Chainable(T)
      BY <1>1, <1>7, <1>8, <1>12 DEF Chainable
    <2>2. PICK f : InTurn(T, f) /\ Fused(FusedPipelineTask(T, Dependencies)) = f[n]
      BY <1>8, <2>1, FusedAsSeparate
    <2>3. /\ f[1] = RoleOutcome(T[1], Bytes(items))
          /\ \A i \in 2..n :
                f[i] = IF f[i - 1].ok THEN RoleOutcome(T[i], <<f[i - 1].bytes>>) ELSE Fail
      BY <1>8, <2>2 DEF InTurn
    <2> DEFINE P == {k \in 0..n : k >= 1 => f[k] = W[lo + k]}
    <2>4. 0 \in P
      BY <1>7
    <2>5. ASSUME NEW k \in 1..n, k - 1 \in P PROVE k \in P
      <3>1. k \in 0..n
        BY <1>7
      <3>2. CASE k = 1
        BY <1>10, <2>3, <3>1, <3>2
      <3>3. CASE k # 1
        <4>1. k \in 2..n /\ k - 1 >= 1 /\ lo + (k - 1) = (lo + k) - 1 /\ lo + k \in 1..N
          BY <1>2, <1>7, <3>3
        <4>2. f[k - 1] = W[(lo + k) - 1]
          BY <2>5, <4>1
        <4>3. f[k] = IF f[k - 1].ok THEN RoleOutcome(chain[lo + k], <<f[k - 1].bytes>>) ELSE Fail
          BY <1>8, <2>3, <4>1
        <4>4. W[lo + k] = RunRole(job, W[(lo + k) - 1], lo + k)
          BY <1>3, <4>1
        <4>5. f[k] = W[lo + k]
          BY <4>2, <4>3, <4>4 DEF RunRole, chain
        <4> QED
          BY <3>1, <4>5
      <3> QED
        BY <3>2, <3>3
    <2> HIDE DEF P
    <2>6. \A k \in 1..n : k - 1 \in P => k \in P
      BY <2>5
    <2>7. \A k \in 0..n : k \in P
      BY <1>7, <2>4, <2>6, Induction
    <2>8. n \in 0..n /\ n >= 1
      BY <1>7
    <2>9. f[n] = W[lo + n]
      BY <2>7, <2>8 DEF P
    <2> QED
      BY <1>7, <1>9, <1>12, <2>2, <2>9 DEF W
  <1> QED
    BY <1>11, <1>12

(* The inductive invariant.  Its heart is that the tasks of a level tile   *)
(* the units (Tiled), and that what the chain has left to do takes the     *)
(* outputs for what is written to be there.                                *)
Sound(j, ph, gs, s, nx) ==
    /\ ph \in {"planning", "shards", "reducing"} => nx = 1
    /\ ph = "shards" => Len(s) \in ShardCounts(j)
    /\ ph = "reducing" => j.reduce # "none"
    /\ ph \in {"shards", "reducing"} => \E b : Tiled(j, ph, gs, s, b)
    /\ ph = "chain" /\ nx <= Len(j.chain) => RoleOutcome(j.chain[nx], Bytes(s)) = Written(j)[nx]
    /\ ph = "done" => Ok(s[1].bytes) = AsWritten(j)
    /\ ph = "stopped" => ~AsWritten(j).ok

Meaning == Levels /\ Sound(job, phase, groups, items, next)

(* A level that has one more output, or all of them.                       *)
LEMMA AdvanceSound ==
    ASSUME NEW b, Levels, Sound(job, phase, groups, items, next), phase \in {"shards", "reducing"},
           NEW new, Tiled(job, phase, groups, new, b), Len(new) = Len(items),
           Advance(new), job' = job, next' = next
    PROVE  Sound(job', phase', groups', items', next')
  <1> DEFINE level == ReductionGroups(new, job.fanIn)
             complete == Waiting \notin Range(new)
  <1>1. /\ next = 1 /\ job \in Program
        /\ phase = "shards" => Len(items) \in ShardCounts(job)
        /\ phase = "reducing" => job.reduce # "none"
    BY DEF Sound, Levels
  <1>2. /\ Listed(new) /\ Len(new) # 0 /\ Tiles(job, b, Len(new))
        /\ \A i \in 1..Len(new) : Settled(job, phase, groups, new, b, i)
    BY DEF Tiled
  <1>3. Len(new) \in Nat /\ DOMAIN new = 1..Len(new)
    BY <1>2, ListedFacts
  <1>4. CASE ~complete
    <2>1. phase' = phase /\ items' = new /\ groups' = groups
      BY <1>4 DEF Advance
    <2> QED
      BY <1>1, <2>1 DEF Sound
  <1>5. ASSUME complete PROVE Made(job, new, b)
    <2>1. ASSUME NEW i \in 1..Len(new)
          PROVE  RangeOutcome(job, b[i - 1], b[i]) = Ok(new[i].bytes)
      <3>1. new[i] # Waiting
        BY <1>3, <1>5 DEF Range
      <3> QED
        BY <1>2, <3>1 DEF Settled
    <2> QED
      BY <2>1 DEF Made
  <1>6. CASE complete /\ job.reduce # "none" /\ Len(new) > 1
    <2>1. phase' = "reducing" /\ groups' = level /\ items' = Carried(level)
      BY <1>6 DEF Advance, Carried
    <2>2. \E c : Tiled(job, "reducing", level, Carried(level), c)
      BY <1>1, <1>2, <1>5, <1>6, NewLevel
    <2> HIDE DEF level
    <2> QED
      BY <1>1, <1>6, <2>1, <2>2 DEF Sound
  <1>7. CASE complete /\ ~(job.reduce # "none" /\ Len(new) > 1)
    <2>1. phase' = "chain" /\ items' = new
      BY <1>7 DEF Advance
    <2>2. Len(new) = 1 \/ (job.reduce = "none" /\ Len(new) \in ShardCounts(job))
      BY <1>1, <1>2, <1>3, <1>7
    <2>3. Len(job.chain) >= 1 => RoleOutcome(job.chain[1], Bytes(new)) = Written(job)[1]
      BY <1>1, <1>2, <1>5, <1>7, <2>2, PassedOn
    <2>4. Len(job.chain) \in Nat
      BY <1>1, ChainFacts
    <2>5. 1 <= Len(job.chain) => RoleOutcome(job.chain[1], Bytes(new)) = Written(job)[1]
      BY <2>3, <2>4
    <2> QED
      BY <1>1, <2>1, <2>5 DEF Sound
  <1> QED
    BY <1>4, <1>6, <1>7

(* A task of the current level fails, or commits.                          *)
LEMMA TaskSound ==
    ASSUME Levels, Sound(job, phase, groups, items, next), phase \in {"shards", "reducing"},
           NEW i \in DOMAIN items, items[i] = Waiting, NEW r, NEW outcome,
           outcome = TaskOutcome(job, phase, groups, Len(items), i),
           IF outcome.ok THEN Advance([items EXCEPT ![i] = Object(outcome.bytes, r)]) ELSE Stop,
           job' = job, next' = next
    PROVE  Sound(job', phase', groups', items', next')
  <1> DEFINE m == Len(items)
             x == Object(outcome.bytes, r)
             new == [items EXCEPT ![i] = x]
  <1>1. PICK b : Tiled(job, phase, groups, items, b)
    BY DEF Sound
  <1>2. /\ job \in Program /\ Listed(items) /\ m # 0 /\ Tiles(job, b, m)
        /\ \A k \in 1..m : Settled(job, phase, groups, items, b, k)
    BY <1>1 DEF Tiled, Levels
  <1>3. m \in Nat /\ DOMAIN items = 1..m /\ i \in 1..m
    BY <1>2, ListedFacts
  <1>4. outcome = RangeOutcome(job, b[i - 1], b[i])
    BY <1>2, <1>3 DEF Settled
  <1>5. IsOutcome(outcome)
    BY BuiltinOutcome DEF TaskOutcome, ShardOutcome, ReduceOutcome
  <1>6. CASE outcome.ok
    <2>1. outcome = Ok(outcome.bytes)
      BY <1>5, <1>6, OutcomeFacts
    <2>2. x.bytes = outcome.bytes
      BY DEF Object
    <2> HIDE DEF x
    <2>3. Listed(new) /\ Len(new) = m
      BY <1>2, ReplacedListed
    <2>4. new[i] = x /\ \A k \in 1..m : k # i => new[k] = items[k]
      BY <1>3
    <2>5. Advance(new)
      BY <1>6 DEF x
    <2> HIDE DEF new
    <2>6. ASSUME NEW k \in 1..m PROVE Settled(job, phase, groups, new, b, k)
      <3>1. CASE k # i
        <4>1. new[k] = items[k] /\ Settled(job, phase, groups, items, b, k)
          BY <1>2, <2>4, <3>1
        <4> QED
          BY <2>3, <4>1 DEF Settled
      <3>2. CASE k = i
        <4>1. RangeOutcome(job, b[k - 1], b[k]) = Ok(new[k].bytes)
          BY <1>4, <2>1, <2>2, <2>4, <3>2
        <4>2. TaskOutcome(job, phase, groups, Len(new), k) = RangeOutcome(job, b[k - 1], b[k])
          BY <1>4, <2>3, <3>2
        <4> QED
          BY <4>1, <4>2 DEF Settled
      <3> QED
        BY <3>1, <3>2
    <2>7. Tiled(job, phase, groups, new, b)
      BY <1>2, <2>3, <2>6 DEF Tiled
    <2> QED
      BY <2>3, <2>5, <2>7, AdvanceSound
  <1>7. CASE ~outcome.ok
    <2>1. phase' = "stopped"
      BY <1>7 DEF Stop
    <2>2. ~RangeOutcome(job, b[i - 1], b[i]).ok
      BY <1>4, <1>7
    <2>3. b \in [0..m -> 0..Units(job)] /\ b[0] = 0 /\ b[m] = Units(job)
      BY <1>2 DEF Tiles
    <2>4. ~AsOneTask(job).ok
      <3>1. CASE m = 1
        <4>1. i = 1 /\ b[i - 1] = 0 /\ b[i] = Units(job)
          BY <1>3, <2>3, <3>1
        <4> QED
          BY <1>2, <2>2, <4>1, WholeRange
      <3>2. CASE m # 1
        <4>1. m > 1
          BY <1>2, <1>3, <3>2
        <4>2. b[i - 1] < b[i]
          BY <1>2, <1>3, <4>1 DEF Tiles
        <4>3. i \in 0..m /\ i - 1 \in 0..m
          BY <1>3
        <4>4. b[i - 1] \in 0..Units(job) /\ b[i] \in 0..Units(job)
          BY <2>3, <4>3
        <4>5. FailsWithPart(job)
          BY <1>2, DivisibleAssumption
        <4> QED
          BY <2>2, <4>2, <4>4, <4>5 DEF FailsWithPart
      <3> QED
        BY <3>1, <3>2
    <2>5. ~AsWritten(job).ok
      <3>1. Len(job.chain) \in Nat /\ 0 \in 0..Len(job.chain)
        BY <1>2, ChainFacts
      <3>2. Written(job)[0] = AsOneTask(job)
        BY <3>1, WrittenFacts
      <3>3. ~Written(job)[0].ok
        BY <2>4, <3>2
      <3> QED
        BY <1>2, <3>1, <3>3, FailureLasts
    <2> QED
      BY <2>1, <2>5 DEF Sound
  <1> QED
    BY <1>6, <1>7

LEMMA PlanSound ==
    ASSUME Levels, Sound(job, phase, groups, items, next), NEW count, PlanShards(count)
    PROVE  Sound(job', phase', groups', items', next')
  <1> DEFINE new == [i \in 1..count |-> Waiting]
  <1>1. /\ job \in Program /\ count \in ShardCounts(job) /\ next = 1
        /\ phase' = "shards" /\ items' = new /\ job' = job /\ groups' = groups /\ next' = next
    BY DEF PlanShards, Sound, Levels
  <1>2. count \in Nat \ {0}
    BY <1>1, ShardsTile
  <1>3. PICK b : /\ Tiles(job, b, count)
                 /\ \A i \in 1..count :
                       ShardOutcome(job, i, count) = RangeOutcome(job, b[i - 1], b[i])
    BY <1>1, ShardsTile
  <1>4. new = [i \in 1..count |-> new[i]] /\ \A i \in 1..count : new[i] = Waiting
    OBVIOUS
  <1> HIDE DEF new
  <1>5. Listed(new) /\ Len(new) = count
    BY <1>2, <1>4, ListedFunction
  <1>6. ASSUME NEW i \in 1..count PROVE Settled(job, "shards", groups, new, b, i)
    <2>1. TaskOutcome(job, "shards", groups, Len(new), i) = RangeOutcome(job, b[i - 1], b[i])
      BY <1>3, <1>5 DEF TaskOutcome
    <2> QED
      BY <1>4, <2>1 DEF Settled
  <1>7. Tiled(job, "shards", groups, new, b)
    BY <1>2, <1>3, <1>5, <1>6 DEF Tiled
  <1> QED
    BY <1>1, <1>5, <1>7 DEF Sound

LEMMA ChainSound ==
    ASSUME Levels, Sound(job, phase, groups, items, next), NEW n \in DOMAIN job.chain,
           NEW r, RunChain(n, r)
    PROVE  Sound(job', phase', groups', items', next')
  <1> DEFINE N == Len(job.chain)
             W == Written(job)
             templates == SubSeq(job.chain, next, next + n - 1)
             outcome == IF n = 1 THEN Separate(templates[1], templates[1].inputs \o Dependencies)
                        ELSE Fused(FusedPipelineTask(templates, Dependencies))
  <1>1. job \in Program /\ next \in Nat \ {0} /\ N \in Nat
    BY ChainFacts DEF Levels
  <1>2. n \in Nat \ {0}
    <2>1. PICK S : job.chain \in Seq(S)
      BY <1>1, ProgramAssumption
    <2> QED
      BY <2>1
  <1>3. phase = "chain" /\ next + n - 1 <= N /\ next' = next + n /\ job' = job
    BY DEF RunChain
  <1>4. /\ outcome.ok => /\ items' = <<Object(outcome.bytes, r)>>
                         /\ phase' = IF next + n > N THEN "done" ELSE "chain"
        /\ ~outcome.ok => phase' = "stopped"
    BY DEF RunChain, Stop
  <1> HIDE DEF N
  <1>5. next <= N
    BY <1>1, <1>2, <1>3
  <1>6. RoleOutcome(job.chain[next], Bytes(items)) = W[next]
    BY <1>3, <1>5 DEF Sound, N
  <1>7. outcome = W[next + n - 1]
    BY <1>3, <1>6, ChainRuns DEF N
  <1> HIDE DEF templates, outcome, W
  <1> DEFINE k == next + n - 1
  <1>8. k \in 0..N /\ next + n = k + 1
    BY <1>1, <1>2, <1>3
  <1>9. outcome = W[k]
    BY <1>7
  <1>10. next' = k + 1
    BY <1>3, <1>8
  <1>11. /\ AsWritten(job) = W[N]
         /\ \A q \in 1..N : W[q] = RunRole(job, W[q - 1], q)
    BY <1>1, WrittenFacts DEF W, N
  <1>12. outcome.ok => phase' = IF k + 1 > N THEN "done" ELSE "chain"
    BY <1>4, <1>8
  <1> HIDE DEF k
  <1>13. CASE ~outcome.ok
    <2>1. ~AsWritten(job).ok
      BY <1>1, <1>8, <1>9, <1>13, FailureLasts DEF W, N
    <2>2. phase' = "stopped"
      BY <1>4, <1>13
    <2> QED
      BY <1>3, <2>1, <2>2 DEF Sound
  <1>14. CASE outcome.ok
    <2> DEFINE x == Object(outcome.bytes, r)
               new == <<x>>
    <2>1. IsOutcome(W[k])
      <3>1. k \in 1..N
        BY <1>1, <1>2, <1>8 DEF k
      <3>2. W[k] = RunRole(job, W[k - 1], k)
        BY <1>11, <3>1
      <3>3. IsOutcome(RoleOutcome(job.chain[k], <<W[k - 1].bytes>>))
        BY BuiltinOutcome DEF RoleOutcome
      <3>4. IsOutcome(Fail)
        BY DEF IsOutcome
      <3> QED
        BY <3>2, <3>3, <3>4 DEF RunRole
    <2>2. outcome = Ok(outcome.bytes)
      BY <1>9, <1>14, <2>1, OutcomeFacts
    <2>3. x.bytes = outcome.bytes
      BY DEF Object
    <2> HIDE DEF x
    <2>4. new[1] = x /\ Len(new) = 1 /\ new \in Seq({x})
      OBVIOUS
    <2>5. items' = new
      BY <1>4, <1>14 DEF x
    <2> HIDE DEF new
    <2>6. Bytes(new) = <<outcome.bytes>>
      <3>1. Listed(new)
        BY <2>4 DEF Listed
      <3>2. Bytes(new) = <<new[1].bytes>>
        BY <2>4, <3>1, OneObject
      <3> QED
        BY <2>3, <2>4, <3>2
    <2>7. CASE k + 1 > N
      <3>1. k = N
        BY <1>1, <1>8, <2>7
      <3>2. phase' = "done"
        BY <1>12, <1>14, <2>7
      <3>3. Ok(new[1].bytes) = AsWritten(job)
        BY <1>9, <1>11, <2>2, <2>3, <2>4, <3>1
      <3> QED
        BY <1>3, <2>5, <3>2, <3>3 DEF Sound
    <2>8. CASE ~(k + 1 > N)
      <3>1. k + 1 \in 1..N /\ (k + 1) - 1 = k
        BY <1>1, <1>8, <2>8
      <3>2. phase' = "chain"
        BY <1>12, <1>14, <2>8
      <3>3. W[k + 1] = RunRole(job, W[k], k + 1)
        BY <1>11, <3>1
      <3>4. W[k + 1] = RoleOutcome(job.chain[k + 1], Bytes(new))
        BY <1>9, <1>14, <2>6, <3>3 DEF RunRole
      <3> QED
        BY <1>3, <1>10, <2>5, <3>2, <3>4 DEF Sound, W
    <2> QED
      BY <2>7, <2>8
  <1> QED
    BY <1>13, <1>14

LEMMA StepSound ==
    ASSUME Meaning, [Next]_vars
    PROVE  Meaning'
  <1>1. Levels /\ Sound(job, phase, groups, items, next)
    BY DEF Meaning
  <1>2. Levels'
    BY <1>1, StepKeepsLevels
  <1>3. CASE UNCHANGED vars
    BY <1>1, <1>2, <1>3 DEF Meaning, vars
  <1>4. ASSUME NEW count \in ShardCounts(job), PlanShards(count)
        PROVE  Sound(job', phase', groups', items', next')
    BY <1>1, <1>4, PlanSound
  <1>5. ASSUME NEW r \in Resource, NEW i \in DOMAIN items, RunShard(i, r)
        PROVE  Sound(job', phase', groups', items', next')
    <2> DEFINE outcome == ShardOutcome(job, i, Len(items))
    <2>1. /\ phase = "shards" /\ items[i] = Waiting /\ job' = job /\ next' = next
          /\ IF outcome.ok THEN Advance([items EXCEPT ![i] = Object(outcome.bytes, r)]) ELSE Stop
      BY <1>5 DEF RunShard
    <2>2. outcome = TaskOutcome(job, phase, groups, Len(items), i)
      BY <2>1 DEF TaskOutcome
    <2> HIDE DEF outcome
    <2> QED
      BY <1>1, <2>1, <2>2, TaskSound
  <1>6. ASSUME NEW r \in Resource, NEW i \in DOMAIN items, RunReduction(i, r)
        PROVE  Sound(job', phase', groups', items', next')
    <2> DEFINE outcome == ReduceOutcome(job, Bytes(groups[i]))
    <2>1. /\ phase = "reducing" /\ items[i] = Waiting /\ job' = job /\ next' = next
          /\ IF outcome.ok THEN Advance([items EXCEPT ![i] = Object(outcome.bytes, r)]) ELSE Stop
      BY <1>6 DEF RunReduction
    <2>2. outcome = TaskOutcome(job, phase, groups, Len(items), i)
      BY <2>1 DEF TaskOutcome
    <2> HIDE DEF outcome
    <2> QED
      BY <1>1, <2>1, <2>2, TaskSound
  <1>7. ASSUME NEW r \in Resource, NEW n \in DOMAIN job.chain, RunChain(n, r)
        PROVE  Sound(job', phase', groups', items', next')
    BY <1>1, <1>7, ChainSound
  <1>8. CASE Next
    BY <1>2, <1>4, <1>5, <1>6, <1>7, <1>8 DEF Next, Meaning
  <1> QED
    BY <1>3, <1>8

LEMMA MeaningHolds == Spec => []Meaning
  <1>1. Init => Meaning
    <2> SUFFICES ASSUME Init PROVE Meaning
      OBVIOUS
    <2>1. job \in Program /\ phase = "planning" /\ items = <<>> /\ next = 1
      BY DEF Init
    <2>2. Listed(items)
      BY <2>1 DEF Listed
    <2>3. Levels
      BY <2>1, <2>2 DEF Levels
    <2>4. Sound(job, phase, groups, items, next)
      BY <2>1 DEF Sound
    <2> QED
      BY <2>3, <2>4 DEF Meaning
  <1>2. Meaning /\ [Next]_vars => Meaning'
    BY StepSound
  <1> QED
    BY <1>1, <1>2, PTL DEF Spec

(* Every job that completes has the result that its roles compute when     *)
(* each is one task: for every number of shards that the planner may       *)
(* choose, every order in which they commit, every grouping that locality  *)
(* makes on every level and every way to fuse the chain.                   *)
THEOREM ResultHolds == Spec => []ResultAsWritten
  <1>1. Meaning => ResultAsWritten
    BY DEF Meaning, Sound, ResultAsWritten
  <1> QED
    BY <1>1, MeaningHolds, PTL

(* Every job that stops, because a task fails however often it is retried, *)
(* has a role that fails as one task: sharding, reducing and fusing add no *)
(* failure.                                                                *)
THEOREM FailuresHold == Spec => []FailsOnlyAsWritten
  <1>1. Meaning => FailsOnlyAsWritten
    BY DEF Meaning, Sound, FailsOnlyAsWritten
  <1> QED
    BY <1>1, MeaningHolds, PTL

-----------------------------------------------------------------------------
(* A role that passes its parts on and a reducer that puts them together.  *)

LEMMA PositionFacts ==
    ASSUME NEW j \in Program, j.auto, NEW lo \in 0..Units(j), NEW hi \in 0..Units(j), lo <= hi
    PROVE  /\ Position(j, lo) \in 0..Len(Source(j)) /\ Position(j, hi) \in 0..Len(Source(j))
           /\ Position(j, lo) <= Position(j, hi)
  <1> DEFINE size == Len(Source(j))
             o == j.offsets
  <1>1. Units(j) \in Nat /\ j.byRecords \in BOOLEAN /\ size \in Nat
    BY UnitsFacts
  <1>2. CASE ~j.byRecords
    <2>1. Units(j) = size
      BY <1>2 DEF Units, PartitionUnits
    <2>2. Position(j, lo) = lo /\ Position(j, hi) = hi
      BY <1>2 DEF Position
    <2> QED
      BY <2>1, <2>2
  <1>3. CASE j.byRecords
    <2>1. o \in Seq(Nat) /\ ValidRecordOffsets(o, size)
      BY <1>3, UnitsFacts
    <2>2. Units(j) = Len(o) - 1
      BY <1>3 DEF Units, PartitionUnits
    <2>3. Position(j, lo) = o[lo + 1] /\ Position(j, hi) = o[hi + 1]
      BY <1>3 DEF Position
    <2>4. o[Len(o)] = size
      BY <2>1 DEF ValidRecordOffsets
    <2> HIDE DEF o, size
    <2>5. Len(o) \in Nat
      BY <2>1
    <2>6. lo + 1 \in 1..Len(o) /\ hi + 1 \in 1..Len(o) /\ Len(o) \in 1..Len(o)
          /\ lo + 1 <= hi + 1 /\ hi + 1 <= Len(o)
      BY <1>1, <2>2, <2>5
    <2>7. o[lo + 1] \in Nat /\ o[hi + 1] \in Nat
      BY <2>1, <2>6, ElementOfSeq
    <2>8. o[lo + 1] <= o[hi + 1]
      BY <1>1, <2>1, <2>6, OffsetsIncrease
    <2>9. o[hi + 1] <= o[Len(o)]
      BY <1>1, <2>1, <2>6, OffsetsIncrease
    <2>10. o[lo + 1] \in 0..size /\ o[hi + 1] \in 0..size
      BY <1>1, <2>4, <2>7, <2>8, <2>9
    <2> QED
      BY <2>3, <2>8, <2>10 DEF size
  <1> QED
    BY <1>1, <1>2, <1>3

LEMMA SubSeqsJoin ==
    ASSUME NEW S, NEW s \in Seq(S), NEW p \in Nat, NEW q \in Nat, NEW r \in Nat,
           p <= q, q <= r, r <= Len(s)
    PROVE  SubSeq(s, p + 1, q) \o SubSeq(s, q + 1, r) = SubSeq(s, p + 1, r)
  <1> DEFINE m == q - p
             n == r - q
             c == SubSeq(s, p + 1, p + m)
             d == SubSeq(s, q + 1, q + n)
             f == SubSeq(s, p + 1, p + (m + n))
  <1>1. /\ m \in Nat /\ n \in Nat /\ m + n \in Nat /\ p + m = q /\ q + n = r /\ p + (m + n) = r
        /\ p + m <= Len(s) /\ q + n <= Len(s) /\ p + (m + n) <= Len(s)
    OBVIOUS
  <1> HIDE DEF m, n
  <1>2. DOMAIN c = 1..m /\ \A k \in 1..m : c[k] = s[p + k]
    BY <1>1, SubSeqAt
  <1>3. DOMAIN d = 1..n /\ \A k \in 1..n : d[k] = s[q + k]
    BY <1>1, SubSeqAt
  <1>4. DOMAIN f = 1..(m + n) /\ \A k \in 1..(m + n) : f[k] = s[p + k]
    BY <1>1, SubSeqAt
  <1>5. c \in Seq(S) /\ Len(c) = m
    <2>1. p + m \in 0..Len(s) /\ p <= p + m /\ (p + m) - p = m
      BY <1>1
    <2> QED
      BY <2>1, SubSeqFacts
  <1>6. d \in Seq(S) /\ Len(d) = n
    <2>1. q + n \in 0..Len(s) /\ q <= q + n /\ (q + n) - q = n
      BY <1>1
    <2> QED
      BY <2>1, SubSeqFacts
  <1>7. f \in Seq(S)
    <2>1. p + (m + n) \in 0..Len(s) /\ p <= p + (m + n)
      BY <1>1
    <2> QED
      BY <2>1, SubSeqFacts
  <1> HIDE DEF c, d, f
  <1>8. f = [k \in DOMAIN f |-> f[k]]
    BY <1>7
  <1>9. \A k \in 1..m : f[k] = c[k]
    BY <1>1, <1>2, <1>4
  <1>10. ASSUME NEW k \in 1..n PROVE f[m + k] = d[k]
    <2>1. m + k \in 1..(m + n) /\ p + (m + k) = q + k
      BY <1>1
    <2>2. f[m + k] = s[p + (m + k)]
      BY <1>4, <2>1
    <2> QED
      BY <1>3, <2>1, <2>2
  <1>11. Joins(f, c, d)
    BY <1>4, <1>5, <1>6, <1>8, <1>9, <1>10 DEF Joins
  <1>12. f = c \o d
    <2>1. Listed(c) /\ Listed(d)
      BY <1>5, <1>6 DEF Listed
    <2> QED
      BY <1>11, <2>1, ConcatIs
  <1> QED
    BY <1>1, <1>12 DEF c, d, f

(* What the units of neighbouring ranges are together.                     *)
LEMMA UnitsJoin ==
    ASSUME NEW j \in Program, j.auto, NEW m \in Nat \ {0}, NEW b \in [0..m -> 0..Units(j)],
           \A i \in 1..m : b[i - 1] < b[i],
           NEW seqs, seqs = [i \in 1..m |-> UnitsBytes(j, b[i - 1], b[i])]
    PROVE  FlattenSeq(seqs) = UnitsBytes(j, b[0], b[m])
  <1> DEFINE units == Units(j)
             s == Source(j)
             S == 0..(Base - 1)
             U(lo, hi) == UnitsBytes(j, lo, hi)
  <1>1. units \in Nat /\ s \in Seq(S)
    BY UnitsFacts
  <1> HIDE DEF S
  <1>2. \A i \in 0..m : b[i] \in Nat /\ b[i] \in 0..units
    BY <1>1
  <1>3. \A i \in 1..m : b[i - 1] <= b[i]
    <2>1. \A i \in 1..m : i \in 0..m /\ i - 1 \in 0..m
      OBVIOUS
    <2> QED
      BY <1>2, <2>1
  <1>4. ASSUME NEW lo \in 0..units, NEW hi \in 0..units, lo <= hi
        PROVE  /\ U(lo, hi) \in Seq(S)
               /\ U(lo, hi) = SubSeq(s, Position(j, lo) + 1, Position(j, hi))
               /\ Position(j, lo) \in 0..Len(s) /\ Position(j, hi) \in 0..Len(s)
               /\ Position(j, lo) <= Position(j, hi)
    <2>1. /\ Position(j, lo) \in 0..Len(s) /\ Position(j, hi) \in 0..Len(s)
          /\ Position(j, lo) <= Position(j, hi)
      BY <1>4, PositionFacts
    <2>2. U(lo, hi) = SubSeq(s, Position(j, lo) + 1, Position(j, hi))
      BY DEF UnitsBytes
    <2>3. SubSeq(s, Position(j, lo) + 1, Position(j, hi)) \in Seq(S)
      <3>1. Position(j, lo) \in Nat
        BY <1>1, <2>1
      <3> QED
        BY <1>1, <2>1, <3>1, SubSeqFacts
    <2> QED
      BY <2>1, <2>2, <2>3
  <1>5. ASSUME NEW lo \in 0..units, NEW mid \in 0..units, NEW hi \in 0..units,
               lo <= mid, mid <= hi
        PROVE  U(lo, mid) \o U(mid, hi) = U(lo, hi)
    <2> DEFINE p == Position(j, lo)
               q == Position(j, mid)
               r == Position(j, hi)
    <2>1. lo <= hi
      BY <1>1, <1>5
    <2>2. /\ U(lo, mid) = SubSeq(s, p + 1, q) /\ U(mid, hi) = SubSeq(s, q + 1, r)
          /\ U(lo, hi) = SubSeq(s, p + 1, r)
          /\ p \in 0..Len(s) /\ q \in 0..Len(s) /\ r \in 0..Len(s) /\ p <= q /\ q <= r
      BY <1>4, <1>5, <2>1
    <2> HIDE DEF p, q, r, U, s
    <2>3. Len(s) \in Nat
      BY <1>1
    <2>4. p \in Nat /\ q \in Nat /\ r \in Nat /\ r <= Len(s) /\ p <= q /\ q <= r
      BY <2>2, <2>3
    <2>5. SubSeq(s, p + 1, q) \o SubSeq(s, q + 1, r) = SubSeq(s, p + 1, r)
      BY <1>1, <2>4, SubSeqsJoin
    <2> QED
      BY <2>2, <2>5
  <1>6. seqs = [i \in 1..m |-> U(b[i - 1], b[i])]
    OBVIOUS
  <1> HIDE DEF U, units, s
  <1>7. seqs \in Seq(Seq(S)) /\ Len(seqs) = m
    <2>1. ASSUME NEW i \in 1..m PROVE U(b[i - 1], b[i]) \in Seq(S)
      <3>1. b[i - 1] \in 0..units /\ b[i] \in 0..units /\ b[i - 1] <= b[i]
        <4>1. i \in 0..m /\ i - 1 \in 0..m
          OBVIOUS
        <4> QED
          BY <1>2, <1>3, <4>1
      <3> QED
        BY <1>4, <3>1
    <2>2. seqs \in [1..m -> Seq(S)]
      BY <1>6, <2>1
    <2> DEFINE V == Seq(S)
    <2>3. seqs \in [1..m -> V]
      BY <2>2
    <2> HIDE DEF V
    <2>4. seqs \in Seq(V) /\ Len(seqs) = m
      BY <2>3
    <2> QED
      BY <2>4 DEF V
  <1>8. PICK g : Flattened(g, seqs, S) /\ FlattenSeq(seqs) = g[m]
    <2>1. Len(seqs) # 0
      BY <1>7
    <2> QED
      BY <1>7, <2>1, FlattenRecurs
  <1>9. g[1] = seqs[1] /\ \A i \in 2..m : g[i] = g[i - 1] \o seqs[i]
    BY <1>7, <1>8 DEF Flattened
  <1> DEFINE P == {i \in 0..m : i >= 1 => g[i] = U(b[0], b[i])}
  <1>10. 0 \in P
    OBVIOUS
  <1>11. ASSUME NEW i \in 1..m, i - 1 \in P PROVE i \in P
    <2>1. i \in 0..m /\ i - 1 \in 0..m /\ 0 \in 0..m /\ 0 <= i - 1
      OBVIOUS
    <2>2. seqs[i] = U(b[i - 1], b[i])
      BY <1>6
    <2>3. CASE i = 1
      <3>1. i - 1 = 0
        BY <2>3
      <3>2. g[i] = U(b[0], b[i])
        BY <1>9, <2>2, <2>3, <3>1
      <3> QED
        BY <2>1, <3>2
    <2>4. CASE i # 1
      <3>1. i \in 2..m /\ i - 1 >= 1
        BY <2>4
      <3>2. g[i - 1] = U(b[0], b[i - 1])
        BY <1>11, <3>1
      <3>3. b[0] <= b[i - 1]
        BY <1>2, <1>3, <2>1, Nondecreasing
      <3>4. b[0] \in 0..units /\ b[i - 1] \in 0..units /\ b[i] \in 0..units /\ b[i - 1] <= b[i]
        BY <1>2, <1>3, <2>1
      <3>5. U(b[0], b[i - 1]) \o U(b[i - 1], b[i]) = U(b[0], b[i])
        BY <1>5, <3>3, <3>4
      <3>6. g[i] = g[i - 1] \o seqs[i]
        BY <1>9, <3>1
      <3>7. g[i] = U(b[0], b[i])
        BY <2>2, <3>2, <3>5, <3>6
      <3> QED
        BY <2>1, <3>7
    <2> QED
      BY <2>3, <2>4
  <1> HIDE DEF P
  <1>12. \A i \in 1..m : i - 1 \in P => i \in P
    BY <1>11
  <1>13. \A i \in 0..m : i \in P
    BY <1>10, <1>12, Induction
  <1>14. m \in 0..m /\ m >= 1
    OBVIOUS
  <1>15. g[m] = U(b[0], b[m])
    BY <1>13, <1>14 DEF P
  <1> QED
    BY <1>8, <1>15 DEF U

(* The contract is one that operations of the agent keep: with             *)
(* shard-sleep-input and the reducer concat, over any input cut into bytes *)
(* or records, a shard is the role over its part, nothing fails, and any   *)
(* neighbouring parts are put together in order.                           *)
THEOREM ConcatKeepsContract ==
    ASSUME NEW j \in Program, j.auto, j.op = "shard-sleep-input", j.reduce = "concat"
    PROVE  ShardsAreParts(j) /\ FailsWithPart(j) /\ OrderedAssociative(j)
  <1>1. ASSUME NEW x, NEW index, NEW count, count # 0
        PROVE  ExecuteBuiltin(j.op, j.args, <<x>>, Shard(index, count)) = Ok(x)
    <2>1. Shard(index, count) # NoShard
      <3>1. Shard(index, count).count = count /\ NoShard.count = 0
        BY DEF Shard, NoShard
      <3> QED
        BY <1>1, <3>1
    <2>2. <<x>> # <<>> /\ <<x>>[1] = x
      OBVIOUS
    <2> DEFINE shard == Shard(index, count)
               inputs == <<x>>
    <2>3. shard # NoShard /\ inputs # <<>> /\ inputs[1] = x
      BY <2>1, <2>2
    <2> HIDE DEF shard, inputs
    <2>4. ExecuteBuiltin("shard-sleep-input", j.args, inputs, shard) = Ok(x)
      BY <2>3 DEF ExecuteBuiltin
    <2> QED
      BY <2>4 DEF shard, inputs
  <1>2. \A lo, hi : RangeOutcome(j, lo, hi) = Ok(UnitsBytes(j, lo, hi))
    BY <1>1 DEF RangeOutcome
  <1>3. ShardsAreParts(j)
    <2>1. ASSUME NEW lo, NEW hi, NEW count \in ShardCounts(j), NEW i \in 1..count
          PROVE  ExecuteBuiltin(j.op, j.args, <<UnitsBytes(j, lo, hi)>>, Shard(i - 1, count))
                   = RangeOutcome(j, lo, hi)
      <3>1. count # 0
        <4>1. MaxCount(j.shards, Units(j)) \in Nat
          BY UnitsFacts DEF MaxCount
        <4> QED
          BY <4>1 DEF ShardCounts
      <3> QED
        BY <1>1, <1>2, <3>1
    <2> QED
      BY <2>1 DEF ShardsAreParts
  <1>4. FailsWithPart(j)
    <2>1. \A lo, hi : RangeOutcome(j, lo, hi).ok = TRUE
      <3> TAKE lo, hi
      <3>1. RangeOutcome(j, lo, hi) = Ok(UnitsBytes(j, lo, hi))
        BY <1>2
      <3> QED
        BY <3>1, OkFacts
    <2> QED
      BY <2>1 DEF FailsWithPart
  <1>5. ASSUME NEW m \in 2..j.fanIn, NEW b \in [0..m -> 0..Units(j)], Succeed(j, b, m)
        PROVE  ReduceOutcome(j, Bytes(Ranges(j, b, m))) = RangeOutcome(j, b[0], b[m])
    <2> DEFINE R == Ranges(j, b, m)
               seqs == Bytes(R)
    <2>1. m \in Nat \ {0}
      <3>1. j.fanIn \in Nat
        BY ProgramAssumption
      <3> QED
        BY <3>1
    <2>2. \A i \in 1..m : b[i - 1] < b[i]
      BY <1>5 DEF Succeed
    <2>3. DOMAIN R = 1..m /\ \A i \in 1..m : R[i] = RangeOutcome(j, b[i - 1], b[i])
      BY DEF Ranges
    <2> HIDE DEF R
    <2>4. \A i \in 1..m : R[i].bytes = UnitsBytes(j, b[i - 1], b[i])
      <3> TAKE i \in 1..m
      <3>1. R[i] = Ok(UnitsBytes(j, b[i - 1], b[i]))
        BY <1>2, <2>3
      <3> QED
        BY <3>1, OkFacts
    <2>5. seqs = [i \in 1..m |-> UnitsBytes(j, b[i - 1], b[i])]
      BY <2>3, <2>4 DEF Bytes
    <2> HIDE DEF seqs
    <2>6. FlattenSeq(seqs) = UnitsBytes(j, b[0], b[m])
      BY <2>1, <2>2, <2>5, UnitsJoin
    <2>7. ExecuteBuiltin("concat", <<>>, seqs, NoShard) = Ok(FlattenSeq(seqs))
      BY DEF ExecuteBuiltin
    <2>8. ReduceOutcome(j, seqs) = RangeOutcome(j, b[0], b[m])
      BY <1>2, <2>6, <2>7 DEF ReduceOutcome
    <2> QED
      BY <2>8 DEF seqs, R
  <1>6. OrderedAssociative(j)
    BY <1>5 DEF OrderedAssociative
  <1> QED
    BY <1>3, <1>4, <1>6

=============================================================================
