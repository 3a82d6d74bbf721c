-------------------------- MODULE WorkerTicksProofs --------------------------
(***************************************************************************)
(* Proofs about WorkerTicks and the components it composes: the partitions *)
(* and journals of the ECS world and how they are merged, the arithmetic   *)
(* of the scratch arenas and the thread budget, the ticks the programs     *)
(* make of them and the merges of a free owner, for every world size,      *)
(* arena capacity, CPU count, number of ticks and number of workers.       *)
(***************************************************************************)
EXTENDS WorkerTicks, SequenceTheorems, FiniteSetTheorems, WellFoundedInduction, TLAPS

-----------------------------------------------------------------------------
(* Numbers and sequences.                                                  *)

(* Every nonempty set of numbers has a least one; induction below rests on  *)
(* this fact.                                                               *)
LEMMA LeastNumber ==
  ASSUME NEW T \in SUBSET Nat, T # {}
  PROVE  \E n \in T : \A m \in T : n <= m
<1>1. PICK n \in T : \A m \in T : ~(<<m, n>> \in OpToRel(<, Nat))
  BY NatLessThanWellFounded, WFMin
<1>2. \A m \in T : ~(m < n)
  BY <1>1 DEF OpToRel
<1> QED
  BY <1>2

(* Induction up to a bound, over the set of the numbers that have a         *)
(* property.                                                                *)
LEMMA UpTo ==
  ASSUME NEW n \in Nat \ {0}, NEW T, 1 \in T,
         \A m \in 1..(n - 1) : m \in T => m + 1 \in T
  PROVE  \A m \in 1..n : m \in T
<1> DEFINE Bad == {m \in 1..n : m \notin T}
<1>1. SUFFICES ASSUME Bad # {} PROVE FALSE
  OBVIOUS
<1>2. Bad \in SUBSET Nat
  OBVIOUS
<1>3. PICK m \in Bad : \A k \in Bad : m <= k
  <2> HIDE DEF Bad
  <2> QED
    BY <1>1, <1>2, LeastNumber
<1>4. m \in 1..n /\ m \notin T /\ m # 1
  OBVIOUS
<1>5. m - 1 \in 1..(n - 1) /\ m - 1 \in 1..n /\ m - 1 < m /\ (m - 1) + 1 = m
  BY <1>4
<1>6. m - 1 \in T
  BY <1>3, <1>5
<1> QED
  BY <1>4, <1>5, <1>6

(* f holds the concatenations of the first sequences of seqs.               *)
Joins(f, seqs, n) ==
  /\ f[1] = seqs[1]
  /\ \A i \in 2..n : f[i] = f[i - 1] \o seqs[i]

(* Such concatenations exist.                                               *)
LEMMA JoinsExists ==
  ASSUME NEW S, NEW n \in Nat \ {0}, NEW seqs \in [1..n -> Seq(S)]
  PROVE  \E f \in [1..n -> Seq(S)] : Joins(f, seqs, n)
<1> DEFINE T == {m \in 1..n : \E f \in [1..m -> Seq(S)] : Joins(f, seqs, m)}
<1>1. 1 \in T
  <2> DEFINE f == [i \in 1..1 |-> seqs[1]]
  <2>1. f \in [1..1 -> Seq(S)] /\ Joins(f, seqs, 1)
    BY DEF Joins
  <2> QED
    BY <2>1
<1>2. ASSUME NEW m \in 1..(n - 1), m \in T PROVE m + 1 \in T
  <2>1. PICK f \in [1..m -> Seq(S)] : Joins(f, seqs, m)
    BY <1>2
  <2> DEFINE g == [i \in 1..(m + 1) |-> IF i <= m THEN f[i] ELSE f[m] \o seqs[m + 1]]
  <2>2. f[m] \o seqs[m + 1] \in Seq(S)
    BY ConcatProperties
  <2>3. g \in [1..(m + 1) -> Seq(S)]
    BY <2>2
  <2>4. g[1] = seqs[1]
    BY <2>1 DEF Joins
  <2> HIDE DEF g
  <2>5. ASSUME NEW i \in 2..(m + 1) PROVE g[i] = g[i - 1] \o seqs[i]
    <3>1. CASE i = m + 1
      <4>1. g[m + 1] = f[m] \o seqs[m + 1] /\ g[m] = f[m]
        <5>1. m + 1 \in 1..(m + 1) /\ m \in 1..(m + 1) /\ ~(m + 1 <= m) /\ m <= m
          OBVIOUS
        <5> QED
          BY <5>1, Zenon DEF g
      <4>2. i - 1 = m
        BY <3>1
      <4> QED
        BY <3>1, <4>1, <4>2, Zenon
    <3>2. CASE i \in 2..m
      <4>1. g[i] = f[i] /\ g[i - 1] = f[i - 1]
        BY <3>2 DEF g
      <4> QED
        BY <2>1, <3>2, <4>1 DEF Joins
    <3>3. i = m + 1 \/ i \in 2..m
      OBVIOUS
    <3> QED
      BY <3>1, <3>2, <3>3, Zenon
  <2>6. Joins(g, seqs, m + 1)
    BY <2>4, <2>5 DEF Joins
  <2>7. m + 1 \in 1..n
    OBVIOUS
  <2> QED
    BY <2>3, <2>6, <2>7
<1> HIDE DEF T
<1>3. \A m \in 1..n : m \in T
  BY <1>1, <1>2, UpTo
<1>4. n \in T
  BY <1>3
<1> QED
  BY <1>4 DEF T

(* FlattenSeq computes them, by its recursive function.                     *)
LEMMA FlattenJoins ==
  ASSUME NEW S, NEW n \in Nat \ {0}, NEW seqs \in [1..n -> Seq(S)]
  PROVE  \E f : Joins(f, seqs, n) /\ FlattenSeq(seqs) = f[n]
<1>1. PICK f \in [1..n -> Seq(S)] : Joins(f, seqs, n)
  BY JoinsExists
<1>2. Len(seqs) = n
  OBVIOUS
<1>3. f = [i \in 1..Len(seqs) |-> IF i = 1 THEN seqs[i] ELSE f[i-1] \o seqs[i]]
  <2>1. ASSUME NEW i \in 1..n
        PROVE  f[i] = IF i = 1 THEN seqs[i] ELSE f[i-1] \o seqs[i]
    <3>1. CASE i = 1
      BY <1>1, <3>1 DEF Joins
    <3>2. CASE i # 1
      <4>1. i \in 2..n
        BY <3>2
      <4> QED
        BY <1>1, <3>2, <4>1 DEF Joins
    <3> QED
      BY <3>1, <3>2
  <2> QED
    BY <1>1, <1>2, <2>1
<1>4. PICK g : /\ g = [i \in 1..Len(seqs) |-> IF i = 1 THEN seqs[i] ELSE g[i-1] \o seqs[i]]
               /\ FlattenSeq(seqs) = g[Len(seqs)]
  BY <1>2, <1>3 DEF FlattenSeq
<1>5. /\ g = [i \in 1..n |-> IF i = 1 THEN seqs[i] ELSE g[i-1] \o seqs[i]]
      /\ FlattenSeq(seqs) = g[n]
  BY <1>2, <1>4
<1>6. \A i \in 1..n : g[i] = IF i = 1 THEN seqs[i] ELSE g[i-1] \o seqs[i]
  BY <1>5, Zenon
<1>7. Joins(g, seqs, n)
  <2>1. g[1] = seqs[1]
    BY <1>6
  <2>2. ASSUME NEW i \in 2..n PROVE g[i] = g[i - 1] \o seqs[i]
    <3>1. i \in 1..n /\ i # 1
      OBVIOUS
    <3> QED
      BY <1>6, <3>1
  <2> QED
    BY <2>1, <2>2 DEF Joins
<1> QED
  BY <1>5, <1>7

(* at[i] is the length of the first i sequences of seqs together.           *)
Offsets(at, seqs, n) ==
  /\ at \in [0..n -> Nat] /\ at[0] = 0
  /\ \A i \in 1..n : at[i] = at[i - 1] + Len(seqs[i])

(* flat is the first m sequences one after the other.                       *)
Placed(flat, seqs, at, m, S) ==
  /\ flat \in Seq(S) /\ Len(flat) = at[m]
  /\ \A i \in 1..m : at[i] <= at[m]
  /\ \A i \in 1..m : \A j \in 1..Len(seqs[i]) : flat[at[i - 1] + j] = seqs[i][j]

(* One more sequence goes behind them.                                      *)
LEMMA PlacedOneMore ==
  ASSUME NEW S, NEW n \in Nat \ {0}, NEW seqs \in [1..n -> Seq(S)],
         NEW at, Offsets(at, seqs, n),
         NEW m \in 1..(n - 1), NEW flat, Placed(flat, seqs, at, m, S)
  PROVE  Placed(flat \o seqs[m + 1], seqs, at, m + 1, S)
<1>1. m + 1 \in 2..n /\ (m + 1) - 1 = m /\ m \in 1..n /\ m + 1 \in 1..n /\ m \in 0..n
  OBVIOUS
<1>2. at[m] \in Nat /\ at[m + 1] \in Nat /\ seqs[m + 1] \in Seq(S)
  <2>1. at \in [0..n -> Nat]
    BY Zenon DEF Offsets
  <2> QED
    BY <1>1, <2>1
<1>3. at[m + 1] = at[m] + Len(seqs[m + 1])
  <2>1. at[m + 1] = at[(m + 1) - 1] + Len(seqs[m + 1])
    BY <1>1, Zenon DEF Offsets
  <2> QED
    BY <1>1, <2>1
<1>4. PICK u \in Seq(S) : u = seqs[m + 1]
  BY <1>2
<1>5. flat \in Seq(S) /\ Len(flat) = at[m]
  BY DEF Placed
<1>6. /\ flat \o u \in Seq(S) /\ Len(flat \o u) = Len(flat) + Len(u)
      /\ \A i \in 1 .. Len(flat) + Len(u) : (flat \o u)[i] =
            IF i <= Len(flat) THEN flat[i] ELSE u[i - Len(flat)]
  BY <1>5, ConcatProperties
<1>7. Len(u) \in Nat /\ Len(u) = Len(seqs[m + 1])
  BY <1>4
<1>8. /\ flat \o u \in Seq(S) /\ Len(flat \o u) = at[m + 1] /\ at[m] <= at[m + 1]
      /\ \A k \in 1..at[m] : (flat \o u)[k] = flat[k]
      /\ \A j \in 1..Len(u) : (flat \o u)[at[m] + j] = u[j]
  <2>1. at[m] <= at[m + 1] /\ Len(flat) + Len(u) = at[m + 1] /\ Len(flat) = at[m]
    BY <1>2, <1>3, <1>5, <1>7
  <2>2. ASSUME NEW k \in 1..at[m] PROVE (flat \o u)[k] = flat[k]
    <3>1. k \in 1 .. Len(flat) + Len(u) /\ k <= Len(flat)
      BY <1>2, <2>1
    <3> QED
      BY <1>6, <3>1, Zenon
  <2>3. ASSUME NEW j \in 1..Len(u) PROVE (flat \o u)[at[m] + j] = u[j]
    <3>1. at[m] + j \in 1 .. Len(flat) + Len(u) /\ ~(at[m] + j <= Len(flat))
      BY <1>2, <1>7, <2>1
    <3>2. (at[m] + j) - Len(flat) = j
      BY <1>2, <1>7, <2>1
    <3>3. (flat \o u)[at[m] + j] = u[(at[m] + j) - Len(flat)]
      BY <1>6, <3>1, Zenon
    <3> QED
      BY <3>2, <3>3, Zenon
  <2> QED
    BY <1>6, <2>1, <2>2, <2>3
<1>9. ASSUME NEW i \in 1..(m + 1) PROVE at[i] <= at[m + 1]
  <2>1. CASE i = m + 1
    BY <1>2, <2>1
  <2>2. CASE i \in 1..m
    <3>1. at[i] <= at[m]
      BY <2>2 DEF Placed
    <3>2. i \in 0..n
      BY <2>2
    <3>3. at[i] \in Nat
      BY <3>2, Zenon DEF Offsets
    <3> QED
      BY <3>1, <3>3, <1>2, <1>8
  <2> QED
    BY <2>1, <2>2
<1>10. ASSUME NEW i \in 1..(m + 1), NEW j \in 1..Len(seqs[i])
       PROVE  (flat \o u)[at[i - 1] + j] = seqs[i][j]
  <2>1. CASE i = m + 1
    BY <1>1, <1>4, <1>8, <2>1
  <2>2. CASE i \in 1..m
    <3>1. i - 1 \in 0..n /\ i \in 1..n /\ i \in 0..n
      BY <2>2
    <3>2. at[i] = at[i - 1] + Len(seqs[i]) /\ at[i] \in Nat /\ at[i - 1] \in Nat
      BY <3>1, Zenon DEF Offsets
    <3>3. at[i] <= at[m]
      BY <2>2 DEF Placed
    <3>4. Len(seqs[i]) \in Nat
      BY <3>1
    <3>5. at[i - 1] + j \in 1..at[m]
      <4>1. \A a, l, b \in Nat : \A x \in 1..l : a + l <= b => a + x \in 1..b
        OBVIOUS
      <4>2. at[i - 1] + Len(seqs[i]) <= at[m]
        BY <3>2, <3>3
      <4> QED
        BY <1>2, <3>2, <3>4, <4>1, <4>2, Zenon
    <3>6. flat[at[i - 1] + j] = seqs[i][j]
      BY <2>2 DEF Placed
    <3> QED
      BY <1>8, <3>5, <3>6
  <2>3. i = m + 1 \/ i \in 1..m
    OBVIOUS
  <2> QED
    BY <2>1, <2>2, <2>3, Zenon
<1> QED
  BY <1>4, <1>8, <1>9, <1>10 DEF Placed

(* Every element of every sequence is in the flattened one, at the offset of*)
(* its sequence.                                                            *)
LEMMA FlattenPlaced ==
  ASSUME NEW S, NEW n \in Nat \ {0}, NEW seqs \in [1..n -> Seq(S)],
         NEW at, Offsets(at, seqs, n)
  PROVE  Placed(FlattenSeq(seqs), seqs, at, n, S)
<1>1. PICK f : Joins(f, seqs, n) /\ FlattenSeq(seqs) = f[n]
  BY FlattenJoins
<1> DEFINE T == {m \in 1..n : Placed(f[m], seqs, at, m, S)}
<1>2. 1 \in T
  <2>1. f[1] = seqs[1] /\ seqs[1] \in Seq(S) /\ at[1] = Len(seqs[1]) /\ at[1 - 1] = 0
    BY <1>1 DEF Joins, Offsets
  <2>2. ASSUME NEW i \in 1..1 PROVE /\ at[i] <= at[1]
               /\ \A j \in 1..Len(seqs[i]) : f[1][at[i - 1] + j] = seqs[i][j]
    <3>1. i = 1
      OBVIOUS
    <3> QED
      BY <2>1, <3>1
  <2>3. Placed(f[1], seqs, at, 1, S)
    BY <2>1, <2>2 DEF Placed
  <2> QED
    BY <2>3
<1>3. ASSUME NEW m \in 1..(n - 1), m \in T PROVE m + 1 \in T
  <2>1. m + 1 \in 2..n /\ (m + 1) - 1 = m /\ m + 1 \in 1..n
    OBVIOUS
  <2>2. f[m + 1] = f[m] \o seqs[m + 1]
    BY <1>1, <2>1 DEF Joins
  <2>3. Placed(f[m], seqs, at, m, S)
    BY <1>3
  <2>4. Placed(f[m + 1], seqs, at, m + 1, S)
    BY <2>2, <2>3, PlacedOneMore
  <2> QED
    BY <2>1, <2>4
<1> HIDE DEF T
<1>4. \A m \in 1..n : m \in T
  BY <1>2, <1>3, UpTo
<1>5. n \in T
  BY <1>4
<1> QED
  BY <1>1, <1>5 DEF T

(* Every position is in one of the sequences.                               *)
Covered(seqs, at, n) ==
  \A k \in 1..at[n] : \E i \in 1..n : \E j \in 1..Len(seqs[i]) : k = at[i - 1] + j

(* Positions up to the total length belong to a sequence.                   *)
LEMMA Located ==
  ASSUME NEW n \in Nat \ {0}, NEW seqs, \A i \in 1..n : Len(seqs[i]) \in Nat,
         NEW at, Offsets(at, seqs, n)
  PROVE  Covered(seqs, at, n)
<1> SUFFICES ASSUME NEW k \in 1..at[n]
             PROVE  \E i \in 1..n : \E j \in 1..Len(seqs[i]) : k = at[i - 1] + j
  BY Zenon DEF Covered
<1> DEFINE T == {i \in 1..n : k <= at[i]}
<1>1. at \in [0..n -> Nat] /\ at[0] = 0
  BY Zenon DEF Offsets
<1>2. n \in T /\ T \in SUBSET Nat
  BY <1>1
<1>3. PICK i \in T : \A m \in T : i <= m
  <2> HIDE DEF T
  <2> QED
    BY <1>2, LeastNumber
<1>4. i \in 1..n /\ i - 1 \in 0..n /\ i \in 0..n /\ k <= at[i]
  OBVIOUS
<1>5. at[i - 1] \in Nat /\ at[i] \in Nat /\ Len(seqs[i]) \in Nat
  BY <1>1, <1>4
<1>6. ~(k <= at[i - 1])
  <2>1. CASE i = 1
    <3>1. at[i - 1] = 0
      BY <1>1, <2>1
    <3> QED
      BY <3>1
  <2>2. CASE i # 1
    <3>1. i - 1 \in 1..n /\ ~(i <= i - 1)
      BY <1>4, <2>2
    <3>2. i - 1 \notin T
      BY <1>3, <3>1
    <3> QED
      BY <3>1, <3>2
  <2> QED
    BY <2>1, <2>2
<1>7. at[i] = at[i - 1] + Len(seqs[i])
  BY <1>4, Zenon DEF Offsets
<1> HIDE DEF T
<1>8. k - at[i - 1] \in 1..Len(seqs[i]) /\ k = at[i - 1] + (k - at[i - 1])
  BY <1>4, <1>5, <1>6, <1>7
<1> QED
  BY <1>4, <1>8

(* The only increasing map of 1..n into itself is the identity.             *)
LEMMA IncreasingIsIdentity ==
  ASSUME NEW n \in Nat \ {0}, NEW q \in [1..n -> 1..n],
         \A i \in 1..(n - 1) : q[i] < q[i + 1]
  PROVE  \A i \in 1..n : q[i] = i
<1> DEFINE Up == {m \in 1..n : q[m] >= m}
           Down == {m \in 1..n : q[(n + 1) - m] <= (n + 1) - m}
<1>1. 1 \in Up
  OBVIOUS
<1>2. ASSUME NEW m \in 1..(n - 1), m \in Up PROVE m + 1 \in Up
  <2>1. m \in 1..n /\ m + 1 \in 1..n /\ q[m] < q[m + 1] /\ q[m] >= m
    BY <1>2
  <2> QED
    BY <2>1
<1>3. 1 \in Down
  <2>1. (n + 1) - 1 = n /\ n \in 1..n /\ 1 \in 1..n
    OBVIOUS
  <2> QED
    BY <2>1
<1>4. ASSUME NEW m \in 1..(n - 1), m \in Down PROVE m + 1 \in Down
  <2>1. PICK k \in 1..(n - 1) : k = n - m
    OBVIOUS
  <2>2. (n + 1) - m = k + 1 /\ (n + 1) - (m + 1) = k /\ m + 1 \in 1..n /\ k + 1 \in 1..n /\ k \in 1..n
    BY <2>1
  <2>3. q[k + 1] <= k + 1 /\ q[k] < q[k + 1]
    BY <1>4, <2>2
  <2>4. q[k] <= k
    BY <2>2, <2>3
  <2> QED
    BY <2>2, <2>4
<1> HIDE DEF Up, Down
<1>5. \A m \in 1..n : m \in Up
  BY <1>1, <1>2, UpTo
<1>6. \A m \in 1..n : m \in Down
  BY <1>3, <1>4, UpTo
<1>7. ASSUME NEW i \in 1..n PROVE q[i] = i
  <2>1. q[i] >= i
    BY <1>5 DEF Up
  <2>2. PICK m \in 1..n : m = (n + 1) - i /\ (n + 1) - m = i
    OBVIOUS
  <2>3. q[i] <= i
    BY <1>6, <2>2 DEF Down
  <2> QED
    BY <2>1, <2>3
<1> QED
  BY <1>7

-----------------------------------------------------------------------------
(* Partitions of the world.                                                *)

(* The partitions of a snapshot follow one another without gap or overlap, *)
(* the first begins at its first entity and the last ends at its last, for *)
(* every size and every number of workers (BuildTransformJournalInto).     *)
THEOREM PartitionsTile ==
  ASSUME NEW size \in Nat, NEW count \in Nat \ {0}
  PROVE  /\ PartitionStart(size, 0, count) = 0
         /\ \A index \in 0 .. count - 1 :
              /\ PartitionEnd(size, index, count)
                   = PartitionStart(size, index + 1, count)
              /\ PartitionStart(size, index, count)
                   <= PartitionEnd(size, index, count)
         /\ PartitionStart(size, count, count) = size
<1> DEFINE q == size \div count
           r == size % count
<1>1. q \in Nat /\ r \in 0 .. count - 1 /\ size = count * q + r
  OBVIOUS
<1> HIDE DEF q, r
<1>2. \A index \in Nat : PartitionStart(size, index, count) = index * q + Least(index, r)
  BY DEF PartitionStart, q, r
<1>3. \A index \in Nat : PartitionEnd(size, index, count)
        = index * q + Least(index, r) + q + (IF index < r THEN 1 ELSE 0)
  BY <1>2 DEF PartitionEnd, q, r
<1>4. PartitionStart(size, 0, count) = 0
  BY <1>1, <1>2 DEF Least
<1>5. PartitionStart(size, count, count) = size
  BY <1>1, <1>2 DEF Least
<1>6. ASSUME NEW index \in 0 .. count - 1
      PROVE  /\ PartitionEnd(size, index, count)
                  = PartitionStart(size, index + 1, count)
             /\ PartitionStart(size, index, count)
                  <= PartitionEnd(size, index, count)
  <2>1. (index + 1) * q = index * q + q /\ index * q \in Nat
    BY <1>1
  <2>2. Least(index + 1, r) = Least(index, r) + (IF index < r THEN 1 ELSE 0)
        /\ Least(index, r) \in Nat
    BY <1>1 DEF Least
  <2>3. PartitionStart(size, index + 1, count)
          = index * q + q + Least(index, r) + (IF index < r THEN 1 ELSE 0)
    BY <1>1, <1>2, <2>1, <2>2
  <2> QED
    BY <1>1, <1>2, <1>3, <2>1, <2>2, <2>3
<1> QED
  BY <1>4, <1>5, <1>6


(* A partition begins within the world.                                     *)
LEMMA PartitionInside ==
  ASSUME NEW size \in Nat, NEW count \in Nat \ {0}, NEW index \in 0..count
  PROVE  PartitionStart(size, index, count) \in 0..size
<1> DEFINE q == size \div count
           r == size % count
<1>1. q \in Nat /\ r \in 0 .. count - 1 /\ size = count * q + r
  OBVIOUS
<1>2. PartitionStart(size, index, count) = index * q + Least(index, r)
  BY DEF PartitionStart
<1> HIDE DEF q, r
<1>3. Least(index, r) \in 0..r
  BY <1>1 DEF Least
<1>4. PICK rest \in Nat : count = index + rest
  OBVIOUS
<1>5. count * q = index * q + rest * q /\ index * q \in Nat /\ rest * q \in Nat
  BY <1>1, <1>4
<1> QED
  BY <1>1, <1>2, <1>3, <1>5

-----------------------------------------------------------------------------
(* Journals and their merge.                                               *)

(* The state of an entity, an update of it, and a journal.                  *)
State == [entity : Nat, value : Int, delta : Int]
Update == [entity : Nat, value : Int, sequence : Nat]
Journal == [worker : Nat, updates : Seq(Update), of : Seq(State), count : Nat]

(* The journals of the first n of count workers, in the order of the workers,*)
(* none cut short.                                                          *)
Complete(js, n, of, count) ==
  /\ js \in [1..n -> Journal]
  /\ \A i \in 1..n :
       /\ js[i].worker = i - 1
       /\ js[i].updates =
            UpdatesOf(of, PartitionStart(Len(of), i - 1, count), PartitionStart(Len(of), i, count))

(* One update for each entity of a part of the snapshot, in their order.    *)
UpdatesAll(updates, of, begin, end) ==
  /\ updates \in Seq(Update)
  /\ Len(updates) = end - begin
  /\ \A j \in 1..(end - begin) :
       /\ updates[j].entity = of[begin + j].entity
       /\ updates[j].value = of[begin + j].value + of[begin + j].delta
       /\ updates[j].sequence = j - 1

(* UpdatesOf makes them.                                                    *)
LEMMA UpdatesOfPart ==
  ASSUME NEW of \in Seq(State), NEW begin \in Nat, NEW end \in Nat,
         begin <= end, end <= Len(of)
  PROVE  UpdatesAll(UpdatesOf(of, begin, end), of, begin, end)
<1> DEFINE u(j) == [entity |-> of[begin + j].entity,
                    value |-> of[begin + j].value + of[begin + j].delta,
                    sequence |-> j - 1]
<1>1. UpdatesOf(of, begin, end) = [j \in 1..(end - begin) |-> u(j)]
  BY DEF UpdatesOf, CheckedAdd
<1>2. end - begin \in Nat
  OBVIOUS
<1>3. ASSUME NEW j \in 1..(end - begin) PROVE u(j) \in Update
  <2>1. of[begin + j] \in State
    OBVIOUS
  <2> QED
    BY <2>1 DEF State, Update
<1> HIDE DEF u
<1>4. [j \in 1..(end - begin) |-> u(j)] \in Seq(Update)
  BY <1>2, <1>3
<1>5. Len([j \in 1..(end - begin) |-> u(j)]) = end - begin
  BY <1>2
<1>6. \A j \in 1..(end - begin) : UpdatesOf(of, begin, end)[j] = u(j)
  BY <1>1
<1> QED
  BY <1>1, <1>4, <1>5, <1>6 DEF u, UpdatesAll

(* One update for each entity of the snapshot, in their order, with the      *)
(* sequence numbers MergeJournals expects.                                  *)
UpdatesEach(js, of) ==
  /\ AllUpdates(js) \in Seq(Update)
  /\ Len(AllUpdates(js)) = Len(of)
  /\ \A k \in 1..Len(of) :
       /\ AllUpdates(js)[k].entity = of[k].entity
       /\ AllUpdates(js)[k].value = of[k].value + of[k].delta
       /\ AllUpdates(js)[k].sequence = SequenceNumbers(js)[k]

(* Together, complete journals update every entity of the snapshot once, in *)
(* its order, with the sequence numbers MergeJournals expects.              *)
LEMMA UpdatesInOrder ==
  ASSUME NEW of \in Seq(State), NEW n \in Nat \ {0}, NEW count \in Nat, n <= count,
         PartitionStart(Len(of), n, count) = Len(of),
         NEW js, Complete(js, n, of, count)
  PROVE  UpdatesEach(js, of)
<1> DEFINE at == [i \in 0..n |-> PartitionStart(Len(of), i, count)]
           seqs == [i \in 1..n |-> js[i].updates]
           numbers == [i \in 1..n |-> [j \in DOMAIN js[i].updates |-> j - 1]]
<1>0. Len(of) \in Nat /\ count \in Nat \ {0}
  OBVIOUS
<1>1. /\ at \in [0..n -> Nat] /\ at[0] = 0 /\ at[n] = Len(of)
      /\ \A i \in 0..n : at[i] <= Len(of)
  <2>1. \A i \in 0..n : PartitionStart(Len(of), i, count) \in 0..Len(of)
    <3>1. ASSUME NEW i \in 0..n PROVE PartitionStart(Len(of), i, count) \in 0..Len(of)
      <4>1. i \in 0..count
        OBVIOUS
      <4> QED
        BY <1>0, <4>1, PartitionInside
    <3> QED
      BY <3>1
  <2>2. PartitionStart(Len(of), 0, count) = 0
    BY <1>0, PartitionsTile
  <2> QED
    BY <2>1, <2>2
<1>2. ASSUME NEW i \in 1..n PROVE at[i - 1] <= at[i]
  <2>1. i - 1 \in 0 .. count - 1 /\ i - 1 \in 0..n /\ i \in 0..n /\ (i - 1) + 1 = i
    OBVIOUS
  <2>2. PartitionStart(Len(of), i - 1, count) <= PartitionStart(Len(of), (i - 1) + 1, count)
    BY <1>0, <2>1, PartitionsTile
  <2> QED
    BY <2>1, <2>2
<1>3. ASSUME NEW i \in 1..n
      PROVE  seqs[i] = UpdatesOf(of, at[i - 1], at[i]) /\ js[i].updates = seqs[i]
  BY DEF Complete
<1>4. ASSUME NEW i \in 1..n
      PROVE  /\ seqs[i] \in Seq(Update) /\ Len(seqs[i]) = at[i] - at[i - 1]
             /\ at[i] = at[i - 1] + Len(seqs[i])
             /\ \A j \in 1..Len(seqs[i]) :
                  /\ seqs[i][j].entity = of[at[i - 1] + j].entity
                  /\ seqs[i][j].value = of[at[i - 1] + j].value + of[at[i - 1] + j].delta
                  /\ seqs[i][j].sequence = j - 1
  <2> HIDE DEF at, seqs
  <2>1. /\ at[i - 1] \in Nat /\ at[i] \in Nat /\ at[i - 1] <= at[i] /\ at[i] <= Len(of)
    BY <1>1, <1>2
  <2>2. PICK begin \in Nat, end \in Nat : begin = at[i - 1] /\ end = at[i]
    BY <2>1
  <2>3. UpdatesAll(UpdatesOf(of, begin, end), of, begin, end)
    <3>1. begin <= end /\ end <= Len(of)
      BY <2>1, <2>2
    <3> QED
      BY <3>1, UpdatesOfPart, Zenon
  <2>4. seqs[i] = UpdatesOf(of, begin, end)
    BY <1>3, <2>2
  <2>5. end = begin + (end - begin)
    OBVIOUS
  <2> QED
    BY <2>2, <2>3, <2>4, <2>5 DEF UpdatesAll
<1>5. seqs \in [1..n -> Seq(Update)]
  BY <1>4
<1>6. ASSUME NEW i \in 1..n
      PROVE  /\ numbers[i] \in Seq(Nat) /\ Len(numbers[i]) = Len(seqs[i])
             /\ \A j \in 1..Len(seqs[i]) : numbers[i][j] = j - 1
  <2>0. seqs[i] \in Seq(Update)
    BY <1>4
  <2>1. PICK len \in Nat : len = Len(seqs[i]) /\ DOMAIN seqs[i] = 1..len
    <3> HIDE DEF seqs
    <3> QED
      BY <2>0
  <2>2. numbers[i] = [j \in 1..len |-> j - 1]
    BY <1>3, <2>1
  <2> HIDE DEF numbers, seqs, at
  <2> QED
    BY <2>1, <2>2
<1> HIDE DEF seqs, numbers, at
<1>7. numbers \in [1..n -> Seq(Nat)]
  BY <1>6 DEF numbers
<1>8. Offsets(at, seqs, n) /\ Offsets(at, numbers, n)
  BY <1>1, <1>4, <1>6, Zenon DEF Offsets
<1>9. Placed(FlattenSeq(seqs), seqs, at, n, Update) /\ Placed(FlattenSeq(numbers), numbers, at, n, Nat)
  BY <1>5, <1>7, <1>8, FlattenPlaced
<1>10. AllUpdates(js) = FlattenSeq(seqs) /\ SequenceNumbers(js) = FlattenSeq(numbers)
  BY DEF AllUpdates, SequenceNumbers, Complete, seqs, numbers
<1>12. Covered(seqs, at, n)
  <2>1. \A i \in 1..n : Len(seqs[i]) \in Nat
    BY <1>5
  <2> QED
    BY <1>8, <2>1, Located, Zenon
<1>11. ASSUME NEW k \in 1..Len(of)
       PROVE  /\ AllUpdates(js)[k].entity = of[k].entity
              /\ AllUpdates(js)[k].value = of[k].value + of[k].delta
              /\ AllUpdates(js)[k].sequence = SequenceNumbers(js)[k]
  <2>1. k \in 1..at[n]
    BY <1>1
  <2>2. PICK i \in 1..n : \E j \in 1..Len(seqs[i]) : k = at[i - 1] + j
    BY <1>12, <2>1, Zenon DEF Covered
  <2>3. PICK j \in 1..Len(seqs[i]) : k = at[i - 1] + j
    BY <2>2
  <2>4. FlattenSeq(seqs)[k] = seqs[i][j]
    BY <1>9, <2>3, Zenon DEF Placed
  <2>5. j \in 1..Len(numbers[i])
    BY <1>6
  <2>6. FlattenSeq(numbers)[k] = j - 1
    <3>1. FlattenSeq(numbers)[k] = numbers[i][j]
      BY <1>9, <2>3, <2>5, Zenon DEF Placed
    <3> QED
      BY <1>6, <3>1, Zenon
  <2>7. /\ seqs[i][j].entity = of[at[i - 1] + j].entity
        /\ seqs[i][j].value = of[at[i - 1] + j].value + of[at[i - 1] + j].delta
        /\ seqs[i][j].sequence = j - 1
    BY <1>4, Zenon
  <2> QED
    BY <1>10, <2>3, <2>4, <2>6, <2>7, Zenon
<1>13. /\ AllUpdates(js) \in Seq(Update)
       /\ Len(AllUpdates(js)) = Len(of)
  BY <1>1, <1>9, <1>10, Zenon DEF Placed
<1> QED
  BY <1>11, <1>13, Zenon DEF UpdatesEach

(* Journals of workers 0, 1, 2, ... are all at their index.                 *)
LEMMA AllInPlace ==
  ASSUME NEW n \in Nat, NEW sorted \in [1..n -> Journal],
         \A i \in 1..n : sorted[i].worker = i - 1
  PROVE  InPlace(sorted) = sorted
<1> DEFINE P(m) == /\ \A i \in 1..m : sorted[i].worker = i - 1
                   /\ m < n => sorted[m + 1].worker # m
<1>1. sorted \in Seq(Journal) /\ Len(sorted) = n
  OBVIOUS
<1>2. P(n) /\ n \in 0..n
  OBVIOUS
<1>3. ASSUME NEW m \in 0..n, P(m) PROVE m = n
  <2>1. SUFFICES ASSUME m < n PROVE FALSE
    OBVIOUS
  <2>2. m + 1 \in 1..n /\ (m + 1) - 1 = m
    BY <2>1
  <2>3. sorted[m + 1].worker = (m + 1) - 1
    BY <2>2
  <2> QED
    BY <1>3, <2>1, <2>2, <2>3
<1> HIDE DEF P
<1>4. (CHOOSE m \in 0..n : P(m)) = n
  BY <1>2, <1>3
<1>5. InPlace(sorted) = SubSeq(sorted, 1, CHOOSE m \in 0..n : P(m))
  BY <1>1, Zenon DEF InPlace, P
<1>6. SubSeq(sorted, 1, n) = sorted
  BY <1>1
<1> QED
  BY <1>4, <1>5, <1>6

(* Merging complete journals updates every entity and succeeds, also when the*)
(* world has other values than the snapshot by now.                         *)
LEMMA MergedInOrder ==
  ASSUME NEW of \in Seq(State), NEW n \in Nat \ {0}, NEW count \in Nat, n <= count,
         PartitionStart(Len(of), n, count) = Len(of),
         NEW sorted, Complete(sorted, n, of, count),
         NEW ecs \in Seq(State), Len(ecs) = Len(of),
         \A k \in 1..Len(of) : ecs[k].entity = of[k].entity
  PROVE  Merged(ecs, sorted) =
           [world |-> [i \in DOMAIN ecs |->
                         [ecs[i] EXCEPT !.value = of[i].value + of[i].delta]],
            ok |-> TRUE]
<1> DEFINE updates == AllUpdates(sorted)
           numbers == SequenceNumbers(sorted)
           P(m) == /\ \A i \in 1..m : Applicable(ecs, updates, numbers, i)
                   /\ m < Len(updates) => ~Applicable(ecs, updates, numbers, m + 1)
           applied == CHOOSE m \in 0..Len(updates) : P(m)
<1>1. /\ updates \in Seq(Update) /\ Len(updates) = Len(of)
      /\ \A k \in 1..Len(of) :
           /\ updates[k].entity = of[k].entity
           /\ updates[k].value = of[k].value + of[k].delta
           /\ updates[k].sequence = numbers[k]
  <2>1. UpdatesEach(sorted, of)
    BY UpdatesInOrder, Zenon
  <2> QED
    BY <2>1, Zenon DEF UpdatesEach
<1>2. InPlace(sorted) = sorted
  <2>1. sorted \in [1..n -> Journal] /\ \A i \in 1..n : sorted[i].worker = i - 1
    BY Zenon DEF Complete
  <2> QED
    BY <2>1, AllInPlace
<1> HIDE DEF updates, numbers
<1>3. Len(of) \in Nat /\ DOMAIN ecs = 1..Len(of)
  OBVIOUS
<1>4. ASSUME NEW k \in 1..Len(of) PROVE Applicable(ecs, updates, numbers, k)
  <2>1. k <= Len(ecs) /\ updates[k].entity = ecs[k].entity
    BY <1>1, <1>3
  <2> QED
    BY <1>1, <2>1, Zenon DEF Applicable
<1>5. P(Len(of))
  BY <1>1, <1>3, <1>4
<1>6. ASSUME NEW m \in 0..Len(of), P(m) PROVE m = Len(of)
  <2>1. SUFFICES ASSUME m < Len(of) PROVE FALSE
    BY <1>3
  <2>2. m + 1 \in 1..Len(of)
    BY <1>3, <2>1
  <2> QED
    BY <1>1, <1>4, <1>6, <2>1, <2>2
<1> HIDE DEF P
<1>7. applied = Len(of)
  <2>1. Len(of) \in 0..Len(of)
    BY <1>3
  <2>2. applied = CHOOSE m \in 0..Len(of) : P(m)
    BY <1>1
  <2> QED
    BY <1>5, <1>6, <2>1, <2>2
<1> HIDE DEF applied
<1>8. Merged(ecs, sorted) =
        [world |-> [i \in DOMAIN ecs |->
                      IF i <= applied THEN [ecs[i] EXCEPT !.value = updates[i].value]
                      ELSE ecs[i]],
         ok |-> applied = Len(updates) /\ Len(sorted) = Len(sorted)]
  BY <1>2, Zenon DEF Merged, P, applied, updates, numbers
<1>9. [i \in DOMAIN ecs |-> IF i <= applied THEN [ecs[i] EXCEPT !.value = updates[i].value]
                               ELSE ecs[i]]
      = [i \in DOMAIN ecs |-> [ecs[i] EXCEPT !.value = of[i].value + of[i].delta]]
  <2>1. ASSUME NEW i \in DOMAIN ecs
        PROVE  (IF i <= applied THEN [ecs[i] EXCEPT !.value = updates[i].value] ELSE ecs[i])
               = [ecs[i] EXCEPT !.value = of[i].value + of[i].delta]
    <3>1. i \in 1..Len(of) /\ i <= applied
      BY <1>3, <1>7
    <3>2. updates[i].value = of[i].value + of[i].delta
      BY <1>1, <3>1
    <3> QED
      BY <3>1, <3>2, Zenon
  <2> QED
    BY <2>1, Zenon
<1>10. (applied = Len(updates) /\ Len(sorted) = Len(sorted)) = TRUE
  BY <1>1, <1>7
<1> QED
  BY <1>8, <1>9, <1>10, Zenon

(* Sorting journals that are in the order of their workers changes nothing. *)
LEMMA SortedAlready ==
  ASSUME NEW n \in Nat \ {0}, NEW js \in [1..n -> Journal],
         \A i \in 1..n : js[i].worker = i - 1
  PROVE  SortedJournals(js) = {js}
<1> DEFINE Perms == {q \in [DOMAIN js -> DOMAIN js] :
                              \A i, j \in DOMAIN js : q[i] = q[j] => i = j}
           Permuted(p) == [i \in DOMAIN js |-> js[p[i]]]
           InOrder(s) == \A i \in 1..(Len(js) - 1) : s[i].worker <= s[i + 1].worker
<1>1. DOMAIN js = 1..n /\ Len(js) = n
  OBVIOUS
<1>2. SortedJournals(js) = {s \in {Permuted(p) : p \in Perms} : InOrder(s)}
  BY Zenon DEF SortedJournals
<1>3. ASSUME NEW p \in Perms, InOrder(Permuted(p)) PROVE Permuted(p) = js
  <2>1. p \in [1..n -> 1..n] /\ \A i, j \in 1..n : p[i] = p[j] => i = j
    BY <1>1
  <2>2. ASSUME NEW i \in 1..(n - 1) PROVE p[i] < p[i + 1]
    <3>1. i \in 1..n /\ i + 1 \in 1..n /\ i # i + 1
      OBVIOUS
    <3>2. p[i] # p[i + 1]
      BY <2>1, <3>1
    <3>3. Permuted(p)[i].worker <= Permuted(p)[i + 1].worker
      BY <1>1, <1>3
    <3>4. p[i] \in 1..n /\ p[i + 1] \in 1..n
      BY <2>1, <3>1
    <3>5. Permuted(p)[i].worker = p[i] - 1 /\ Permuted(p)[i + 1].worker = p[i + 1] - 1
      BY <1>1, <3>1, <3>4
    <3> QED
      BY <3>2, <3>3, <3>4, <3>5
  <2>3. \A i \in 1..n : p[i] = i
    BY <2>1, <2>2, IncreasingIsIdentity
  <2> QED
    BY <1>1, <2>3
<1>4. \E p \in Perms : Permuted(p) = js
  <2> DEFINE p == [i \in 1..n |-> i]
  <2>1. p \in Perms /\ Permuted(p) = js
    BY <1>1
  <2> QED
    BY <2>1
<1>5. InOrder(js)
  BY <1>1
<1> HIDE DEF Perms, Permuted, InOrder
<1> QED
  BY <1>2, <1>3, <1>4, <1>5

(* Whatever the size of the world and the number of workers, merging the    *)
(* journals of all the workers is one sequential pass over the world, and no*)
(* check of MergeJournals rejects them (EcsWorld::BuildTransformJournalInto,*)
(* EcsWorld::MergeJournals).                                                *)
THEOREM MergeIsSequential ==
  ASSUME NEW ecs \in Seq(State), Len(ecs) <= MaxUpdates,
         NEW count \in 1..MaxWorldWorkers,
         NEW js, Complete(js, count, ecs, count)
  PROVE  MergeJournals(ecs, js) = {[world |-> Sequential(ecs), ok |-> TRUE]}
<1>1. count \in Nat \ {0} /\ Len(ecs) \in Nat
  BY EcsAssumption
<1>2. PartitionStart(Len(ecs), count, count) = Len(ecs)
  BY <1>1, PartitionsTile
<1>3. js \in [1..count -> Journal] /\ \A i \in 1..count : js[i].worker = i - 1
  BY Zenon DEF Complete
<1>4. SortedJournals(js) = {js}
  BY <1>1, <1>3, SortedAlready
<1>5. Merged(ecs, js) = [world |-> Sequential(ecs), ok |-> TRUE]
  <2>1. count <= count /\ Len(ecs) = Len(ecs)
    BY <1>1
  <2>2. Merged(ecs, js) =
          [world |-> [i \in DOMAIN ecs |->
                        [ecs[i] EXCEPT !.value = ecs[i].value + ecs[i].delta]],
           ok |-> TRUE]
    BY <1>1, <1>2, <2>1, MergedInOrder
  <2> QED
    BY <2>2, Zenon DEF Sequential
<1>6. ~MergeRejects(ecs, js)
  <2>1. Len(AllUpdates(js)) = Len(ecs)
    <3>1. count <= count
      BY <1>1
    <3> QED
      BY <1>1, <1>2, <3>1, UpdatesInOrder, Zenon DEF UpdatesEach
  <2>2. DOMAIN js = 1..count /\ Len(js) = count /\ js # <<>>
    BY <1>1, <1>3
  <2>3. \A i \in 1..count : js[i].worker < Len(js)
    BY <1>1, <1>3, <2>2
  <2>4. count <= MaxWorldWorkers
    BY EcsAssumption
  <2>5. CoversWorld(ecs, js)
    BY <2>1, <2>2, <2>3, Zenon DEF CoversWorld
  <2> QED
    BY <1>1, <2>2, <2>4, <2>5, EcsAssumption DEF MergeRejects
<1>7. {Merged(ecs, s) : s \in {js}} = {Merged(ecs, js)}
  BY Zenon
<1> QED
  BY <1>4, <1>5, <1>6, <1>7, Zenon DEF MergeJournals

-----------------------------------------------------------------------------
(* Scratch arenas.                                                         *)

(* The padding makes an offset a multiple of the alignment, and is less    *)
(* than the alignment.                                                     *)
LEMMA PaddingAligns ==
  ASSUME NEW offset \in Nat, NEW alignment \in Nat \ {0}
  PROVE  /\ ComputePadding(offset, alignment) \in 0 .. alignment - 1
         /\ (offset + ComputePadding(offset, alignment)) % alignment = 0
<1> DEFINE q == offset \div alignment
           r == offset % alignment
<1>1. q \in Nat /\ r \in 0 .. alignment - 1 /\ offset = alignment * q + r
  OBVIOUS
<1>2. ComputePadding(offset, alignment) = IF r = 0 THEN 0 ELSE alignment - r
  BY DEF ComputePadding
<1>3. CASE r = 0
  BY <1>2, <1>3
<1>4. CASE r # 0
  <2> HIDE DEF q, r
  <2>1. offset + (alignment - r) = alignment * (q + 1)
    BY <1>1
  <2>2. (alignment * (q + 1)) % alignment = 0
    BY <1>1
  <2>3. ComputePadding(offset, alignment) = alignment - r
    BY <1>2, <1>4
  <2>4. (offset + ComputePadding(offset, alignment)) % alignment = 0
    BY <2>1, <2>2, <2>3
  <2> QED
    BY <1>1, <1>4, <2>3, <2>4
<1> QED
  BY <1>3, <1>4

SpanType == [start : Nat, end : Nat, alignment : Nat \ {0}]

ArenaType == [owner : Nat, capacity : Nat, offset : Nat, spans : SUBSET SpanType]

(* Everything handed out lies below the offset.                            *)
ArenaOK(a) ==
  /\ a \in ArenaType
  /\ a.offset <= a.capacity
  /\ \A s \in a.spans :
       /\ s.end <= a.offset /\ s.start % s.alignment = 0
       /\ \A u \in a.spans : s # u => s.end <= u.start \/ u.end <= s.start

(* A new or reset arena has handed out nothing.                            *)
LEMMA EmptyArenaOK ==
  /\ \A owner, capacity \in Nat : ArenaOK(NewArena(owner, capacity))
  /\ \A a \in ArenaType : ArenaOK(Emptied(a))
<1>1. ASSUME NEW owner \in Nat, NEW capacity \in Nat
      PROVE  ArenaOK(NewArena(owner, capacity))
  BY DEF ArenaOK, ArenaType, NewArena
<1>2. ASSUME NEW a \in ArenaType PROVE ArenaOK(Emptied(a))
  <2>1. /\ Emptied(a) \in ArenaType /\ Emptied(a).offset = 0
        /\ Emptied(a).spans = {} /\ Emptied(a).capacity \in Nat
    BY DEF ArenaType, Emptied
  <2> QED
    BY <2>1 DEF ArenaOK
<1> QED
  BY <1>1, <1>2

(* The span of an allocation that fits begins at or after the offset, at a *)
(* multiple of its alignment, and ends within the capacity.                *)
LEMMA SpanFits ==
  ASSUME NEW a, ArenaOK(a), NEW size \in Nat, NEW alignment \in Nat \ {0},
         ~Exceeds(a, size, alignment)
  PROVE  /\ Span(a, size, alignment) \in SpanType
         /\ Span(a, size, alignment).start >= a.offset
         /\ Span(a, size, alignment).start % Span(a, size, alignment).alignment = 0
         /\ Span(a, size, alignment).start <= Span(a, size, alignment).end
         /\ Span(a, size, alignment).end <= a.capacity
<1> DEFINE padding == ComputePadding(a.offset, alignment)
<1>1. a.offset \in Nat /\ a.capacity \in Nat /\ a.offset <= a.capacity
  BY DEF ArenaOK, ArenaType
<1>2. padding \in Nat /\ (a.offset + padding) % alignment = 0
  <2>1. PICK o \in Nat : o = a.offset
    BY <1>1
  <2>2. /\ ComputePadding(o, alignment) \in 0 .. alignment - 1
        /\ (o + ComputePadding(o, alignment)) % alignment = 0
    BY PaddingAligns
  <2> QED
    BY <2>1, <2>2
<1>3. a.offset + padding + size <= a.capacity
  BY <1>1, <1>2 DEF Exceeds, Remaining
<1> HIDE DEF padding
<1>4. Span(a, size, alignment)
        = [start |-> a.offset + padding, end |-> a.offset + padding + size,
           alignment |-> alignment]
  BY DEF Span, padding
<1> QED
  BY <1>1, <1>2, <1>3, <1>4 DEF SpanType

(* An allocation that fits keeps the spans apart and inside the arena.     *)
LEMMA AllocatedOK ==
  ASSUME NEW a, ArenaOK(a), NEW size \in Nat, NEW alignment \in Nat \ {0},
         ~Exceeds(a, size, alignment)
  PROVE  ArenaOK(Allocated(a, size, alignment))
<1> DEFINE new == Span(a, size, alignment)
           after == Allocated(a, size, alignment)
<1>1. /\ new \in SpanType /\ new.start >= a.offset
      /\ new.start % new.alignment = 0
      /\ new.start <= new.end /\ new.end <= a.capacity
  BY SpanFits
<1>2. /\ after \in ArenaType /\ after.capacity = a.capacity
      /\ after.offset = new.end /\ after.spans = a.spans \cup {new}
  BY <1>1 DEF Allocated, ArenaOK, ArenaType, SpanType
<1>3. /\ a.offset \in Nat /\ a.spans \subseteq SpanType
      /\ new.start \in Nat /\ new.end \in Nat
  BY <1>1 DEF ArenaOK, ArenaType, SpanType
<1> HIDE DEF new, after
<1>4. ASSUME NEW s \in a.spans
      PROVE  /\ s.end <= new.start /\ s.end <= new.end
             /\ s.start % s.alignment = 0
  BY <1>1, <1>3 DEF ArenaOK, SpanType
<1>5. ASSUME NEW s \in after.spans
      PROVE  /\ s.end <= after.offset /\ s.start % s.alignment = 0
             /\ \A u \in after.spans : s # u => s.end <= u.start \/ u.end <= s.start
  <2>1. CASE s = new
    BY <1>1, <1>2, <1>3, <1>4, <2>1
  <2>2. CASE s \in a.spans
    BY <1>2, <1>4, <2>2 DEF ArenaOK
  <2> QED
    BY <1>2, <2>1, <2>2
<1>6. after.offset <= after.capacity
  BY <1>1, <1>2
<1> QED
  BY <1>2, <1>5, <1>6 DEF ArenaOK, after

-----------------------------------------------------------------------------
(* The inductive invariants.                                               *)

ArenasOK ==
  /\ arenas \in [Threads -> ArenaType]
  /\ \A t \in Threads : ArenaOK(arenas[t])

BudgetType == [hard : Nat, soft : Nat, headroom : Nat, cpus : Nat, peak : Nat,
               snapshots : Nat]

(* The measured budget and what has been planned and reserved against it.  *)
PlanTypes ==
  /\ budget \in BudgetType /\ cpus \in Nat /\ changes \in Nat /\ step \in Nat
  /\ workers \in Nat /\ schedule \in Seq(Nat)
  /\ pc \in {"capture", "plan", "phase"} => workers = 0
  /\ pc \in {"plan", "phase", "tick", "wait", "publish"} => step > 0
  /\ pc \in {"capture", "plan", "tick", "wait", "publish"} /\ driver = "host"
       => schedule = <<>>
  /\ pc = "phase" /\ driver = "host" => Len(schedule) = 1

(* The workers of a running supervisor were reserved against the CPUs      *)
(* measured last.                                                          *)
WorkersReserved ==
  workers > 0 => workers + Reserved(budget) <= budget.cpus

(* As long as the CPU set has not changed, the host measures the CPUs its  *)
(* soft reservations were made for.                                        *)
HostBudget ==
  driver = "host" /\ changes = 0 =>
    /\ budget.hard = 1 /\ budget.headroom = 1
    /\ budget.soft = SoftReservations(cpus)
    /\ step > 0 => budget.cpus = cpus
    /\ pc = "phase" => schedule[1] \in 1 .. AvailableWorkerCount(budget)
    /\ cpus >= 3 => error \notin {"headroom", "reserve"}

BudgetInv == PlanTypes /\ WorkersReserved /\ HostBudget

IInv == ArenasOK /\ BudgetInv

(* The executor's threads include thread 0.                                *)
LEMMA ThreadFacts ==
  0 \in Threads /\ Threads \subseteq Nat /\ Nobody \in Nat
BY TicksAssumption DEF Threads, Nobody

(* An arena that does not exist is as good as an empty one.                *)
LEMMA NoArenaOK ==
  ArenaOK(NoArena)
BY EmptyArenaOK, ThreadFacts DEF NoArena

(* The arenas a program or a caller starts with.                           *)
LEMMA ArenasInit ==
  Init => ArenasOK
<1> SUFFICES ASSUME Init PROVE ArenasOK
  OBVIOUS
<1>1. ASSUME NEW t \in Threads PROVE ArenaOK(arenas[t])
  BY EmptyArenaOK, NoArenaOK, ThreadFacts, TicksAssumption DEF Init
<1>2. arenas \in [Threads -> ArenaType]
  BY <1>1 DEF Init, ArenaOK
<1> QED
  BY <1>1, <1>2 DEF ArenasOK

(* A step that uses no arena.                                              *)
LEMMA ArenasUntouched ==
  ASSUME ArenasOK, UNCHANGED arenas
  PROVE  ArenasOK'
BY DEF ArenasOK

(* Every step keeps the arenas well formed.                                *)
LEMMA ArenasNext ==
  IInv /\ Next => ArenasOK'
<1> SUFFICES ASSUME IInv, Next PROVE ArenasOK'
  OBVIOUS
<1> USE DEF IInv, budgetVars, hostVars, jobVars, ecsVars,
           planVars, ownerFrame
<1>1. CASE CaptureBudget
  BY <1>1, ArenasUntouched DEF CaptureBudget
<1>2. CASE StartHost
  BY <1>2, ArenasUntouched DEF StartHost
<1>3. CASE Plan
  BY <1>3, ArenasUntouched DEF Plan
<1>4. CASE BeginPhase
  <2>1. arenas' = [t \in Threads |-> NoArena]
    BY <1>4 DEF BeginPhase
  <2> QED
    BY <2>1, NoArenaOK DEF ArenasOK, ArenaOK
<1>5. CASE SubmitTasks
  BY <1>5, ArenasUntouched DEF SubmitTasks
<1>6. CASE MergeTick
  BY <1>6, ArenasUntouched DEF MergeTick
<1>7. CASE WaitThrows
  BY <1>7, ArenasUntouched DEF WaitThrows
<1>8. CASE PublishTick
  BY <1>8, ArenasUntouched DEF PublishTick
<1>9. CASE EndPhase
  BY <1>9, ArenasUntouched DEF EndPhase
<1>10. CASE DrainAgain
  BY <1>10, ArenasUntouched DEF DrainAgain
<1>11. CASE DrainTimesOut
  BY <1>11, ArenasUntouched DEF DrainTimesOut
<1>12. CASE PrepareShutdown
  BY <1>12, ArenasUntouched DEF PrepareShutdown
<1>13. CASE FinalizeShutdown
  BY <1>13, ArenasUntouched DEF FinalizeShutdown
<1>14. ASSUME NEW t \in Threads, NEW w \in Threads, TakeTask(t, w) PROVE ArenasOK'
  BY <1>14, ArenasUntouched DEF TakeTask
<1>15. ASSUME NEW t \in Threads, UseWorkerScratch(t) PROVE ArenasOK'
  <2> DEFINE before == IF arenas[t] = NoArena THEN NewArena(t, TickCapacity)
                       ELSE arenas[t]
             arena == Emptied(before)
             after == Emptied(Allocated(arena, RecordSize, RecordAlign))
  <2>1. ArenaOK(before)
    BY EmptyArenaOK, ThreadFacts, TicksAssumption DEF ArenasOK
  <2>2. ArenaOK(arena)
    BY <2>1, EmptyArenaOK DEF ArenaOK
  <2> HIDE DEF before
  <2>3. ~Exceeds(arena, RecordSize, RecordAlign)
        /\ arenas' = [arenas EXCEPT ![t] = after]
    BY <1>15 DEF UseWorkerScratch, before
  <2> HIDE DEF arena
  <2>4. ArenaOK(Allocated(arena, RecordSize, RecordAlign))
    BY <2>2, <2>3, AllocatedOK, TicksAssumption
  <2>5. ArenaOK(after) /\ after \in ArenaType
    BY <2>4, EmptyArenaOK DEF ArenaOK
  <2> HIDE DEF after
  <2> QED
    BY <2>3, <2>5 DEF ArenasOK
<1>16. ASSUME NEW t \in Threads, BuildJournal(t) PROVE ArenasOK'
  BY <1>16, ArenasUntouched DEF BuildJournal
<1>17. ASSUME NEW t \in Threads, TaskThrows(t) PROVE ArenasOK'
  BY <1>17, ArenasUntouched DEF TaskThrows
<1>18. CASE CreateEntities
  BY <1>18, ArenasUntouched DEF CreateEntities
<1>19. CASE CopySnapshot
  BY <1>19, ArenasUntouched DEF CopySnapshot
<1>20. CASE AddJournal
  BY <1>20, ArenasUntouched DEF AddJournal
<1>21. CASE ClearJournals
  BY <1>21, ArenasUntouched DEF ClearJournals
<1>22. CASE OwnerMerges
  BY <1>22, ArenasUntouched DEF OwnerMerges
<1>23. ASSUME NEW t \in Threads, Allocate(t) PROVE ArenasOK'
  <2>1. PICK size \in Sizes, alignment \in 0 .. (BaseAlignment + 1) :
          \/ UNCHANGED arenas
          \/ /\ ValidateAlignment(alignment)
             /\ size > 0 => ~Exceeds(arenas[0], size, alignment)
             /\ arenas' = IF size = 0 THEN arenas
                          ELSE [arenas EXCEPT ![0] =
                                    Allocated(arenas[0], size, alignment)]
    BY <1>23 DEF Allocate
  <2>2. CASE UNCHANGED arenas
    BY <2>2 DEF ArenasOK
  <2>3. CASE /\ ValidateAlignment(alignment) /\ size # 0
             /\ size > 0 => ~Exceeds(arenas[0], size, alignment)
             /\ arenas' = [arenas EXCEPT ![0] = Allocated(arenas[0], size, alignment)]
    <3>1. size \in Nat /\ size > 0
      BY <2>3, TicksAssumption
    <3>2. alignment \in Nat \ {0}
      BY <2>3, ScratchAssumption DEF ValidateAlignment, PowersOfTwo
    <3> DEFINE after == Allocated(arenas[0], size, alignment)
    <3>3. ArenaOK(arenas[0])
      BY ThreadFacts DEF ArenasOK
    <3>4. ArenaOK(after) /\ after \in ArenaType
      BY <2>3, <3>1, <3>2, <3>3, AllocatedOK DEF ArenaOK
    <3>5. arenas' = [arenas EXCEPT ![0] = after]
      BY <2>3
    <3> HIDE DEF after
    <3> QED
      BY <3>4, <3>5, ThreadFacts DEF ArenasOK
  <2> QED
    BY <2>1, <2>2, <2>3
<1>24. ASSUME NEW t \in Threads, Reset(t) PROVE ArenasOK'
  <2> DEFINE after == Emptied(arenas[0])
  <2>1. arenas' = [arenas EXCEPT ![0] = after]
    BY <1>24 DEF Reset
  <2>2. ArenaOK(after) /\ after \in ArenaType
    BY EmptyArenaOK, ThreadFacts DEF ArenasOK, ArenaOK
  <2> HIDE DEF after
  <2> QED
    BY <2>1, <2>2, ThreadFacts DEF ArenasOK
<1>25. CASE CpuSetChanges
  BY <1>25, ArenasUntouched DEF CpuSetChanges
<1>26. CASE ResourceLoads
  BY <1>26, ArenasUntouched DEF ResourceLoads
<1>27. CASE PumpMainThreadQueue
  BY <1>27, ArenasUntouched DEF PumpMainThreadQueue
<1>28. CASE DrainReturns
  BY <1>28, ArenasUntouched DEF DrainReturns
<1> QED
  BY <1>1, <1>2, <1>3, <1>4, <1>5, <1>6, <1>7, <1>8, <1>9,
     <1>10, <1>11, <1>12, <1>13, <1>14, <1>15, <1>16, <1>17, <1>18,
     <1>19, <1>20, <1>21, <1>22, <1>23, <1>24, <1>25, <1>26, <1>27, <1>28
     DEF Next, MainNext, WorkerNext, CallerNext

(* The budget after a capture is the budget before it with the CPUs just   *)
(* counted.                                                                *)
Measured(before, after) ==
  /\ after \in BudgetType
  /\ after.hard = before.hard /\ after.soft = before.soft
  /\ after.headroom = before.headroom /\ after.cpus = cpus

(* Capture replaces the CPUs and keeps the reservations.                   *)
LEMMA CaptureMeasures ==
  ASSUME PlanTypes
  PROVE  Measured(budget, Capture(budget, step + 1, cpus))
<1> DEFINE after == Capture(budget, step + 1, cpus)
           peak == IF step + 1 > budget.peak THEN step + 1 ELSE budget.peak
<1>1. budget \in BudgetType /\ cpus \in Nat /\ step \in Nat
  BY DEF PlanTypes
<1>2. peak \in Nat
  BY <1>1 DEF BudgetType
<1>3. after = [budget EXCEPT !.cpus = cpus, !.peak = peak,
                             !.snapshots = budget.snapshots + 1]
  BY DEF Capture
<1> HIDE DEF peak, after
<1>4. /\ after.hard = budget.hard /\ after.soft = budget.soft
      /\ after.headroom = budget.headroom /\ after.cpus = cpus
  BY <1>1, <1>3 DEF BudgetType
<1>5. budget.snapshots + 1 \in Nat
  BY <1>1 DEF BudgetType
<1>6. after \in BudgetType
  BY <1>1, <1>2, <1>3, <1>5 DEF BudgetType
<1> QED
  BY <1>4, <1>6 DEF Measured, after

(* The workers available fit beside the reservations.                      *)
LEMMA AvailableFits ==
  ASSUME NEW b \in BudgetType
  PROVE  /\ AvailableWorkerCount(b) \in Nat /\ Reserved(b) \in Nat
         /\ AvailableWorkerCount(b) > 0
              => AvailableWorkerCount(b) + Reserved(b) <= b.cpus
BY DEF BudgetType, AvailableWorkerCount, Reserved

(* Soft reservations for three CPUs or more leave the host its worker.     *)
LEMMA SoftLeaveRoom ==
  ASSUME BudgetInv, driver = "host", changes = 0, cpus >= 3, pc = "plan"
  PROVE  AvailableWorkerCount(budget) >= 1
<1>1. /\ budget.hard = 1 /\ budget.headroom = 1 /\ budget.cpus = cpus /\ cpus \in Nat
      /\ budget.soft = SoftReservations(cpus)
  BY DEF BudgetInv, PlanTypes, HostBudget
<1>2. SoftReservations(cpus) \in Nat /\ SoftReservations(cpus) + 3 <= cpus
  BY <1>1 DEF SoftReservations, Least
<1> QED
  BY <1>1, <1>2 DEF AvailableWorkerCount, Reserved

(* The budget a program starts with.                                       *)
LEMMA BudgetInit ==
  Init => BudgetInv
<1> SUFFICES ASSUME Init PROVE BudgetInv
  OBVIOUS
<1>1. cpus \in Nat /\ SoftReservations(cpus) \in Nat
  <2>1. cpus \in CpuCounts
    BY DEF Init
  <2>2. cpus \in Nat
    BY <2>1, TicksAssumption
  <2> QED
    BY <2>2 DEF SoftReservations, Least
<1>2. budget \in BudgetType
  BY <1>1 DEF Init, NewBudget, BudgetType
<1>3. driver = "host" => pc = "capture" /\ budget.hard = 1 /\ budget.headroom = 1
                         /\ budget.soft = SoftReservations(cpus)
  BY DEF Init, NewBudget, Program
<1>4. /\ changes = 0 /\ step = 0 /\ workers = 0 /\ schedule = <<>>
      /\ pc \in {"capture", driver}
  BY DEF Init
<1>6. pc \notin {"plan", "phase", "tick", "wait", "publish"}
  BY TicksAssumption DEF Init, Program
<1>7. PlanTypes
  <2>1. schedule \in Seq(Nat)
    BY <1>4
  <2> QED
    BY <1>1, <1>2, <1>4, <1>6, <2>1 DEF PlanTypes
<1>8. WorkersReserved
  BY <1>4 DEF WorkersReserved
<1>9. error \notin {"headroom", "reserve"}
  BY DEF Init
<1>10. HostBudget
  BY <1>3, <1>4, <1>6, <1>9 DEF HostBudget
<1> QED
  BY <1>7, <1>8, <1>10 DEF BudgetInv

(* Every step keeps to the budget.                                         *)
LEMMA BudgetNext ==
  IInv /\ Next => BudgetInv'
<1> SUFFICES ASSUME IInv, Next PROVE BudgetInv'
  OBVIOUS
<1> USE DEF IInv, BudgetInv, PlanTypes, WorkersReserved, HostBudget, Program, Exit,
           budgetVars, hostVars, jobVars, ecsVars,
           planVars, ownerFrame
<1>1. CASE CaptureBudget
  <2>1. CASE Exit("budget") /\ UNCHANGED <<step, budget>>
    BY <1>1, <2>1 DEF CaptureBudget
  <2>2. CASE /\ CanCapture(budget, step + 1, cpus)
             /\ budget' = Capture(budget, step + 1, cpus) /\ step' = step + 1
             /\ pc' = IF step' = Captures THEN "plan" ELSE pc
             /\ UNCHANGED <<error, workers>>
    <3>1. Measured(budget, budget')
      BY <2>2, CaptureMeasures
    <3>2. /\ pc = "capture" /\ pc' \in {"capture", "plan"} /\ step' \in Nat /\ step' > 0
          /\ UNCHANGED <<driver, cpus, changes, schedule, workers, error>>
      BY <1>1, <2>2 DEF CaptureBudget
    <3> QED
      BY <3>1, <3>2 DEF Measured
  <2> QED
    BY <1>1, <2>1, <2>2 DEF CaptureBudget
<1>2. CASE StartHost
  BY <1>2 DEF StartHost
<1>3. CASE Plan
  <2> DEFINE available == AvailableWorkerCount(budget)
  <2>1. pc = "plan" /\ UNCHANGED <<driver, budget, cpus, changes, step>> /\ workers = 0
    BY <1>3 DEF Plan
  <2>2. available \in Nat
    BY AvailableFits
  <2>3. CASE driver = "integration"
    <3>1. schedule' \in Seq(Nat) /\ workers' = 0
      <4>1. Least(MaxWorkers, available) \in Nat
        BY <2>2, TicksAssumption DEF Least
      <4>2. \A n \in Nat : Orders(n) \subseteq Seq(Nat)
        <5>1. ASSUME NEW n \in Nat, NEW p \in Orders(n) PROVE p \in Seq(Nat)
          <6>1. p \in [1 .. n -> Nat]
            BY DEF Orders
          <6> QED
            BY <6>1, SeqDef
        <5> QED
          BY <5>1
      <4> QED
        BY <1>3, <2>1, <2>3, <4>1, <4>2 DEF Plan
    <3>2. pc' \in {"phase", "exit"}
      BY <1>3, <2>3 DEF Plan
    <3> QED
      BY <2>1, <2>3, <3>1, <3>2
  <2>4. CASE driver = "host"
    <3>1. PICK requested \in 0 .. MaxWorkers :
            LET count == IF requested = 0 THEN Least(1, available) ELSE requested
            IN IF count \in 1 .. available
               THEN /\ schedule' = <<count>> /\ pc' = "phase"
                    /\ UNCHANGED <<error, workers>>
               ELSE /\ Exit(IF requested = 0 THEN "headroom" ELSE "request")
                    /\ UNCHANGED schedule
      BY <1>3, <2>4 DEF Plan
    <3> DEFINE count == IF requested = 0 THEN Least(1, available) ELSE requested
    <3>2. CASE count \in 1 .. available
      <4>1. /\ schedule' = <<count>> /\ pc' = "phase" /\ UNCHANGED <<error, workers>>
        BY <3>1, <3>2
      <4>2. /\ schedule' \in Seq(Nat) /\ Len(schedule') = 1
            /\ schedule'[1] \in 1 .. available
        BY <2>2, <3>2, <4>1
      <4> HIDE DEF count
      <4>3. AvailableWorkerCount(budget)' = available
        BY <2>1 DEF AvailableWorkerCount, Reserved
      <4> HIDE DEF available
      <4> QED
        BY <2>1, <4>1, <4>2, <4>3
    <3>3. CASE count \notin 1 .. available
      <4>1. /\ Exit(IF requested = 0 THEN "headroom" ELSE "request")
            /\ UNCHANGED schedule
        BY <3>1, <3>3
      <4>2. changes = 0 /\ cpus >= 3 => requested # 0
        <5>1. changes = 0 /\ cpus >= 3 => available >= 1
          BY <2>1, <2>4, SoftLeaveRoom
        <5> QED
          BY <2>2, <3>3, <5>1 DEF Least
      <4> QED
        BY <2>1, <4>1, <4>2
    <3> QED
      BY <3>2, <3>3
  <2> QED
    BY <1>3, <2>3, <2>4 DEF Plan
<1>4. CASE BeginPhase
  <2>1. /\ pc = "phase" /\ schedule # <<>> /\ schedule' = Tail(schedule)
        /\ UNCHANGED <<driver, cpus, changes, step>>
    BY <1>4 DEF BeginPhase
  <2>2. /\ schedule' \in Seq(Nat) /\ Head(schedule) \in Nat
        /\ Head(schedule) = schedule[1]
    BY <2>1, HeadTailProperties
  <2>3. driver = "host" => schedule' = <<>>
    BY <2>1, <2>2, HeadTailProperties, EmptySeq
  <2>4. CASE /\ budget' = Capture(budget, step + 1, cpus)
             /\ CanCapture(budget, step + 1, cpus)
             /\ IF CanReserveWorkers(budget', Head(schedule))
                THEN /\ workers' = Head(schedule) /\ pc' = "tick" /\ UNCHANGED error
                ELSE Exit("reserve")
    <3>1. Measured(budget, budget')
      BY <2>4, CaptureMeasures
    <3>2. CASE CanReserveWorkers(budget', Head(schedule))
      <4>1. workers' + Reserved(budget') <= budget'.cpus
        <5>1. budget' \in BudgetType
          BY <3>1 DEF Measured
        <5>2. /\ AvailableWorkerCount(budget') \in Nat /\ Reserved(budget') \in Nat
              /\ AvailableWorkerCount(budget') > 0
                   => AvailableWorkerCount(budget') + Reserved(budget') <= budget'.cpus
          BY <5>1, AvailableFits
        <5>3. workers' \in Nat /\ workers' > 0 /\ workers' <= AvailableWorkerCount(budget')
          BY <2>2, <2>4, <3>2 DEF CanReserveWorkers
        <5>4. budget'.cpus \in Nat
          BY <5>1 DEF BudgetType
        <5> QED
          BY <5>2, <5>3, <5>4
      <4>2. workers' \in Nat /\ pc' = "tick" /\ UNCHANGED error
        BY <2>2, <2>4, <3>2
      <4>3. PlanTypes'
        BY <2>1, <2>2, <2>3, <3>1, <4>2 DEF Measured
      <4>4. WorkersReserved'
        BY <4>1
      <4>5. HostBudget'
        BY <2>1, <3>1, <4>2 DEF Measured
      <4> QED
        BY <4>3, <4>4, <4>5
    <3>3. CASE ~CanReserveWorkers(budget', Head(schedule))
      <4>1. ~(driver = "host" /\ changes = 0)
        <5>1. SUFFICES ASSUME driver = "host", changes = 0 PROVE FALSE
          OBVIOUS
        <5>2. AvailableWorkerCount(budget') = AvailableWorkerCount(budget)
          BY <2>1, <3>1, <5>1 DEF AvailableWorkerCount, Reserved, Measured
        <5> QED
          BY <2>1, <2>2, <3>3, <5>1, <5>2, AvailableFits DEF CanReserveWorkers
      <4> QED
        BY <2>1, <2>2, <2>4, <3>1, <3>3, <4>1 DEF Measured
    <3> QED
      BY <3>2, <3>3
  <2>5. CASE Exit("budget") /\ UNCHANGED budget
    BY <2>1, <2>2, <2>3, <2>5
  <2> QED
    BY <1>4, <2>4, <2>5 DEF BeginPhase, Remeasured
<1>5. CASE SubmitTasks
  BY <1>5 DEF SubmitTasks
<1>6. CASE MergeTick
  BY <1>6 DEF MergeTick
<1>7. CASE WaitThrows
  BY <1>7 DEF WaitThrows
<1>8. CASE PublishTick
  BY <1>8 DEF PublishTick
<1>9. CASE EndPhase
  BY <1>9 DEF EndPhase
<1>10. CASE DrainAgain
  BY <1>10 DEF DrainAgain
<1>11. CASE DrainTimesOut
  BY <1>11 DEF DrainTimesOut
<1>12. CASE PrepareShutdown
  <2>1. /\ pc' \in {"shutdown", "exit"} /\ workers' \in {workers, 0} /\ pc = "shutdown"
        /\ error' \in {error, "retained"}
        /\ UNCHANGED <<driver, budget, cpus, changes, step, schedule>>
    BY <1>12 DEF PrepareShutdown
  <2> QED
    BY <2>1
<1>13. CASE FinalizeShutdown
  <2>1. /\ pc' = "exit" /\ workers' = 0 /\ error' \notin {"headroom", "reserve"}
        /\ UNCHANGED <<driver, budget, cpus, changes, step, schedule>>
    BY <1>13 DEF FinalizeShutdown
  <2> QED
    BY <2>1
<1>14. ASSUME NEW t \in Threads, NEW w \in Threads, TakeTask(t, w) PROVE BudgetInv'
  BY <1>14 DEF TakeTask
<1>15. ASSUME NEW t \in Threads, UseWorkerScratch(t) PROVE BudgetInv'
  BY <1>15 DEF UseWorkerScratch
<1>16. ASSUME NEW t \in Threads, BuildJournal(t) PROVE BudgetInv'
  BY <1>16 DEF BuildJournal
<1>17. ASSUME NEW t \in Threads, TaskThrows(t) PROVE BudgetInv'
  BY <1>17 DEF TaskThrows
<1>18. CASE CreateEntities
  BY <1>18 DEF CreateEntities
<1>19. CASE CopySnapshot
  BY <1>19 DEF CopySnapshot
<1>20. CASE AddJournal
  BY <1>20 DEF AddJournal
<1>21. CASE ClearJournals
  BY <1>21 DEF ClearJournals
<1>22. CASE OwnerMerges
  BY <1>22 DEF OwnerMerges
<1>23. ASSUME NEW t \in Threads, Allocate(t) PROVE BudgetInv'
  BY <1>23 DEF Allocate
<1>24. ASSUME NEW t \in Threads, Reset(t) PROVE BudgetInv'
  BY <1>24 DEF Reset
<1>25. CASE CpuSetChanges
  <2>1. changes' = changes + 1 /\ cpus' \in CpuCounts
        /\ UNCHANGED <<driver, pc, error, step, budget, workers, schedule>>
    BY <1>25 DEF CpuSetChanges
  <2> QED
    BY <2>1, TicksAssumption
<1>26. CASE ResourceLoads
  BY <1>26 DEF ResourceLoads
<1>27. CASE PumpMainThreadQueue
  BY <1>27 DEF PumpMainThreadQueue
<1>28. CASE DrainReturns
  BY <1>28 DEF DrainReturns
<1> QED
  BY <1>1, <1>2, <1>3, <1>4, <1>5, <1>6, <1>7, <1>8, <1>9,
     <1>10, <1>11, <1>12, <1>13, <1>14, <1>15, <1>16, <1>17, <1>18,
     <1>19, <1>20, <1>21, <1>22, <1>23, <1>24, <1>25, <1>26, <1>27, <1>28
     DEF Next, MainNext, WorkerNext, CallerNext

-----------------------------------------------------------------------------
(* The ticks of the programs.                                              *)

(* The world after n ticks.                                                *)
WorldAt(n) ==
  [i \in 1..Entities |-> [entity |-> i, value |-> (i - 1) + n, delta |-> 1]]

(* The states in which a supervisor runs.                                  *)
Ticking == {"tick", "wait", "publish"}

(* What becomes of a task.                                                  *)
TaskStates == {"none", "ready", "scratch", "build", "done", "threw"}

(* The plan of a program, its tasks and its threads.                        *)
ProgramTypes ==
  /\ pc \in {"capture", "plan", "phase", "shutdown", "exit"} \cup Ticking
  /\ tick \in Nat /\ left \in Nat /\ phase \in Nat
  /\ schedule \in Seq(1..MaxWorkers) /\ workers \in 0..MaxWorkers
  /\ task \in [Threads -> TaskStates] /\ thread \in [Threads -> 0..MaxWorkers]

(* A program's world is missing or exactly the one after its ticks.        *)
WorldKept ==
  /\ error # "tick"
  /\ world \in {NoWorld, WorldAt(tick)}
  /\ pc \in {"capture", "plan"} => tick = 0 /\ phase = 0
  /\ pc \in {"phase"} \cup Ticking => world = WorldAt(tick)

(* The phases share the ticks the way partitions share a world.            *)
TicksShared ==
  /\ pc = "phase" => schedule # <<>> /\ tick = PartitionStart(Ticks, phase, Phases)
  /\ pc \in Ticking =>
       /\ phase > 0 /\ workers > 0
       /\ tick + left = PartitionStart(Ticks, phase, Phases)
  /\ pc = "wait" => left > 0

(* The vector has an element for each worker.                               *)
JournalVector == journals = [i \in 1..workers |-> journals[i]]

(* The host reuses a snapshot that follows the world.                      *)
HostReuses ==
  driver = "host" /\ pc \in Ticking => snapshot = WorldAt(tick) /\ JournalVector

(* Tasks exist while main waits, each is run by one thread, and one that   *)
(* is done has left the journal of its worker, complete.                   *)
TasksRun ==
  /\ snapshot = WorldAt(tick) /\ JournalVector
  /\ \A w \in Threads : (w < workers) = (task[w] # "none")
  /\ \A t \in Threads : thread[t] # Nobody =>
       thread[t] \in Threads /\ task[thread[t]] \in {"scratch", "build"}
  /\ \A w \in Threads : task[w] \in {"scratch", "build"} =>
       \E t \in Threads : thread[t] = w
  /\ \A t, u \in Threads : thread[t] = thread[u] /\ thread[t] # Nobody => t = u
  /\ \A w \in Threads : task[w] = "done" =>
       /\ journals[w + 1] = BuildTransformJournal(snapshot, w, workers)
       /\ ~BuildThrows(snapshot, w, workers)

(* Between two ticks nothing runs.                                          *)
NoTasks == \A t \in Threads : thread[t] = Nobody /\ task[t] = "none"

(* The invariant of the programs.                                           *)
TickInv ==
  Program =>
    /\ ProgramTypes /\ WorldKept /\ TicksShared /\ HostReuses
    /\ pc = "wait" => TasksRun
    /\ pc # "wait" => NoTasks

(* Entities that a program creates are the world before its first tick.    *)
LEMMA NewWorld ==
  NewEntities(0, Entities) = WorldAt(0)
<1>1. ASSUME NEW i \in 1..Entities
      PROVE  [entity |-> 0 + i, value |-> 0 + i - 1, delta |-> DefaultVelocity]
             = [entity |-> i, value |-> (i - 1) + 0, delta |-> 1]
  <2>1. 0 + i = i /\ 0 + i - 1 = (i - 1) + 0 /\ DefaultVelocity = 1
    BY TicksAssumption DEF DefaultVelocity
  <2> QED
    BY <2>1
<1> QED
  BY <1>1 DEF NewEntities, WorldAt

(* It is a sequence of entity states.                                       *)
LEMMA WorldAtType ==
  ASSUME NEW n \in Nat
  PROVE  /\ WorldAt(n) \in Seq(State) /\ Len(WorldAt(n)) = Entities
         /\ DOMAIN WorldAt(n) = 1..Entities
         /\ \A i \in 1..Entities :
              /\ WorldAt(n)[i] = [entity |-> i, value |-> (i - 1) + n, delta |-> 1]
              /\ WorldAt(n)[i].entity = i /\ WorldAt(n)[i].value = (i - 1) + n
              /\ WorldAt(n)[i].delta = 1
<1>1. Entities \in Nat
  BY TicksAssumption
<1>2. \A i \in 1..Entities : [entity |-> i, value |-> (i - 1) + n, delta |-> 1] \in State
  BY <1>1 DEF State
<1> QED
  BY <1>1, <1>2 DEF WorldAt

(* One sequential pass is one tick.                                         *)
LEMMA NextWorld ==
  ASSUME NEW n \in Nat
  PROVE  Sequential(WorldAt(n)) = WorldAt(n + 1)
<1>1. ASSUME NEW i \in 1..Entities
      PROVE  [WorldAt(n)[i] EXCEPT !.value = WorldAt(n)[i].value + WorldAt(n)[i].delta]
             = [entity |-> i, value |-> (i - 1) + (n + 1), delta |-> 1]
  <2>1. WorldAt(n)[i] = [entity |-> i, value |-> (i - 1) + n, delta |-> 1]
    BY WorldAtType
  <2>2. ((i - 1) + n) + 1 = (i - 1) + (n + 1)
    BY TicksAssumption
  <2> QED
    BY <2>1, <2>2
<1>2. DOMAIN WorldAt(n) = 1..Entities
  BY WorldAtType
<1> QED
  BY <1>1, <1>2 DEF Sequential, WorldAt

(* The world after n ticks is what VerifyWorld expects.                     *)
LEMMA WorldVerified ==
  ASSUME NEW n \in Nat
  PROVE  VerifyWorld(WorldAt(n), n)
<1>1. \A i \in 1..Entities : (i - 1) + n = i - 1 + n
  BY TicksAssumption
<1> QED
  BY <1>1, WorldAtType DEF VerifyWorld

(* When every task is done, the journals are the complete ones of the      *)
(* workers, in their order.                                                *)
LEMMA AllDone ==
  ASSUME NEW n \in Nat, NEW made, NEW count \in Nat \ {0},
         made = [i \in 1..count |-> made[i]],
         \A w \in 0..(count - 1) :
            /\ made[w + 1] = BuildTransformJournal(WorldAt(n), w, count)
            /\ ~BuildThrows(WorldAt(n), w, count)
  PROVE  Complete(made, count, WorldAt(n), count)
<1> DEFINE of == WorldAt(n)
           start(i) == PartitionStart(Len(of), i, count)
<1>1. of \in Seq(State) /\ Len(of) \in Nat
  BY WorldAtType, TicksAssumption
<1> HIDE DEF of
<1>2. ASSUME NEW i \in 1..count
      PROVE  /\ made[i].worker = i - 1 /\ made[i] \in Journal
             /\ made[i].updates = UpdatesOf(of, start(i - 1), start(i))
  <2>1. PICK w \in 0..(count - 1) : w = i - 1
    OBVIOUS
  <2>2. w + 1 = i /\ w \in 0..count /\ i \in 0..count
    BY <2>1
  <2>3. made[i] = BuildTransformJournal(of, w, count) /\ ~BuildThrows(of, w, count)
    BY <2>2 DEF of
  <2>4. PartitionEnd(Len(of), w, count) = start(w + 1) /\ start(w) <= start(w + 1)
    BY <1>1, PartitionsTile
  <2>5. BeforeOverflow(of, start(w), start(w + 1)) = start(w + 1)
    BY <2>3, <2>4, Zenon DEF BuildThrows
  <2>6. BuildTransformJournal(of, w, count) =
          [worker |-> w, of |-> of, count |-> count,
           updates |-> UpdatesOf(of, start(w), start(w + 1))]
    BY <2>4, <2>5, Zenon DEF BuildTransformJournal
  <2>7. start(w) \in 0..Len(of) /\ start(w + 1) \in 0..Len(of)
    BY <1>1, <2>2, PartitionInside
  <2>8. UpdatesOf(of, start(w), start(w + 1)) \in Seq(Update)
    <3> HIDE DEF start
    <3>1. PICK begin \in Nat, end \in Nat : begin = start(w) /\ end = start(w + 1)
      BY <1>1, <2>7
    <3>2. begin <= end /\ end <= Len(of)
      BY <1>1, <2>4, <2>7, <3>1 DEF start
    <3>3. UpdatesOf(of, begin, end) \in Seq(Update)
      BY <1>1, <3>2, UpdatesOfPart DEF UpdatesAll
    <3> QED
      BY <3>1, <3>3
  <2> HIDE DEF start
  <2>9. made[i] \in Journal /\ made[i].worker = w
        /\ made[i].updates = UpdatesOf(of, start(w), start(w + 1))
    BY <1>1, <2>3, <2>6, <2>8 DEF Journal
  <2> QED
    BY <2>1, <2>2, <2>9
<1>3. made \in [1..count -> Journal]
  BY <1>2
<1> QED
  BY <1>2, <1>3, Zenon DEF Complete, of

(* Merging the complete journals of a tick makes the next world, and the    *)
(* updates are what the host expects and applies to its snapshot.           *)
LEMMA TickMerged ==
  ASSUME NEW n \in Nat, NEW made, NEW count \in 1..MaxWorkers,
         Complete(made, count, WorldAt(n), count)
  PROVE  /\ MergeJournals(WorldAt(n), made) = {[world |-> WorldAt(n + 1), ok |-> TRUE]}
         /\ JournalsAsExpected(WorldAt(n), AllUpdates(made), SequenceNumbers(made), n + 1)
         /\ ApplyJournals(WorldAt(n), AllUpdates(made)) = WorldAt(n + 1)
<1> DEFINE of == WorldAt(n)
           updates == AllUpdates(made)
           sequences == SequenceNumbers(made)
<1>1. /\ of \in Seq(State) /\ Len(of) = Entities /\ DOMAIN of = 1..Entities
      /\ \A i \in 1..Entities :
           /\ of[i] = [entity |-> i, value |-> (i - 1) + n, delta |-> 1]
           /\ of[i].entity = i /\ of[i].value = (i - 1) + n /\ of[i].delta = 1
  BY WorldAtType
<1>2. /\ Entities \in Nat /\ count \in Nat \ {0} /\ count \in 1..MaxWorldWorkers
      /\ Len(of) <= MaxUpdates
  BY <1>1, TicksAssumption, FitsAssumption, EcsAssumption
<1>3. MergeJournals(of, made) = {[world |-> Sequential(of), ok |-> TRUE]}
  BY <1>1, <1>2, MergeIsSequential
<1>4. Sequential(of) = WorldAt(n + 1)
  BY NextWorld
<1>5. /\ Len(updates) = Len(of)
      /\ \A k \in 1..Len(of) :
           /\ updates[k].entity = of[k].entity
           /\ updates[k].value = of[k].value + of[k].delta
           /\ updates[k].sequence = sequences[k]
  <2>1. count \in Nat /\ count <= count /\ PartitionStart(Len(of), count, count) = Len(of)
    <3>1. count \in Nat /\ count <= count
      BY <1>2
    <3>2. Len(of) \in Nat
      BY <1>1, <1>2, Zenon
    <3> HIDE DEF of
    <3>3. PartitionStart(Len(of), count, count) = Len(of)
      BY <1>2, <3>2, PartitionsTile, Zenon
    <3> QED
      BY <3>1, <3>3
  <2>2. Complete(made, count, of, count)
    OBVIOUS
  <2> HIDE DEF of
  <2>3. UpdatesEach(made, of)
    BY <1>1, <1>2, <2>1, <2>2, UpdatesInOrder, Zenon
  <2> QED
    BY <2>3, Zenon DEF UpdatesEach
<1> HIDE DEF of, updates, sequences
<1>6. ASSUME NEW i \in 1..Entities
      PROVE  /\ updates[i].entity = of[i].entity /\ updates[i].value = i - 1 + (n + 1)
             /\ updates[i].sequence = sequences[i]
             /\ of[i].value = i - 1 + (n + 1) - 1 /\ of[i].delta = 1
             /\ [of[i] EXCEPT !.value = updates[i].value]
                  = [entity |-> i, value |-> (i - 1) + (n + 1), delta |-> 1]
  <2>1. /\ updates[i].entity = of[i].entity /\ updates[i].value = ((i - 1) + n) + 1
        /\ updates[i].sequence = sequences[i]
        /\ of[i] = [entity |-> i, value |-> (i - 1) + n, delta |-> 1]
    BY <1>1, <1>5
  <2>2. /\ ((i - 1) + n) + 1 = i - 1 + (n + 1) /\ (i - 1) + n = i - 1 + (n + 1) - 1
        /\ ((i - 1) + n) + 1 = (i - 1) + (n + 1)
    BY <1>2
  <2> QED
    BY <1>1, <2>1, <2>2
<1>7. JournalsAsExpected(of, updates, sequences, n + 1)
  BY <1>1, <1>5, <1>6, Zenon DEF JournalsAsExpected
<1>8. ApplyJournals(of, updates) = WorldAt(n + 1)
  BY <1>1, <1>6 DEF ApplyJournals, WorldAt
<1> QED
  BY <1>3, <1>4, <1>7, <1>8 DEF of, updates, sequences

(* A program starts without a world.                                        *)
LEMMA TickInit ==
  Init => TickInv
<1> SUFFICES ASSUME Init, Program PROVE TickInv
  BY DEF TickInv
<1>1. /\ pc = "capture" /\ tick = 0 /\ left = 0 /\ phase = 0 /\ workers = 0
      /\ schedule = <<>> /\ world = NoWorld /\ error = ""
      /\ task = [w \in Threads |-> "none"] /\ thread = [t \in Threads |-> Nobody]
  BY DEF Init
<1>2. ProgramTypes
  <2>1. schedule \in Seq(1..MaxWorkers) /\ workers \in 0..MaxWorkers /\ Nobody \in 0..MaxWorkers
    <3>1. schedule \in Seq(1..MaxWorkers)
      BY <1>1, EmptySeq
    <3>2. 0 \in 0..MaxWorkers /\ MaxWorkers \in 0..MaxWorkers
      BY TicksAssumption
    <3> QED
      BY <1>1, <3>1, <3>2 DEF Nobody
  <2> QED
    BY <1>1, <2>1 DEF ProgramTypes, TaskStates
<1>3. WorldKept /\ TicksShared /\ HostReuses /\ NoTasks
  BY <1>1 DEF WorldKept, TicksShared, HostReuses, NoTasks, Ticking
<1> QED
  BY <1>1, <1>2, <1>3 DEF TickInv

(* A step of the program that neither ticks nor runs tasks.                *)
LEMMA TickUntouched ==
  ASSUME TickInv, UNCHANGED <<driver, pc, error, jobVars, ecsVars, planVars>>
  PROVE  TickInv'
BY DEF TickInv, Program, ProgramTypes, WorldKept, TicksShared, HostReuses, TasksRun, NoTasks,
       JournalVector, Finished, Phases, jobVars, ecsVars, planVars

(* A step that ends the program.                                           *)
LEMMA TickExits ==
  ASSUME TickInv, NEW why, why # "tick", Exit(why), UNCHANGED <<driver, phase, left, tick, thread>>,
         schedule' \in Seq(1..MaxWorkers),
         world' = world \/ (tick = 0 /\ world' = WorldAt(0)), NoTasks', task' \in [Threads -> TaskStates]
  PROVE  TickInv'
<1> SUFFICES ASSUME Program' PROVE TickInv'
  BY DEF TickInv
<1>1. Program /\ ProgramTypes /\ WorldKept
  BY DEF TickInv, Program
<1>2. pc' = "exit" /\ error' = why /\ workers' = 0
  BY DEF Exit
<1>3. ProgramTypes'
  <2>1. 0 \in 0..MaxWorkers
    BY TicksAssumption
  <2> QED
    BY <1>1, <1>2, <2>1 DEF ProgramTypes
<1>4. WorldKept'
  BY <1>1, <1>2 DEF WorldKept, Ticking
<1>5. TicksShared' /\ HostReuses'
  BY <1>2 DEF TicksShared, HostReuses, Ticking
<1> QED
  BY <1>2, <1>3, <1>4, <1>5 DEF TickInv

(* Measuring the threads and CPUs.                                          *)
LEMMA TickCapture ==
  ASSUME TickInv, CaptureBudget
  PROVE  TickInv'
<1> SUFFICES ASSUME Program' PROVE TickInv'
  BY DEF TickInv
<1> USE DEF budgetVars, hostVars, jobVars, ecsVars, planVars
<1>1. /\ pc = "capture" /\ Program /\ NoTasks /\ ProgramTypes
      /\ UNCHANGED <<driver, schedule, phase, left, tick, ecsVars, jobVars>>
  BY DEF CaptureBudget, TickInv, Program
<1>2. CASE Exit("budget")
  <2>1. NoTasks' /\ task' \in [Threads -> TaskStates] /\ schedule' \in Seq(1..MaxWorkers)
    BY <1>1 DEF NoTasks, ProgramTypes
  <2> QED
    BY <1>1, <1>2, <2>1, TickExits
<1>3. CASE pc' \in {"capture", "plan"} /\ UNCHANGED <<error, workers>>
  BY <1>1, <1>3 DEF TickInv, Program, ProgramTypes, WorldKept, TicksShared, HostReuses, NoTasks, Ticking
<1> QED
  BY <1>1, <1>2, <1>3 DEF CaptureBudget

(* The Carbon host starts.                                                  *)
LEMMA TickStartHost ==
  ASSUME TickInv, StartHost
  PROVE  TickInv'
<1> SUFFICES ASSUME Program' PROVE TickInv'
  BY DEF TickInv
<1> USE DEF budgetVars, hostVars, jobVars, ecsVars, planVars
<1>1. /\ pc = "capture" /\ Program /\ NoTasks /\ ProgramTypes
      /\ UNCHANGED <<driver, schedule, phase, left, tick, ecsVars, jobVars>>
  BY DEF StartHost, TickInv, Program
<1>2. CASE Exit("host")
  <2>1. NoTasks' /\ task' \in [Threads -> TaskStates] /\ schedule' \in Seq(1..MaxWorkers)
    BY <1>1 DEF NoTasks, ProgramTypes
  <2> QED
    BY <1>1, <1>2, <2>1, TickExits
<1>3. CASE UNCHANGED <<pc, error, workers>>
  BY <1>1, <1>3, TickUntouched
<1> QED
  BY <1>2, <1>3 DEF StartHost

(* The world is made and the phases are planned.                            *)
LEMMA TickPlan ==
  ASSUME IInv, TickInv, Plan
  PROVE  TickInv'
<1> SUFFICES ASSUME Program' PROVE TickInv'
  BY DEF TickInv
<1> USE DEF budgetVars, hostVars, jobVars, ecsVars, planVars
<1>1. /\ pc = "plan" /\ Program /\ NoTasks /\ ProgramTypes /\ WorldKept /\ tick = 0 /\ phase = 0
      /\ UNCHANGED <<driver, phase, left, tick, snapshot, journals, jobVars>>
      /\ world' = WorldAt(0)
  BY NewWorld DEF Plan, TickInv, Program, WorldKept
<1>2. ASSUME NEW why, why # "tick", Exit(why), UNCHANGED schedule PROVE TickInv'
  <2>1. NoTasks' /\ task' \in [Threads -> TaskStates] /\ schedule' \in Seq(1..MaxWorkers)
    BY <1>1, <1>2 DEF NoTasks, ProgramTypes
  <2> QED
    BY <1>1, <1>2, <2>1, TickExits
<1>3. CASE /\ schedule' \in Seq(1..MaxWorkers) /\ Len(schedule') > 0 /\ pc' = "phase"
           /\ UNCHANGED <<error, workers>>
  <2>1. ProgramTypes'
    BY <1>1, <1>3 DEF ProgramTypes
  <2>2. WorldKept'
    BY <1>1, <1>3 DEF WorldKept, Ticking
  <2>3. tick' = PartitionStart(Ticks, phase', Phases')
    <3>1. PICK n \in Nat \ {0} : n = Len(schedule')
      BY <1>3
    <3>2. Phases' = n /\ PartitionStart(Ticks, 0, n) = 0
      BY <1>1, <3>1, PartitionsTile, TicksAssumption DEF Phases
    <3> QED
      BY <1>1, <3>2
  <2>4. TicksShared' /\ HostReuses' /\ NoTasks'
    BY <1>1, <1>3, <2>3 DEF TicksShared, HostReuses, NoTasks, Ticking
  <2> QED
    BY <1>3, <2>1, <2>2, <2>4 DEF TickInv
<1> DEFINE available == AvailableWorkerCount(budget)
           limit == Least(MaxWorkers, available)
<1>4. available \in Nat /\ MaxWorkers \in Nat \ {0} /\ limit \in 0..MaxWorkers
  <2>1. available \in Nat
    BY AvailableFits DEF IInv, BudgetInv, PlanTypes
  <2> HIDE DEF available
  <2> QED
    BY <2>1, TicksAssumption DEF Least
<1>5. CASE limit > 0 /\ schedule' \in Orders(limit) /\ pc' = "phase" /\ UNCHANGED <<error, workers>>
  <2> HIDE DEF limit
  <2>1. schedule' \in [1..limit -> 1..limit]
    BY <1>5 DEF Orders
  <2>2. schedule' \in Seq(1..MaxWorkers) /\ Len(schedule') = limit
    BY <1>4, <2>1
  <2> QED
    BY <1>3, <1>4, <1>5, <2>2
<1>6. ASSUME NEW requested \in 0..MaxWorkers, NEW count,
             count = (IF requested = 0 THEN Least(1, available) ELSE requested),
             IF count \in 1..available
             THEN /\ schedule' = <<count>> /\ pc' = "phase"
                  /\ UNCHANGED <<error, workers>>
             ELSE /\ Exit(IF requested = 0 THEN "headroom" ELSE "request")
                  /\ UNCHANGED schedule
      PROVE  TickInv'
  <2> HIDE DEF available
  <2>1. CASE count \in 1..available
    <3>1. count \in 1..MaxWorkers
      BY <1>4, <1>6, <2>1 DEF Least
    <3>2. schedule' \in Seq(1..MaxWorkers) /\ Len(schedule') > 0
      <4>1. schedule' = <<count>>
        BY <1>6, <2>1
      <4>2. <<count>> \in Seq(1..MaxWorkers) /\ Len(<<count>>) = 1
        BY <3>1
      <4> QED
        BY <4>1, <4>2
    <3> QED
      BY <1>3, <1>6, <2>1, <3>2
  <2>2. CASE count \notin 1..available
    <3>1. "headroom" # "tick" /\ "request" # "tick"
      OBVIOUS
    <3>2. CASE requested = 0
      <4>1. Exit("headroom") /\ UNCHANGED schedule
        BY <1>6, <2>2, <3>2
      <4> QED
        BY <1>2, <3>1, <4>1
    <3>3. CASE requested # 0
      <4>1. Exit("request") /\ UNCHANGED schedule
        BY <1>6, <2>2, <3>3
      <4> QED
        BY <1>2, <3>1, <4>1
    <3> QED
      BY <3>2, <3>3
  <2> QED
    BY <2>1, <2>2
<1>7. CASE Exit("headroom") /\ UNCHANGED schedule
  BY <1>2, <1>7
<1> HIDE DEF available, limit
<1> QED
  BY <1>5, <1>6, <1>7 DEF Plan, available, limit

(* A phase gets its share of the ticks.                                     *)
LEMMA TickBeginPhase ==
  ASSUME TickInv, BeginPhase
  PROVE  TickInv'
<1> SUFFICES ASSUME Program' PROVE TickInv'
  BY DEF TickInv
<1> USE DEF budgetVars, hostVars, jobVars, ecsVars, planVars
<1>1. /\ pc = "phase" /\ schedule # <<>> /\ Program /\ NoTasks /\ ProgramTypes /\ WorldKept
      /\ world = WorldAt(tick) /\ tick = PartitionStart(Ticks, phase, Phases)
      /\ UNCHANGED <<driver, tick, world, task, thread>>
      /\ schedule' = Tail(schedule) /\ left' = PhaseTicks /\ phase' = phase + 1
      /\ snapshot' = (IF driver = "host" THEN world ELSE snapshot)
      /\ journals' = [w \in 1..Head(schedule) |-> NoJournal]
  BY DEF BeginPhase, TickInv, Program, WorldKept, TicksShared
<1>2. /\ schedule' \in Seq(1..MaxWorkers) /\ Head(schedule) \in 1..MaxWorkers
      /\ Len(schedule') = Len(schedule) - 1 /\ Len(schedule) \in Nat \ {0}
  <2>1. schedule \in Seq(1..MaxWorkers)
    BY <1>1 DEF ProgramTypes
  <2>2. /\ Head(schedule) \in 1..MaxWorkers /\ Tail(schedule) \in Seq(1..MaxWorkers)
        /\ Len(Tail(schedule)) = Len(schedule) - 1
    BY <1>1, <2>1, HeadTailProperties
  <2>3. Len(schedule) \in Nat \ {0}
    BY <1>1, <2>1, EmptySeq
  <2> QED
    BY <1>1, <2>2, <2>3
<1>3. NoTasks'
  BY <1>1 DEF NoTasks
<1>4. /\ left' \in Nat /\ phase' \in Nat /\ phase' > 0
      /\ tick + left' = PartitionStart(Ticks, phase', Phases')
  <2>1. PICK n \in Nat \ {0} : n = Phases
    BY <1>1, <1>2 DEF ProgramTypes, Phases
  <2>2. Phases' = n /\ phase \in 0..(n - 1) /\ phase \in Nat
    BY <1>1, <1>2, <2>1 DEF ProgramTypes, Phases
  <2>3. Ticks \in Nat /\ Ticks \div n \in Nat /\ Ticks % n \in Nat
    BY TicksAssumption
  <2>4. left' = Ticks \div n + (IF phase < Ticks % n THEN 1 ELSE 0)
    BY <1>1, <2>1 DEF PhaseTicks
  <2>5. left' \in Nat /\ phase' \in Nat /\ phase' > 0
    BY <1>1, <2>2, <2>3, <2>4
  <2>6. /\ PartitionEnd(Ticks, phase, n) = PartitionStart(Ticks, phase + 1, n)
        /\ PartitionStart(Ticks, phase, n) \in 0..Ticks
    <3>1. phase \in 0..n
      BY <2>2
    <3> QED
      BY <2>2, <2>3, <3>1, PartitionsTile, PartitionInside
  <2>7. PartitionEnd(Ticks, phase, n) = PartitionStart(Ticks, phase, n) + left'
    <3>1. PICK a \in Nat : a = PartitionStart(Ticks, phase, n)
      BY <2>3, <2>6
    <3>2. PartitionEnd(Ticks, phase, n)
            = a + Ticks \div n + (IF phase < Ticks % n THEN 1 ELSE 0)
      BY <3>1 DEF PartitionEnd
    <3> QED
      BY <2>3, <2>4, <3>1, <3>2
  <2> QED
    BY <1>1, <2>1, <2>2, <2>5, <2>6, <2>7
<1>5. ASSUME NEW why, why # "tick", Exit(why) PROVE TickInv'
  <2>1. /\ pc' = "exit" /\ error' = why /\ workers' = 0 /\ 0 \in 0..MaxWorkers
    BY <1>5, TicksAssumption DEF Exit
  <2>2. ProgramTypes'
    BY <1>1, <1>2, <1>4, <2>1 DEF ProgramTypes
  <2>3. WorldKept' /\ TicksShared' /\ HostReuses'
    BY <1>1, <1>5, <2>1 DEF WorldKept, TicksShared, HostReuses, Ticking
  <2> QED
    BY <1>3, <2>1, <2>2, <2>3 DEF TickInv
<1>6. CASE workers' = Head(schedule) /\ pc' = "tick" /\ UNCHANGED error
  <2>1. workers' \in 0..MaxWorkers /\ workers' > 0
    BY <1>2, <1>6, TicksAssumption
  <2>2. ProgramTypes'
    BY <1>1, <1>2, <1>4, <1>6, <2>1 DEF ProgramTypes, Ticking
  <2>3. WorldKept'
    BY <1>1, <1>6 DEF WorldKept, Ticking
  <2>4. TicksShared'
    BY <1>1, <1>4, <1>6, <2>1 DEF TicksShared
  <2>5. JournalVector'
    BY <1>1, <1>6 DEF JournalVector
  <2>6. HostReuses'
    BY <1>1, <1>6, <2>5 DEF HostReuses
  <2> QED
    BY <1>3, <1>6, <2>2, <2>3, <2>4, <2>6 DEF TickInv
<1>7. "reserve" # "tick" /\ "budget" # "tick"
  OBVIOUS
<1>8. \/ workers' = Head(schedule) /\ pc' = "tick" /\ UNCHANGED error
      \/ Exit("reserve") \/ Exit("budget")
  BY DEF BeginPhase
<1> QED
  BY <1>5, <1>6, <1>7, <1>8

(* A tick begins: every worker has a task, none has a journal yet.          *)
LEMMA TickSubmit ==
  ASSUME TickInv, SubmitTasks
  PROVE  TickInv'
<1> SUFFICES ASSUME Program' PROVE TickInv'
  BY DEF TickInv
<1> USE DEF budgetVars, hostVars, jobVars, ecsVars, planVars
<1>1. /\ pc = "tick" /\ left > 0 /\ Program /\ NoTasks /\ ProgramTypes /\ WorldKept
      /\ TicksShared /\ HostReuses
      /\ UNCHANGED <<driver, error, planVars, world, thread>> /\ pc' = "wait"
      /\ snapshot' = (IF driver = "host" THEN snapshot ELSE world)
      /\ journals' = (IF driver = "host" THEN journals ELSE [w \in 1..workers |-> NoJournal])
      /\ task' = [w \in Threads |-> IF w < workers THEN "ready" ELSE "none"]
  BY DEF SubmitTasks, TickInv, Program
<1>2. ProgramTypes'
  BY <1>1 DEF ProgramTypes, Ticking, TaskStates
<1>3. WorldKept' /\ TicksShared'
  BY <1>1 DEF WorldKept, TicksShared, Ticking, Phases
<1>4. snapshot' = WorldAt(tick) /\ JournalVector'
  BY <1>1 DEF WorldKept, HostReuses, JournalVector, Ticking
<1>5. HostReuses'
  BY <1>1, <1>4 DEF HostReuses
<1>6. TasksRun'
  BY <1>1, <1>4 DEF TasksRun, NoTasks
<1> QED
  BY <1>1, <1>2, <1>3, <1>5, <1>6 DEF TickInv

(* Steps of the executor's threads happen while main waits.                *)
LEMMA TasksMeanWait ==
  ASSUME TickInv, NEW t \in Threads, thread[t] # Nobody \/ task[t] # "none", Program
  PROVE  pc = "wait" /\ TasksRun
BY DEF TickInv, NoTasks

(* What is left alone by a step of a task.                                 *)
LEMMA TaskStep ==
  ASSUME TickInv, Program, pc = "wait",
         UNCHANGED <<driver, pc, error, world, snapshot, planVars>>,
         task' \in [Threads -> TaskStates], thread' \in [Threads -> 0..MaxWorkers],
         TasksRun'
  PROVE  TickInv'
<1> USE DEF planVars
<1>1. ProgramTypes /\ WorldKept /\ TicksShared /\ HostReuses
  BY DEF TickInv
<1>2. ProgramTypes'
  BY <1>1 DEF ProgramTypes
<1>3. WorldKept'
  BY <1>1 DEF WorldKept
<1>4. TicksShared'
  BY <1>1 DEF TicksShared, Phases
<1>5. HostReuses'
  BY DEF HostReuses, TasksRun
<1> QED
  BY <1>2, <1>3, <1>4, <1>5 DEF TickInv

(* A thread takes a task no other thread has.                               *)
LEMMA TickTake ==
  ASSUME TickInv, NEW t \in Threads, NEW w \in Threads, TakeTask(t, w)
  PROVE  TickInv'
<1> SUFFICES ASSUME Program' PROVE TickInv'
  BY DEF TickInv
<1> USE DEF budgetVars, hostVars, jobVars, ecsVars, planVars
<1>1. /\ task[w] = "ready" /\ thread[t] = Nobody
      /\ thread' = [thread EXCEPT ![t] = w]
      /\ \E s \in {"scratch", "build"} : task' = [task EXCEPT ![w] = s]
      /\ UNCHANGED <<driver, pc, error, ecsVars, planVars>> /\ Program
  BY DEF TakeTask, Program
<1>2. pc = "wait" /\ TasksRun /\ ProgramTypes
  BY <1>1, TasksMeanWait DEF TickInv
<1>3. PICK s \in {"scratch", "build"} : task' = [task EXCEPT ![w] = s]
  BY <1>1
<1>4. w \in 0..MaxWorkers /\ w # Nobody
  BY TicksAssumption DEF Threads, Nobody
<1>5. task' \in [Threads -> TaskStates] /\ thread' \in [Threads -> 0..MaxWorkers]
  BY <1>1, <1>2, <1>3, <1>4 DEF ProgramTypes, TaskStates
<1>6. TasksRun'
  <2>1. task \in [Threads -> TaskStates] /\ thread \in [Threads -> 0..MaxWorkers]
    BY <1>2 DEF ProgramTypes
  <2>2. \A u \in Threads : thread[u] # w
    BY <1>1, <1>2, <1>4 DEF TasksRun
  <2>3. snapshot' = WorldAt(tick') /\ JournalVector'
    BY <1>1, <1>2 DEF TasksRun, JournalVector
  <2>4. \A v \in Threads : (v < workers') = (task'[v] # "none")
    BY <1>1, <1>2, <1>3, <2>1 DEF TasksRun
  <2>5. \A u \in Threads : thread'[u] # Nobody =>
          thread'[u] \in Threads /\ task'[thread'[u]] \in {"scratch", "build"}
    BY <1>1, <1>2, <1>3, <2>1 DEF TasksRun
  <2>6. \A v \in Threads : task'[v] \in {"scratch", "build"} => \E u \in Threads : thread'[u] = v
    <3>1. SUFFICES ASSUME NEW v \in Threads, task'[v] \in {"scratch", "build"}
                   PROVE  \E u \in Threads : thread'[u] = v
      OBVIOUS
    <3>2. CASE v = w
      <4>1. thread'[t] = w
        BY <1>1, <2>1
      <4> QED
        BY <3>2, <4>1
    <3>3. CASE v # w
      <4>1. task[v] \in {"scratch", "build"}
        BY <1>3, <2>1, <3>1, <3>3
      <4>2. PICK u \in Threads : thread[u] = v
        BY <1>2, <4>1 DEF TasksRun
      <4>3. v # Nobody
        BY TicksAssumption DEF Threads, Nobody
      <4>4. u # t
        BY <1>1, <4>2, <4>3
      <4>5. thread'[u] = v
        BY <1>1, <2>1, <4>2, <4>4
      <4> QED
        BY <4>5
    <3> QED
      BY <3>2, <3>3
  <2>7. \A u, v \in Threads : thread'[u] = thread'[v] /\ thread'[u] # Nobody => u = v
    BY <1>1, <1>2, <2>1, <2>2 DEF TasksRun
  <2>8. \A v \in Threads : task'[v] = "done" =>
          /\ journals'[v + 1] = BuildTransformJournal(snapshot', v, workers')
          /\ ~BuildThrows(snapshot', v, workers')
    <3>1. \A v \in Threads : task'[v] = "done" => task[v] = "done"
      BY <1>3, <2>1
    <3> QED
      BY <1>1, <1>2, <3>1, Zenon DEF TasksRun, ecsVars, planVars
  <2> QED
    BY <2>3, <2>4, <2>5, <2>6, <2>7, <2>8, Zenon DEF TasksRun
<1> QED
  BY <1>1, <1>2, <1>5, <1>6, TaskStep

(* A task has used its arena.                                               *)
LEMMA TickScratch ==
  ASSUME TickInv, NEW t \in Threads, UseWorkerScratch(t)
  PROVE  TickInv'
<1> SUFFICES ASSUME Program' PROVE TickInv'
  BY DEF TickInv
<1> USE DEF budgetVars, hostVars, jobVars, ecsVars, planVars
<1>1. /\ thread[t] # Nobody /\ task[thread[t]] = "scratch"
      /\ task' = [task EXCEPT ![thread[t]] = "build"]
      /\ UNCHANGED <<driver, pc, error, thread, ecsVars, planVars>> /\ Program
  BY DEF UseWorkerScratch, Program
<1>2. pc = "wait" /\ TasksRun /\ ProgramTypes
  BY <1>1, TasksMeanWait DEF TickInv
<1>3. PICK w \in Threads : w = thread[t]
  BY <1>1, <1>2 DEF TasksRun
<1>4. task \in [Threads -> TaskStates] /\ task' = [task EXCEPT ![w] = "build"] /\ task[w] = "scratch"
  BY <1>1, <1>2, <1>3 DEF ProgramTypes
<1>5. task' \in [Threads -> TaskStates] /\ thread' \in [Threads -> 0..MaxWorkers]
  BY <1>1, <1>2, <1>4 DEF ProgramTypes, TaskStates
<1>6. \A v \in Threads : /\ task'[v] = "done" <=> task[v] = "done"
                         /\ task'[v] = "none" <=> task[v] = "none"
                         /\ task'[v] \in {"scratch", "build"} <=> task[v] \in {"scratch", "build"}
  BY <1>4
<1>7. TasksRun'
  BY <1>1, <1>2, <1>6 DEF TasksRun, JournalVector
<1> QED
  BY <1>1, <1>2, <1>5, <1>7, TaskStep

(* A task ends, done or not: no thread runs it any more and no other       *)
(* journal has changed.                                                    *)
LEMMA TaskEnds ==
  ASSUME TickInv, Program, NEW t \in Threads, thread[t] # Nobody,
         NEW s \in {"done", "threw"}, task' = [task EXCEPT ![thread[t]] = s],
         thread' = [thread EXCEPT ![t] = Nobody],
         UNCHANGED <<driver, pc, error, world, snapshot, planVars>>,
         NEW made, journals' = [journals EXCEPT ![thread[t] + 1] = made],
         s = "done" => /\ made = BuildTransformJournal(snapshot, thread[t], workers)
                       /\ ~BuildThrows(snapshot, thread[t], workers)
  PROVE  TickInv'
<1> USE DEF planVars
<1>1. pc = "wait" /\ TasksRun /\ ProgramTypes
  BY TasksMeanWait DEF TickInv
<1>2. PICK w \in Threads : w = thread[t] /\ task[w] \in {"scratch", "build"}
  BY <1>1 DEF TasksRun
<1>3. /\ task \in [Threads -> TaskStates] /\ thread \in [Threads -> 0..MaxWorkers]
      /\ task' = [task EXCEPT ![w] = s] /\ journals' = [journals EXCEPT ![w + 1] = made]
  BY <1>1, <1>2 DEF ProgramTypes
<1>4. Nobody \in 0..MaxWorkers /\ w < workers /\ workers \in 0..MaxWorkers /\ w # Nobody
      /\ w \in Nat
  <2>1. task[w] # "none"
    BY <1>2
  <2> QED
    BY <1>1, <2>1, TicksAssumption DEF TasksRun, Nobody, ProgramTypes, Threads
<1>5. task' \in [Threads -> TaskStates] /\ thread' \in [Threads -> 0..MaxWorkers]
  BY <1>3, <1>4 DEF TaskStates
<1>6. TasksRun'
  <2>1. journals = [i \in 1..workers |-> journals[i]] /\ w + 1 \in 1..workers
    BY <1>1, <1>4 DEF TasksRun, JournalVector
  <2>2. /\ journals' = [i \in 1..workers |-> journals'[i]]
        /\ journals'[w + 1] = made
        /\ \A i \in 1..workers : i # w + 1 => journals'[i] = journals[i]
    BY <1>3, <2>1
  <2>3. snapshot' = WorldAt(tick') /\ JournalVector'
    BY <1>1, <2>2 DEF TasksRun, JournalVector
  <2>4. \A v \in Threads : (v < workers') = (task'[v] # "none")
    BY <1>1, <1>2, <1>3 DEF TasksRun
  <2>5. \A u \in Threads : thread'[u] # Nobody =>
          /\ u # t /\ thread'[u] = thread[u] /\ thread[u] # w
          /\ thread'[u] \in Threads /\ task'[thread'[u]] \in {"scratch", "build"}
    <3>1. SUFFICES ASSUME NEW u \in Threads, thread'[u] # Nobody
                   PROVE  /\ u # t /\ thread'[u] = thread[u] /\ thread[u] # w
                          /\ thread'[u] \in Threads /\ task'[thread'[u]] \in {"scratch", "build"}
      OBVIOUS
    <3>2. u # t /\ thread'[u] = thread[u]
      BY <1>3, <3>1
    <3>3. thread[u] # w
      BY <1>1, <1>2, <3>1, <3>2 DEF TasksRun
    <3>4. thread[u] \in Threads /\ task[thread[u]] \in {"scratch", "build"}
      BY <1>1, <3>1, <3>2 DEF TasksRun
    <3>5. task'[thread[u]] = task[thread[u]]
      BY <1>3, <3>3, <3>4
    <3> QED
      BY <3>2, <3>3, <3>4, <3>5
  <2>6. \A v \in Threads : task'[v] \in {"scratch", "build"} => \E u \in Threads : thread'[u] = v
    <3>1. SUFFICES ASSUME NEW v \in Threads, task'[v] \in {"scratch", "build"}
                   PROVE  \E u \in Threads : thread'[u] = v
      OBVIOUS
    <3>2. v # w /\ task[v] \in {"scratch", "build"}
      BY <1>3, <3>1
    <3>3. PICK u \in Threads : thread[u] = v
      BY <1>1, <3>2 DEF TasksRun
    <3>4. u # t
      BY <1>2, <3>2, <3>3
    <3> QED
      BY <1>3, <3>3, <3>4
  <2>7. \A u, v \in Threads : thread'[u] = thread'[v] /\ thread'[u] # Nobody => u = v
    BY <1>1, <2>5 DEF TasksRun
  <2>8. ASSUME NEW v \in Threads, task'[v] = "done"
        PROVE  /\ journals'[v + 1] = BuildTransformJournal(snapshot', v, workers')
               /\ ~BuildThrows(snapshot', v, workers')
    <3>1. CASE v = w
      <4>1. s = "done"
        BY <1>3, <2>8, <3>1
      <4> QED
        BY <1>2, <2>2, <3>1, <4>1, Zenon
    <3>2. CASE v # w
      <4>1. task[v] = "done" /\ v < workers
        BY <1>1, <1>3, <2>8, <3>2 DEF TasksRun
      <4>2. v + 1 \in 1..workers /\ v + 1 # w + 1
        BY <1>4, <3>2, <4>1 DEF Threads
      <4>3. journals'[v + 1] = journals[v + 1]
        BY <2>2, <4>2
      <4> QED
        BY <1>1, <4>1, <4>3, Zenon DEF TasksRun
    <3> QED
      BY <3>1, <3>2
  <2> QED
    BY <2>3, <2>4, <2>5, <2>6, <2>7, <2>8, Zenon DEF TasksRun
<1> QED
  BY <1>1, <1>5, <1>6, TaskStep

(* A task has built its journal, or an addition overflowed.                 *)
LEMMA TickBuild ==
  ASSUME TickInv, NEW t \in Threads, BuildJournal(t)
  PROVE  TickInv'
<1> SUFFICES ASSUME Program' PROVE TickInv'
  BY DEF TickInv
<1> DEFINE made == BuildTransformJournal(snapshot, thread[t], workers)
           s == IF BuildThrows(snapshot, thread[t], workers) THEN "threw" ELSE "done"
<1>1. /\ thread[t] # Nobody /\ Program /\ s \in {"done", "threw"}
      /\ task' = [task EXCEPT ![thread[t]] = s] /\ thread' = [thread EXCEPT ![t] = Nobody]
      /\ journals' = [journals EXCEPT ![thread[t] + 1] = made]
      /\ UNCHANGED <<driver, pc, error, world, snapshot, planVars>>
      /\ s = "done" => made = BuildTransformJournal(snapshot, thread[t], workers)
                       /\ ~BuildThrows(snapshot, thread[t], workers)
  BY Zenon DEF BuildJournal, Program
<1> HIDE DEF made, s
<1> QED
  BY <1>1, TaskEnds

(* A task cannot allocate.                                                  *)
LEMMA TickThrows ==
  ASSUME TickInv, NEW t \in Threads, TaskThrows(t)
  PROVE  TickInv'
<1> SUFFICES ASSUME Program' PROVE TickInv'
  BY DEF TickInv
<1> DEFINE made == [journals[thread[t] + 1] EXCEPT !.updates = <<>>]
<1>1. /\ thread[t] # Nobody /\ Program
      /\ task' = [task EXCEPT ![thread[t]] = "threw"] /\ thread' = [thread EXCEPT ![t] = Nobody]
      /\ journals' = [journals EXCEPT ![thread[t] + 1] = made]
      /\ UNCHANGED <<driver, pc, error, world, snapshot, planVars>>
  BY DEF TaskThrows, Program
<1>2. "threw" # "done" /\ "threw" \in {"done", "threw"}
  OBVIOUS
<1> HIDE DEF made
<1> QED
  BY <1>1, <1>2, TaskEnds

(* The journals are merged when every task is done, so all are complete.    *)
LEMMA TickMerge ==
  ASSUME TickInv, MergeTick
  PROVE  TickInv'
<1> SUFFICES ASSUME Program' PROVE TickInv'
  BY DEF TickInv
<1> USE DEF budgetVars, hostVars, jobVars, ecsVars, planVars
<1>1. /\ pc = "wait" /\ Program /\ ProgramTypes /\ WorldKept /\ TicksShared /\ TasksRun
      /\ Finished /\ NoneThrew /\ \A w \in Threads : task[w] # "ready"
      /\ UNCHANGED <<driver, schedule, phase, journals, thread>>
      /\ task' = [w \in Threads |-> "none"]
  BY DEF MergeTick, TickInv, Program
<1>2. tick \in Nat /\ workers \in 1..MaxWorkers /\ left \in Nat /\ left > 0
  BY <1>1, TicksAssumption DEF ProgramTypes, TicksShared, Ticking
<1>3. ASSUME NEW w \in 0..(workers - 1)
      PROVE  /\ journals[w + 1] = BuildTransformJournal(WorldAt(tick), w, workers)
             /\ ~BuildThrows(WorldAt(tick), w, workers)
  <2>1. w \in Threads /\ w < workers
    BY <1>2, TicksAssumption DEF Threads
  <2>2. task[w] \in TaskStates
    BY <1>1, <2>1 DEF ProgramTypes
  <2>3. task[w] # "none"
    BY <1>1, <2>1 DEF TasksRun
  <2>4. task[w] \notin {"scratch", "build"}
    <3>1. SUFFICES ASSUME task[w] \in {"scratch", "build"} PROVE FALSE
      OBVIOUS
    <3>2. PICK t \in Threads : thread[t] = w
      BY <1>1, <2>1, <3>1 DEF TasksRun
    <3>3. w # Nobody
      BY <2>1, TicksAssumption DEF Threads, Nobody
    <3> QED
      BY <1>1, <3>2, <3>3 DEF Finished
  <2>5. task[w] = "done"
    BY <1>1, <2>1, <2>2, <2>3, <2>4 DEF NoneThrew, TaskStates
  <2>6. snapshot = WorldAt(tick)
    BY <1>1 DEF TasksRun
  <2> QED
    BY <1>1, <2>1, <2>5, <2>6, Zenon DEF TasksRun
<1>4. Complete(journals, workers, WorldAt(tick), workers)
  <2>1. journals = [i \in 1..workers |-> journals[i]]
    BY <1>1 DEF TasksRun, JournalVector
  <2>2. workers \in Nat \ {0}
    BY <1>2, TicksAssumption
  <2> QED
    BY <1>2, <1>3, <2>1, <2>2, AllDone
<1>5. /\ MergeJournals(WorldAt(tick), journals) = {[world |-> WorldAt(tick + 1), ok |-> TRUE]}
      /\ JournalsAsExpected(WorldAt(tick), AllUpdates(journals), SequenceNumbers(journals),
                            tick + 1)
      /\ ApplyJournals(WorldAt(tick), AllUpdates(journals)) = WorldAt(tick + 1)
  BY <1>2, <1>4, TickMerged
<1>6. world = WorldAt(tick) /\ snapshot = WorldAt(tick)
  BY <1>1 DEF WorldKept, TasksRun, Ticking
<1>7. tick + 1 \in Nat /\ VerifyWorld(WorldAt(tick + 1), tick + 1)
  BY <1>2, WorldVerified
<1>8. PICK outcome \in MergeJournals(world, journals) :
        LET verified == IF driver = "host"
                        THEN JournalsAsExpected(snapshot, AllUpdates(journals),
                                                SequenceNumbers(journals), tick + 1)
                        ELSE VerifyWorld(outcome.world, tick + 1)
        IN /\ world' = outcome.world
           /\ tick' = IF outcome.ok THEN tick + 1 ELSE tick
           /\ snapshot' = IF driver = "host" /\ outcome.ok /\ verified
                          THEN ApplyJournals(snapshot, AllUpdates(journals))
                          ELSE snapshot
           /\ IF outcome.ok /\ verified
              THEN pc' = "publish" /\ left' = left - 1 /\ UNCHANGED <<error, workers>>
              ELSE Exit("tick") /\ UNCHANGED left
  BY Zenon DEF MergeTick
<1>9. outcome.ok = TRUE /\ outcome.world = WorldAt(tick + 1)
  <2>1. outcome = [world |-> WorldAt(tick + 1), ok |-> TRUE]
    BY <1>5, <1>6, <1>8
  <2> QED
    BY <2>1
<1>10. /\ world' = WorldAt(tick + 1) /\ tick' = tick + 1
       /\ snapshot' = (IF driver = "host" THEN WorldAt(tick + 1) ELSE snapshot)
       /\ pc' = "publish" /\ left' = left - 1 /\ UNCHANGED <<error, workers>>
  BY <1>5, <1>6, <1>7, <1>8, <1>9
<1>11. ProgramTypes'
  <2>1. left' \in Nat /\ tick' \in Nat
    BY <1>2, <1>7, <1>10
  <2> QED
    BY <1>1, <1>10, <2>1 DEF ProgramTypes, Ticking, TaskStates
<1>12. WorldKept'
  BY <1>1, <1>10 DEF WorldKept, Ticking
<1>13. TicksShared'
  <2>1. tick' + left' = tick + left
    BY <1>2, <1>10
  <2>2. Phases' = Phases
    BY <1>1 DEF Phases
  <2> QED
    BY <1>1, <1>10, <2>1, <2>2 DEF TicksShared, Ticking
<1>14. HostReuses'
  BY <1>1, <1>10 DEF HostReuses, TasksRun, JournalVector
<1>15. NoTasks'
  BY <1>1 DEF NoTasks, Finished
<1> QED
  BY <1>10, <1>11, <1>12, <1>13, <1>14, <1>15 DEF TickInv

(* A task threw: the world stays as it is.                                  *)
LEMMA TickWaitThrows ==
  ASSUME TickInv, WaitThrows
  PROVE  TickInv'
<1> SUFFICES ASSUME Program' PROVE TickInv'
  BY DEF TickInv
<1> USE DEF budgetVars, hostVars, jobVars, ecsVars, planVars
<1>1. /\ pc = "wait" /\ Program /\ ProgramTypes /\ Finished /\ Exit("worker")
      /\ UNCHANGED <<driver, schedule, phase, left, tick, world, thread>>
      /\ task' = [w \in Threads |-> "none"]
  BY DEF WaitThrows, TickInv, Program
<1>2. /\ NoTasks' /\ task' \in [Threads -> TaskStates] /\ schedule' \in Seq(1..MaxWorkers)
      /\ "worker" # "tick"
  BY <1>1 DEF NoTasks, Finished, TaskStates, ProgramTypes
<1> QED
  BY <1>1, <1>2, TickExits

(* The frame of the tick.                                                   *)
LEMMA TickPublish ==
  ASSUME TickInv, PublishTick
  PROVE  TickInv'
<1> SUFFICES ASSUME Program' PROVE TickInv'
  BY DEF TickInv
<1> USE DEF budgetVars, hostVars, jobVars, ecsVars, planVars
<1>1. /\ pc = "publish" /\ Program /\ ProgramTypes /\ WorldKept /\ TicksShared /\ HostReuses
      /\ NoTasks /\ UNCHANGED <<driver, schedule, phase, left, tick, ecsVars, task, thread>>
  BY DEF PublishTick, TickInv, Program
<1>2. CASE Exit("frames") \/ Exit("host")
  <2>1. NoTasks' /\ task' \in [Threads -> TaskStates] /\ schedule' \in Seq(1..MaxWorkers)
        /\ "frames" # "tick" /\ "host" # "tick"
    BY <1>1 DEF NoTasks, ProgramTypes
  <2> QED
    BY <1>1, <1>2, <2>1, TickExits
<1>3. CASE pc' = "tick" /\ UNCHANGED <<error, workers>>
  <2>1. ProgramTypes'
    BY <1>1, <1>3 DEF ProgramTypes, Ticking
  <2>2. WorldKept'
    BY <1>1, <1>3 DEF WorldKept, Ticking
  <2>3. TicksShared'
    BY <1>1, <1>3 DEF TicksShared, Ticking, Phases
  <2>4. HostReuses' /\ NoTasks'
    BY <1>1, <1>3 DEF HostReuses, Ticking, JournalVector, NoTasks
  <2> QED
    BY <1>3, <2>1, <2>2, <2>3, <2>4 DEF TickInv
<1> QED
  BY <1>2, <1>3 DEF PublishTick

(* When no phase is left, the phases have had all the ticks.                *)
LEMMA TickEndPhase ==
  ASSUME TickInv, EndPhase
  PROVE  TickInv'
<1> SUFFICES ASSUME Program' PROVE TickInv'
  BY DEF TickInv
<1> USE DEF budgetVars, hostVars, jobVars, ecsVars, planVars
<1>1. /\ pc = "tick" /\ left = 0 /\ Program /\ ProgramTypes /\ WorldKept /\ TicksShared
      /\ NoTasks /\ UNCHANGED <<driver, schedule, phase, left, tick, ecsVars, task, thread>>
      /\ workers' = 0
      /\ pc' = (IF schedule # <<>> THEN "phase"
                ELSE IF driver = "host" THEN "shutdown" ELSE "exit")
      /\ error' = (IF schedule = <<>> /\ (tick # Ticks \/ ~VerifyWorld(world, Ticks))
                   THEN "tick" ELSE error)
  BY DEF EndPhase, TickInv, Program
<1>2. tick = PartitionStart(Ticks, phase, Phases) /\ phase > 0 /\ phase \in Nat /\ tick \in Nat
  BY <1>1 DEF TicksShared, Ticking, ProgramTypes
<1>3. schedule = <<>> => tick = Ticks /\ VerifyWorld(world, Ticks)
  <2>1. SUFFICES ASSUME schedule = <<>> PROVE tick = Ticks /\ VerifyWorld(world, Ticks)
    OBVIOUS
  <2>2. Phases = phase
    BY <1>2, <2>1 DEF Phases
  <2>3. PartitionStart(Ticks, phase, phase) = Ticks
    BY <1>2, PartitionsTile, TicksAssumption
  <2>4. world = WorldAt(tick)
    BY <1>1 DEF WorldKept, Ticking
  <2> QED
    BY <1>2, <2>2, <2>3, <2>4, WorldVerified
<1>4. error' = error
  BY <1>1, <1>3
<1>5. ProgramTypes'
  <2>1. 0 \in 0..MaxWorkers
    BY TicksAssumption
  <2> QED
    BY <1>1, <2>1 DEF ProgramTypes
<1>6. WorldKept' /\ HostReuses' /\ NoTasks'
  BY <1>1, <1>4 DEF WorldKept, HostReuses, NoTasks, Ticking
<1>7. TicksShared'
  <2>1. Phases' = Phases
    BY <1>1 DEF Phases
  <2> QED
    BY <1>1, <1>2, <2>1 DEF TicksShared, Ticking
<1> QED
  BY <1>1, <1>5, <1>6, <1>7 DEF TickInv

(* The host has shut down, or has given up.                                 *)
LEMMA TickShutdown ==
  ASSUME TickInv, DrainTimesOut \/ PrepareShutdown \/ FinalizeShutdown
  PROVE  TickInv'
<1> SUFFICES ASSUME Program' PROVE TickInv'
  BY DEF TickInv
<1> USE DEF budgetVars, hostVars, jobVars, ecsVars, planVars
<1>1. /\ pc = "shutdown" /\ Program /\ ProgramTypes /\ NoTasks
      /\ UNCHANGED <<driver, schedule, phase, left, tick, ecsVars, jobVars>>
  BY DEF DrainTimesOut, PrepareShutdown, FinalizeShutdown, Draining, TickInv, Program
<1>2. CASE Exit("drain") \/ Exit("retained") \/ Exit("")
  <2>1. /\ NoTasks' /\ task' \in [Threads -> TaskStates] /\ schedule' \in Seq(1..MaxWorkers)
        /\ "drain" # "tick" /\ "retained" # "tick" /\ "" # "tick"
    BY <1>1 DEF NoTasks, ProgramTypes
  <2> QED
    BY <1>1, <1>2, <2>1, TickExits
<1>3. CASE UNCHANGED <<pc, error, workers>>
  BY <1>1, <1>3, TickUntouched
<1> QED
  BY <1>2, <1>3 DEF DrainTimesOut, PrepareShutdown, FinalizeShutdown

(* The callers are no programs.                                            *)
LEMMA TickCallers ==
  ASSUME TickInv, CallerNext
  PROVE  TickInv'
<1>1. pc \in {"owner", "arena"} /\ driver' = driver
  BY DEF CallerNext, CreateEntities, CopySnapshot, AddJournal, ClearJournals, OwnerMerges,
         Allocate, Reset, ownerFrame
<1>2. ~Program
  BY <1>1 DEF TickInv, ProgramTypes, Ticking
<1> QED
  BY <1>1, <1>2 DEF TickInv, Program

(* Every step keeps the invariant.                                          *)
LEMMA TickNext ==
  IInv /\ TickInv /\ Next => TickInv'
<1> SUFFICES ASSUME IInv, TickInv, Next PROVE TickInv'
  OBVIOUS
<1>1. CASE MainNext
  <2>1. CASE PumpMainThreadQueue \/ DrainAgain \/ DrainReturns
    BY <2>1, TickUntouched DEF PumpMainThreadQueue, DrainAgain, DrainReturns
  <2> QED
    BY <1>1, <2>1, TickCapture, TickStartHost, TickPlan, TickBeginPhase, TickSubmit, TickMerge,
       TickWaitThrows, TickPublish, TickEndPhase, TickShutdown DEF MainNext
<1>2. CASE WorkerNext
  BY <1>2, TickTake, TickScratch, TickBuild, TickThrows DEF WorkerNext
<1>3. CASE CallerNext
  BY <1>3, TickCallers
<1>4. CASE CpuSetChanges \/ ResourceLoads
  BY <1>4, TickUntouched DEF CpuSetChanges, ResourceLoads
<1> QED
  BY <1>1, <1>2, <1>3, <1>4 DEF Next

-----------------------------------------------------------------------------
(* The theorems.                                                           *)

(* The inductive invariant holds in every reachable state.                 *)
THEOREM Invariance ==
  Spec => []IInv
<1>1. Init => IInv
  BY ArenasInit, BudgetInit DEF IInv
<1>2. IInv /\ Next => IInv'
  BY ArenasNext, BudgetNext DEF IInv
<1>3. IInv /\ UNCHANGED vars => IInv'
  <2> SUFFICES ASSUME IInv, UNCHANGED vars PROVE IInv'
    OBVIOUS
  <2> USE DEF vars, budgetVars, jobVars, planVars, IInv
  <2>1. ArenasOK'
    BY ArenasUntouched
  <2>2. BudgetInv'
    BY DEF BudgetInv, PlanTypes, WorkersReserved, HostBudget, Program
  <2> QED
    BY <2>1, <2>2
<1> QED
  BY <1>1, <1>2, <1>3, PTL DEF Spec

(* The spans an arena hands out between two resets lie inside it, are      *)
(* aligned and do not overlap, for every capacity, size and alignment      *)
(* (ScratchAllocator::Allocate, ComputePadding).                           *)
THEOREM SpansApart ==
  Spec => []SpansDisjoint
<1>1. IInv => SpansDisjoint
  <2> SUFFICES ASSUME IInv, NEW t \in Threads, NEW a \in arenas[t].spans
               PROVE  /\ a.end <= arenas[t].capacity /\ a.start % a.alignment = 0
                      /\ \A b \in arenas[t].spans :
                           a # b => a.end <= b.start \/ b.end <= a.start
    BY DEF SpansDisjoint
  <2>1. ArenaOK(arenas[t])
    BY DEF IInv, ArenasOK
  <2>2. a.end \in Nat /\ arenas[t].offset \in Nat /\ arenas[t].capacity \in Nat
    BY <2>1 DEF ArenaOK, ArenaType, SpanType
  <2>3. a.end <= arenas[t].offset /\ arenas[t].offset <= arenas[t].capacity
    BY <2>1 DEF ArenaOK
  <2>4. a.end <= arenas[t].capacity
    BY <2>2, <2>3
  <2> QED
    BY <2>1, <2>4 DEF ArenaOK
<1> QED
  BY <1>1, Invariance, PTL

(* Only PrepareWorkerCount gives the supervisor workers, and it has just    *)
(* measured the CPUs.                                                       *)
LEMMA WorkersFit ==
  ASSUME IInv, [Next]_vars, workers = 0, workers' > 0
  PROVE  workers' + Reserved(budget') <= cpus
<1> USE DEF Exit, budgetVars, hostVars, jobVars, ecsVars, planVars, ownerFrame
<1>1. workers' \notin {workers, 0}
  OBVIOUS
<1>2. BeginPhase
  <2>1. ~WorkerNext
    BY <1>1 DEF WorkerNext, TakeTask, UseWorkerScratch, BuildJournal, TaskThrows
  <2>2. ~CallerNext
    BY <1>1 DEF CallerNext, CreateEntities, CopySnapshot, AddJournal, ClearJournals,
                OwnerMerges, Allocate, Reset
  <2>3. ~(CpuSetChanges \/ ResourceLoads \/ UNCHANGED vars)
    BY <1>1 DEF CpuSetChanges, ResourceLoads, vars
  <2>4. ~(CaptureBudget \/ StartHost \/ Plan)
    BY <1>1 DEF CaptureBudget, StartHost, Plan
  <2>5. ~(SubmitTasks \/ MergeTick \/ WaitThrows \/ PublishTick \/ EndPhase)
    BY <1>1 DEF SubmitTasks, MergeTick, WaitThrows, PublishTick, EndPhase
  <2>6. ~(\/ PumpMainThreadQueue \/ DrainAgain \/ DrainTimesOut \/ DrainReturns
          \/ PrepareShutdown \/ FinalizeShutdown)
    BY <1>1 DEF PumpMainThreadQueue, DrainAgain, DrainTimesOut, DrainReturns,
                PrepareShutdown, FinalizeShutdown
  <2> QED
    BY <2>1, <2>2, <2>3, <2>4, <2>5, <2>6 DEF Next, MainNext
<1>3. budget' = Capture(budget, step + 1, cpus)
  BY <1>1, <1>2 DEF BeginPhase, Remeasured
<1>4. budget'.cpus = cpus
  BY <1>3, CaptureMeasures DEF IInv, BudgetInv, Measured
<1>5. WorkersReserved'
  BY <1>2, BudgetNext DEF Next, MainNext, BudgetInv
<1> QED
  BY <1>4, <1>5 DEF WorkersReserved

(* Workers that start leave room for the reservations within the CPUs the   *)
(* process has at that moment, however often the CPU set has changed, and a *)
(* host on three or more CPUs that do not change is never refused its       *)
(* default worker (ThreadBudget, JobRuntime::PrepareWorkerCount), for every *)
(* number of CPUs.                                                          *)
THEOREM BudgetRespected ==
  Spec => HeadroomKept
<1>1. IInv => (driver = "host" /\ changes = 0 /\ cpus >= 3
                => error \notin {"headroom", "reserve"})
  BY DEF IInv, BudgetInv, HostBudget
<1>2. IInv /\ [Next]_vars
      => [workers = 0 /\ workers' > 0 => workers' + Reserved(budget') <= cpus]_vars
  BY WorkersFit
<1> QED
  BY <1>1, <1>2, Invariance, PTL DEF Spec, HeadroomKept

(* The invariant of the programs holds in every reachable state.            *)
THEOREM TickInvariance ==
  Spec => []TickInv
<1>1. IInv /\ TickInv /\ [Next]_vars => TickInv'
  <2>1. CASE UNCHANGED vars
    BY <2>1, TickUntouched DEF vars
  <2> QED
    BY <2>1, TickNext
<1> QED
  BY <1>1, TickInit, Invariance, PTL DEF Spec

(* However many workers there are, in whatever order they run and wherever a*)
(* tick fails, the world of a program is the one that sequential ticks make *)
(* of it, and no tick fails a check: for every number of entities, ticks,   *)
(* workers and phases (RunTick, RunTicks, MergeJournals).                   *)
THEOREM TicksAreSequential ==
  Spec => []WorldAtTick
<1>1. TickInv => WorldAtTick
  <2> SUFFICES ASSUME TickInv, Program, world # NoWorld
               PROVE  VerifyWorld(world, tick) /\ error # "tick"
    BY DEF WorldAtTick
  <2>1. world = WorldAt(tick) /\ tick \in Nat /\ error # "tick"
    BY DEF TickInv, WorldKept, ProgramTypes
  <2> QED
    BY <2>1, WorldVerified
<1> QED
  BY <1>1, TickInvariance, PTL

-----------------------------------------------------------------------------
(* Merges by the owner of a world.                                         *)

(* A world, or a snapshot of one: entities are numbered in the order of     *)
(* their creation and keep the velocity they were created with.             *)
Grown(states) ==
  /\ states \in Seq(State)
  /\ \A k \in DOMAIN states : states[k].entity = k /\ states[k].delta = DefaultVelocity

(* A journal as BuildTransformJournalInto leaves it, made from a snapshot   *)
(* that is not larger than size.                                            *)
BuiltFrom(journal, size) ==
  /\ Grown(journal.of) /\ Len(journal.of) <= size
  /\ journal.count \in 1..MaxWorldWorkers /\ journal.worker \in 0..(journal.count - 1)
  /\ journal = BuildTransformJournal(journal.of, journal.worker, journal.count)

(* Where the partition of a worker begins does not decrease with the worker.*)
LEMMA PartitionsGrow ==
  ASSUME NEW size \in Nat, NEW count \in Nat \ {0}, NEW a \in 0..count, NEW b \in 0..count,
         a <= b
  PROVE  PartitionStart(size, a, count) <= PartitionStart(size, b, count)
<1> DEFINE q == size \div count
           r == size % count
<1>1. q \in Nat /\ r \in 0 .. count - 1
  OBVIOUS
<1>2. /\ PartitionStart(size, a, count) = a * q + Least(a, r)
      /\ PartitionStart(size, b, count) = b * q + Least(b, r)
  BY DEF PartitionStart
<1> HIDE DEF q, r
<1>3. Least(a, r) \in Nat /\ Least(b, r) \in Nat /\ Least(a, r) <= Least(b, r)
  BY <1>1 DEF Least
<1>4. PICK rest \in Nat : b = a + rest
  OBVIOUS
<1>5. b * q = a * q + rest * q /\ a * q \in Nat /\ rest * q \in Nat
  BY <1>1, <1>4
<1> QED
  BY <1>2, <1>3, <1>5

(* The loop of BuildTransformJournalInto ends, at an overflow or at the end *)
(* of the partition.                                                        *)
LEMMA LoopEnds ==
  ASSUME NEW of, NEW begin \in Nat, NEW end \in Nat, begin <= end
  PROVE  BeforeOverflow(of, begin, end) \in begin..end
<1> DEFINE Bad(i) == Overflows(of[i].value, of[i].delta)
           Stop(s) == /\ \A i \in (begin + 1)..s : ~Bad(i)
                      /\ s = end \/ Bad(s + 1)
           T == {s \in begin..end : s = end \/ Bad(s + 1)}
<1>1. T \in SUBSET Nat /\ end \in T
  OBVIOUS
<1>2. PICK s \in T : \A m \in T : s <= m
  <2> HIDE DEF T
  <2> QED
    BY <1>1, LeastNumber
<1>3. ASSUME NEW i \in (begin + 1)..s PROVE ~Bad(i)
  <2>1. i - 1 \in begin..end /\ (i - 1) + 1 = i /\ ~(s <= i - 1)
    OBVIOUS
  <2>2. i - 1 \notin T
    BY <1>2, <2>1
  <2> QED
    BY <2>1, <2>2
<1>4. s \in begin..end /\ Stop(s)
  BY <1>3
<1>5. BeforeOverflow(of, begin, end) = CHOOSE x \in begin..end : Stop(x)
  BY Zenon DEF BeforeOverflow
<1> HIDE DEF Stop
<1> QED
  BY <1>4, <1>5

(* A journal updates the first entities of its worker's partition.          *)
LEMMA BuiltPrefix ==
  ASSUME NEW journal, NEW size \in Nat, BuiltFrom(journal, size)
  PROVE  LET start(i) == PartitionStart(Len(journal.of), i, journal.count)
         IN  /\ journal \in Journal
             /\ \E stop \in start(journal.worker)..start(journal.worker + 1) :
                  /\ journal.updates = UpdatesOf(journal.of, start(journal.worker), stop)
                  /\ Len(journal.updates) = stop - start(journal.worker)
<1> DEFINE of == journal.of
           w == journal.worker
           count == journal.count
           start(i) == PartitionStart(Len(of), i, count)
<1>1. /\ of \in Seq(State) /\ Len(of) \in Nat /\ count \in Nat \ {0} /\ w \in 0..(count - 1)
      /\ journal = BuildTransformJournal(of, w, count)
  BY EcsAssumption DEF BuiltFrom, Grown
<1> HIDE DEF of, w, count
<1>2. /\ PartitionEnd(Len(of), w, count) = start(w + 1) /\ start(w) <= start(w + 1)
      /\ start(w) \in 0..Len(of) /\ start(w + 1) \in 0..Len(of)
  <2>1. w \in 0..count /\ w + 1 \in 0..count
    BY <1>1
  <2> QED
    BY <1>1, <2>1, PartitionsTile, PartitionInside
<1> HIDE DEF start
<1>3. PICK begin \in Nat, end \in Nat : begin = start(w) /\ end = start(w + 1)
  BY <1>1, <1>2
<1>4. begin <= end /\ end <= Len(of)
  BY <1>1, <1>2, <1>3
<1>5. PICK stop \in begin..end : stop = BeforeOverflow(of, begin, end)
  BY <1>4, LoopEnds
<1>6. journal = [worker |-> w, of |-> of, count |-> count, updates |-> UpdatesOf(of, begin, stop)]
  BY <1>1, <1>2, <1>3, <1>5, Zenon DEF BuildTransformJournal, start
<1>7. UpdatesAll(UpdatesOf(of, begin, stop), of, begin, stop)
  <2>1. stop \in Nat /\ begin <= stop /\ stop <= Len(of)
    BY <1>1, <1>4
  <2> QED
    BY <1>1, <2>1, UpdatesOfPart
<1>8. /\ UpdatesOf(of, begin, stop) \in Seq(Update)
      /\ Len(UpdatesOf(of, begin, stop)) = stop - begin
  BY <1>7 DEF UpdatesAll
<1>9. journal \in Journal
  BY <1>1, <1>6, <1>8 DEF Journal
<1>10. journal.updates = UpdatesOf(of, begin, stop)
  BY <1>6
<1> QED
  BY <1>3, <1>5, <1>8, <1>9, <1>10 DEF start, of, w, count

(* The lengths of sequences add up.                                         *)
LEMMA OffsetsExist ==
  ASSUME NEW S, NEW n \in Nat \ {0}, NEW seqs \in [1..n -> Seq(S)]
  PROVE  \E at : Offsets(at, seqs, n)
<1>1. PICK f \in [1..n -> Seq(S)] : Joins(f, seqs, n)
  BY JoinsExists
<1> DEFINE at == [i \in 0..n |-> IF i = 0 THEN 0 ELSE Len(f[i])]
<1>2. at \in [0..n -> Nat] /\ at[0] = 0
  BY <1>1
<1>3. ASSUME NEW i \in 1..n PROVE at[i] = at[i - 1] + Len(seqs[i])
  <2>1. i \in 0..n /\ i # 0 /\ at[i] = Len(f[i]) /\ Len(seqs[i]) \in Nat
    OBVIOUS
  <2>2. CASE i = 1
    <3>1. f[i] = seqs[i] /\ at[i - 1] = 0
      BY <1>1, <2>2 DEF Joins
    <3> HIDE DEF at
    <3> QED
      BY <2>1, <3>1
  <2>3. CASE i # 1
    <3>1. i \in 2..n /\ i - 1 \in 1..n
      BY <2>3
    <3>2. f[i] = f[i - 1] \o seqs[i]
      BY <1>1, <3>1, Zenon DEF Joins
    <3>4. at[i - 1] = Len(f[i - 1])
      <4>1. i - 1 \in 0..n /\ i - 1 # 0
        BY <3>1
      <4> QED
        BY <4>1, Zenon
    <3>3. Len(f[i - 1] \o seqs[i]) = Len(f[i - 1]) + Len(seqs[i])
      BY <3>1, ConcatProperties
    <3> QED
      BY <2>1, <3>2, <3>3, <3>4
  <2> QED
    BY <2>2, <2>3
<1> QED
  BY <1>2, <1>3, Zenon DEF Offsets

(* No two of 1..k go to the same place.                                     *)
OneToOne(f, k) == \A x, y \in 1..k : f[x] = f[y] => x = y

(* An injective map of 1..k into a set that is not larger meets all of it.  *)
LEMMA PigeonHoles ==
  ASSUME NEW k \in Nat, NEW m \in Nat, m <= k, NEW f \in [1..k -> 1..m], OneToOne(f, k)
  PROVE  k = m /\ \A y \in 1..m : \E x \in 1..k : f[x] = y
<1>1. /\ IsFiniteSet(1..k) /\ Cardinality(1..k) = k
      /\ IsFiniteSet(1..m) /\ Cardinality(1..m) = m
  BY FS_Interval
<1>2. f \in Injection(1..k, 1..m)
  BY DEF Injection, IsInjective, OneToOne
<1>3. /\ Cardinality(1..k) <= Cardinality(1..m)
      /\ Cardinality(1..k) = Cardinality(1..m) <=> f \in Surjection(1..k, 1..m)
  BY <1>1, <1>2, FS_Injection
<1>4. k = m
  BY <1>1, <1>3
<1>5. f \in Surjection(1..k, 1..m)
  BY <1>1, <1>3, <1>4
<1> QED
  BY <1>4, <1>5 DEF Surjection

(* The partitions of count workers lie one after the other within size.     *)
Lays(start, count, size) ==
  /\ start \in [0..count -> 0..size]
  /\ \A a, b \in 0..count : a <= b => start[a] <= start[b]

(* Journals of len[i] updates, of different workers, each within its        *)
(* worker's partition.                                                      *)
Fits(worker, len, start, n, count) ==
  /\ worker \in [1..n -> 0..(count - 1)] /\ len \in [1..n -> Nat]
  /\ \A i, j \in 1..n : worker[i] = worker[j] => i = j
  /\ \A i \in 1..n : len[i] <= start[worker[i] + 1] - start[worker[i]]

(* Laid one after the other, journal i behind at[i], they reach total.      *)
Reach(at, len, n, total) ==
  /\ \A i \in 1..n : at[i] \in Nat
  /\ \A k \in 1..total : \E i \in 1..n : \E j \in 1..len[i] : k = at[i] + j

(* Every place up to size is in one of them.                                *)
Filled(worker, len, start, n, size) ==
  \A y \in 1..size : \E i \in 1..n : start[worker[i]] < y /\ y <= start[worker[i]] + len[i]

(* PartitionStart lays them so.                                             *)
LEMMA PartitionsLay ==
  ASSUME NEW size \in Nat, NEW count \in Nat \ {0}
  PROVE  Lays([w \in 0..count |-> PartitionStart(size, w, count)], count, size)
<1>1. \A a, b \in 0..count : a <= b => PartitionStart(size, a, count) <= PartitionStart(size, b, count)
  BY PartitionsGrow
<1>2. \A a \in 0..count : PartitionStart(size, a, count) \in 0..size
  BY PartitionInside
<1> QED
  BY <1>1, <1>2 DEF Lays

(* The bounds of one journal's partition.                                   *)
LEMMA PartBounds ==
  ASSUME NEW n, NEW count, NEW size, NEW start, NEW worker, NEW len,
         Fits(worker, len, start, n, count), Lays(start, count, size),
         n \in Nat, count \in Nat, size \in Nat, NEW i \in 1..n
  PROVE  /\ worker[i] \in 0..count /\ worker[i] + 1 \in 0..count
         /\ start[worker[i]] \in 0..size /\ start[worker[i] + 1] \in 0..size
         /\ len[i] \in Nat /\ len[i] <= start[worker[i] + 1] - start[worker[i]]
<1>1. worker[i] \in 0..(count - 1) /\ len[i] \in Nat
      /\ len[i] <= start[worker[i] + 1] - start[worker[i]]
  BY DEF Fits
<1>2. worker[i] \in 0..count /\ worker[i] + 1 \in 0..count
  BY <1>1
<1>3. start[worker[i]] \in 0..size /\ start[worker[i] + 1] \in 0..size
  BY <1>2, Zenon DEF Lays
<1> QED
  BY <1>1, <1>2, <1>3, Zenon

(* No place belongs to two partitions.                                      *)
LEMMA OnePart ==
  ASSUME NEW n, NEW count, NEW size, NEW start, NEW worker, NEW len,
         Fits(worker, len, start, n, count), Lays(start, count, size),
         n \in Nat, count \in Nat, size \in Nat,
         NEW a \in 1..n, NEW b \in 1..n, NEW y \in Nat,
         start[worker[a]] < y, y <= start[worker[a] + 1],
         start[worker[b]] < y, y <= start[worker[b] + 1]
  PROVE  a = b
<1>1. /\ worker[a] \in 0..count /\ worker[a] + 1 \in 0..count
      /\ start[worker[a]] \in 0..size /\ start[worker[a] + 1] \in 0..size
      /\ worker[b] \in 0..count /\ worker[b] + 1 \in 0..count
      /\ start[worker[b]] \in 0..size /\ start[worker[b] + 1] \in 0..size
  BY PartBounds, Zenon
<1>2. /\ worker[a] + 1 <= worker[b] => start[worker[a] + 1] <= start[worker[b]]
      /\ worker[b] + 1 <= worker[a] => start[worker[b] + 1] <= start[worker[a]]
  BY <1>1, Zenon DEF Lays
<1>3. ~(worker[a] + 1 <= worker[b]) /\ ~(worker[b] + 1 <= worker[a])
  BY <1>1, <1>2
<1>4. worker[a] = worker[b]
  BY <1>1, <1>3
<1> QED
  BY <1>4, Zenon DEF Fits

(* Journals of different workers that together are as long as the snapshot  *)
(* leave no entity of it out.                                               *)
LEMMA NoneLeftOut ==
  ASSUME NEW n, NEW count, NEW size, NEW start, NEW worker, NEW len,
         Fits(worker, len, start, n, count), Lays(start, count, size),
         n \in Nat, count \in Nat, size \in Nat,
         NEW at, NEW total, Reach(at, len, n, total), total \in Nat, size <= total
  PROVE  total = size /\ Filled(worker, len, start, n, size)
<1> DEFINE I == [k \in 1..total |-> CHOOSE i \in 1..n : \E j \in 1..len[i] : k = at[i] + j]
           f == [k \in 1..total |-> start[worker[I[k]]] + (k - at[I[k]])]
<1>1. ASSUME NEW k \in 1..total
      PROVE  I[k] \in 1..n /\ \E j \in 1..len[I[k]] : k = at[I[k]] + j
  BY Zenon DEF Reach
<1> HIDE DEF I
<1>2. ASSUME NEW k \in 1..total
      PROVE  /\ f[k] \in 1..size /\ start[worker[I[k]]] \in 0..size
             /\ start[worker[I[k]]] < f[k] /\ f[k] <= start[worker[I[k]]] + len[I[k]]
             /\ f[k] <= start[worker[I[k]] + 1]
             /\ f[k] = start[worker[I[k]]] + (k - at[I[k]])
  <2>1. PICK i \in 1..n : i = I[k] /\ \E j \in 1..len[i] : k = at[i] + j
    BY <1>1
  <2>2. PICK j \in 1..len[i] : k = at[i] + j
    BY <2>1
  <2>3. /\ start[worker[i]] \in 0..size /\ start[worker[i] + 1] \in 0..size
        /\ len[i] \in Nat /\ len[i] <= start[worker[i] + 1] - start[worker[i]]
    BY PartBounds, Zenon
  <2>4. at[i] \in Nat
    BY Zenon DEF Reach
  <2>5. f[k] = start[worker[i]] + (k - at[i])
    BY <2>1
  <2> HIDE DEF f
  <2>6. f[k] = start[worker[i]] + j
    BY <2>2, <2>3, <2>4, <2>5
  <2>7. /\ f[k] \in 1..size /\ start[worker[i]] < f[k] /\ f[k] <= start[worker[i]] + len[i]
        /\ f[k] <= start[worker[i] + 1]
    BY <2>3, <2>6
  <2> QED
    BY <2>1, <2>3, <2>5, <2>7, Zenon
<1>3. f \in [1..total -> 1..size]
  <2>1. \A k \in 1..total : f[k] \in 1..size
    BY <1>2, Zenon
  <2> QED
    BY <2>1
<1> HIDE DEF f
<1>4. ASSUME NEW x \in 1..total, NEW y \in 1..total, f[x] = f[y]
      PROVE  x = y
  <2>1. PICK a \in 1..n, b \in 1..n : a = I[x] /\ b = I[y]
    BY <1>1
  <2>2. /\ f[x] \in 1..size /\ start[worker[a]] \in 0..size
        /\ start[worker[a]] < f[x] /\ f[x] <= start[worker[a] + 1]
        /\ start[worker[b]] < f[x] /\ f[x] <= start[worker[b] + 1]
        /\ f[x] = start[worker[a]] + (x - at[a]) /\ f[x] = start[worker[b]] + (y - at[b])
    BY <1>2, <1>4, <2>1, Zenon
  <2>3. f[x] \in Nat
    BY <2>2
  <2>4. a = b
    BY <2>2, <2>3, OnePart
  <2>5. at[a] \in Nat
    BY Zenon DEF Reach
  <2> QED
    BY <2>2, <2>4, <2>5
<1>5. total = size /\ \A y \in 1..size : \E x \in 1..total : f[x] = y
  <2>1. OneToOne(f, total)
    BY <1>4, Zenon DEF OneToOne
  <2> QED
    BY <1>3, <2>1, PigeonHoles
<1>6. ASSUME NEW y \in 1..size
      PROVE  \E i \in 1..n : start[worker[i]] < y /\ y <= start[worker[i]] + len[i]
  <2>1. PICK x \in 1..total : f[x] = y
    BY <1>5, Zenon
  <2>2. I[x] \in 1..n
    BY <1>1, Zenon
  <2>3. start[worker[I[x]]] < y /\ y <= start[worker[I[x]]] + len[I[x]]
    BY <1>2, <2>1, Zenon
  <2> QED
    BY <2>2, <2>3, Zenon
<1> QED
  BY <1>5, <1>6, Zenon DEF Filled

(* Then every one of them is complete, and when the workers are the first   *)
(* of them, no entity belongs to another.                                   *)
LEMMA PartsComplete ==
  ASSUME NEW n \in Nat, NEW count \in Nat, n <= count,
         NEW size \in Nat, NEW start, Lays(start, count, size),
         NEW worker, NEW len, Fits(worker, len, start, n, count),
         \A i \in 1..n : worker[i] < n,
         NEW at, NEW total \in Nat, Reach(at, len, n, total), size <= total
  PROVE  /\ \A i \in 1..n : len[i] = start[worker[i] + 1] - start[worker[i]]
         /\ start[n] = size
<1>1. \A y \in 1..size : \E i \in 1..n :
         start[worker[i]] < y /\ y <= start[worker[i]] + len[i]
  <2>1. Filled(worker, len, start, n, size)
    BY NoneLeftOut, Zenon
  <2> QED
    BY <2>1, Zenon DEF Filled
<1>2. \A i \in 1..n :
         /\ worker[i] \in 0..count /\ worker[i] + 1 \in 0..count
         /\ start[worker[i]] \in 0..size /\ start[worker[i] + 1] \in 0..size
         /\ len[i] \in Nat /\ len[i] <= start[worker[i] + 1] - start[worker[i]]
  BY PartBounds, Zenon
<1>3. ASSUME NEW i \in 1..n
      PROVE  len[i] = start[worker[i] + 1] - start[worker[i]]
  <2>0. /\ start[worker[i]] \in Int /\ start[worker[i] + 1] \in Int /\ len[i] \in Nat
        /\ len[i] <= start[worker[i] + 1] - start[worker[i]]
    BY <1>2
  <2>1. SUFFICES ASSUME len[i] < start[worker[i] + 1] - start[worker[i]] PROVE FALSE
    BY <2>0
  <2>2. PICK y \in 1..size : y = start[worker[i] + 1]
    BY <1>2, <2>1
  <2>3. PICK k \in 1..n : start[worker[k]] < y /\ y <= start[worker[k]] + len[k]
    BY <1>1
  <2>4. y \in Nat /\ start[worker[i]] < y /\ y <= start[worker[i] + 1]
    BY <1>2, <2>1, <2>2
  <2>5. y <= start[worker[k] + 1]
    BY <1>2, <2>3
  <2>6. k = i
    BY <2>3, <2>4, <2>5, OnePart
  <2> QED
    BY <1>2, <2>1, <2>2, <2>3, <2>6
<1>4. start[n] = size
  <2>1. n \in 0..count
    OBVIOUS
  <2>2. start[n] \in 0..size
    BY <2>1, Zenon DEF Lays
  <2>3. SUFFICES ASSUME start[n] < size PROVE FALSE
    BY <2>2
  <2>4. size \in 1..size
    BY <2>2, <2>3
  <2>5. PICK k \in 1..n : size <= start[worker[k]] + len[k]
    BY <1>1, <2>4
  <2>6. worker[k] + 1 <= n /\ worker[k] + 1 \in 0..count
    BY <1>2
  <2>7. start[worker[k] + 1] <= start[n]
    BY <2>1, <2>6, Zenon DEF Lays
  <2>8. size <= start[worker[k] + 1]
    BY <1>2, <2>5
  <2> QED
    BY <1>2, <2>2, <2>3, <2>7, <2>8
<1> QED
  BY <1>3, <1>4

(* Journals of different workers, all less than their number.               *)
OneOfEach(js, n) ==
  /\ \A i, j \in 1..n : js[i].worker = js[j].worker => i = j
  /\ \A i \in 1..n : js[i].worker < n

(* Each journal is at the index of its worker.                              *)
AtIndex(sorted, js, n) ==
  /\ sorted \in [1..n -> Journal]
  /\ \A i \in 1..n : sorted[i].worker = i - 1 /\ \E k \in 1..n : sorted[i] = js[k]

(* Sorting journals of different workers, all less than their number, puts  *)
(* the journal of every worker in its place.                                *)
LEMMA SortedInPlace ==
  ASSUME NEW n \in Nat \ {0}, NEW js \in [1..n -> Journal], OneOfEach(js, n),
         NEW sorted \in SortedJournals(js)
  PROVE  AtIndex(sorted, js, n)
<1>0. /\ \A i, j \in 1..n : js[i].worker = js[j].worker => i = j
      /\ \A i \in 1..n : js[i].worker < n
  BY Zenon DEF OneOfEach
<1>1. DOMAIN js = 1..n /\ Len(js) = n
  OBVIOUS
<1>2. PICK p \in [1..n -> 1..n] :
        /\ \A i, j \in 1..n : p[i] = p[j] => i = j
        /\ sorted = [i \in 1..n |-> js[p[i]]]
        /\ \A i \in 1..(n - 1) : sorted[i].worker <= sorted[i + 1].worker
  <2>1. PICK p \in [DOMAIN js -> DOMAIN js] :
          /\ \A i, j \in DOMAIN js : p[i] = p[j] => i = j
          /\ sorted = [i \in DOMAIN js |-> js[p[i]]]
          /\ \A i \in 1..(Len(js) - 1) : sorted[i].worker <= sorted[i + 1].worker
    BY Zenon DEF SortedJournals
  <2>2. p \in [1..n -> 1..n] /\ \A i, j \in 1..n : p[i] = p[j] => i = j
    BY <1>1, <2>1
  <2>3. sorted = [i \in 1..n |-> js[p[i]]]
    BY <1>1, <2>1
  <2>4. \A i \in 1..(n - 1) : sorted[i].worker <= sorted[i + 1].worker
    BY <1>1, <2>1
  <2> QED
    BY <2>2, <2>3, <2>4, Zenon
<1>3. ASSUME NEW i \in 1..n
      PROVE  sorted[i] = js[p[i]] /\ sorted[i] \in Journal /\ sorted[i].worker \in Nat
             /\ sorted[i].worker < n
  <2>1. sorted[i] = js[p[i]] /\ p[i] \in 1..n
    BY <1>2
  <2>2. js[p[i]] \in Journal /\ js[p[i]].worker < n
    BY <1>0, <2>1
  <2> QED
    BY <2>1, <2>2 DEF Journal
<1> DEFINE q == [i \in 1..n |-> sorted[i].worker + 1]
<1>4. q \in [1..n -> 1..n]
  <2>1. \A i \in 1..n : sorted[i].worker + 1 \in 1..n
    <3>1. \A x \in Nat : x < n => x + 1 \in 1..n
      OBVIOUS
    <3> QED
      BY <1>3, <3>1, Zenon
  <2> QED
    BY <2>1
<1>5. ASSUME NEW i \in 1..(n - 1) PROVE q[i] < q[i + 1]
  <2>1. i \in 1..n /\ i + 1 \in 1..n /\ i # i + 1
    OBVIOUS
  <2>2. p[i] # p[i + 1] /\ p[i] \in 1..n /\ p[i + 1] \in 1..n
    BY <1>2, <2>1
  <2>3. js[p[i]].worker # js[p[i + 1]].worker
    BY <1>0, <2>2, Zenon
  <2>4. sorted[i].worker # sorted[i + 1].worker
    BY <1>3, <2>1, <2>3
  <2>5. sorted[i].worker <= sorted[i + 1].worker
    BY <1>2
  <2>6. sorted[i].worker \in Nat /\ sorted[i + 1].worker \in Nat
    BY <1>3, <2>1
  <2>7. q[i] = sorted[i].worker + 1 /\ q[i + 1] = sorted[i + 1].worker + 1
    BY <2>1
  <2> HIDE DEF q
  <2>8. \A x, y \in Nat : x # y /\ x <= y => x + 1 < y + 1
    OBVIOUS
  <2>9. sorted[i].worker + 1 < sorted[i + 1].worker + 1
    BY <2>4, <2>5, <2>6, <2>8, Zenon
  <2> QED
    BY <2>7, <2>9, Zenon
<1> HIDE DEF q
<1>6. \A i \in 1..n : q[i] = i
  BY <1>4, <1>5, IncreasingIsIdentity
<1>7. ASSUME NEW i \in 1..n PROVE sorted[i].worker = i - 1
  <2>1. sorted[i].worker + 1 = i
    BY <1>6, Zenon DEF q
  <2>2. \A x \in Nat : x + 1 = i => x = i - 1
    OBVIOUS
  <2> QED
    BY <1>3, <2>1, <2>2, Zenon
<1>8. sorted \in [1..n -> Journal]
  BY <1>2, <1>3
<1> QED
  BY <1>2, <1>3, <1>7, <1>8 DEF AtIndex

(* Journals of one snapshot for one number of workers, no two of them of    *)
(* the same worker.                                                         *)
OfOneSnapshot(js) ==
  \A i, j \in DOMAIN js :
    /\ js[i].of = js[j].of
    /\ js[i].count = js[j].count
    /\ js[i].worker = js[j].worker => i = j

(* Journals in a vector, as BuildTransformJournalInto leaves them.          *)
AllBuilt(js, size) ==
  js \in Seq(Journal) /\ \A i \in DOMAIN js : BuiltFrom(js[i], size)

(* What the journals of one snapshot have in common, and what the checks of *)
(* MergeJournals establish before the first update.                         *)
Accepted(js, n, of, count, size) ==
  /\ js \in [1..n -> Journal] /\ Grown(of) /\ Len(of) <= size
  /\ Len(AllUpdates(js)) = size
  /\ \A i \in 1..n :
       /\ js[i].of = of /\ js[i].count = count /\ BuiltFrom(js[i], size)
       /\ js[i].worker < n /\ js[i].worker \in 0..(count - 1)
  /\ \A i, j \in 1..n : js[i].worker = js[j].worker => i = j

(* They are accepted only then.                                             *)
LEMMA AcceptedJournals ==
  ASSUME NEW ecs, Grown(ecs), NEW js, AllBuilt(js, Len(ecs)), OfOneSnapshot(js),
         ~MergeRejects(ecs, js)
  PROVE  /\ Len(js) \in Nat \ {0} /\ js[1].count \in Nat \ {0}
         /\ Accepted(js, Len(js), js[1].of, js[1].count, Len(ecs))
<1>1. js \in Seq(Journal) /\ js # <<>>
  BY Zenon DEF AllBuilt, MergeRejects
<1>2. PICK n \in Nat \ {0} : n = Len(js) /\ DOMAIN js = 1..n /\ js \in [1..n -> Journal]
  BY <1>1
<1>3. /\ \A i \in 1..n : js[i].worker < n
      /\ Len(AllUpdates(js)) = Len(ecs)
  BY <1>2, Zenon DEF MergeRejects, CoversWorld
<1>4. 1 \in 1..n
  OBVIOUS
<1>5. /\ \A i \in 1..n : BuiltFrom(js[i], Len(ecs)) /\ js[i].of = js[1].of /\ js[i].count = js[1].count
      /\ \A i, j \in 1..n : js[i].worker = js[j].worker => i = j
  BY <1>2, <1>4, Zenon DEF AllBuilt, OfOneSnapshot
<1>6. \A i \in 1..n : js[i].worker \in 0..(js[1].count - 1)
  BY <1>5, Zenon DEF BuiltFrom
<1>7. Grown(js[1].of) /\ Len(js[1].of) <= Len(ecs) /\ js[1].count \in 1..MaxWorldWorkers
  BY <1>4, <1>5, Zenon DEF BuiltFrom
<1>8. js[1].count \in Nat \ {0}
  BY <1>7, EcsAssumption
<1> QED
  BY <1>2, <1>3, <1>5, <1>6, <1>7, <1>8, Zenon DEF Accepted

(* Accepted journals are those of all the workers that have something to do,*)
(* each of them complete, and the snapshot is as large as the world.        *)
LEMMA AcceptedComplete ==
  ASSUME NEW n \in Nat \ {0}, NEW count \in Nat \ {0}, NEW size \in Nat, NEW js, NEW of,
         Accepted(js, n, of, count, size), n <= count
  PROVE  /\ Len(of) = size /\ PartitionStart(Len(of), n, count) = Len(of)
         /\ \A i \in 1..n : js[i].updates =
              UpdatesOf(of, PartitionStart(Len(of), js[i].worker, count),
                            PartitionStart(Len(of), js[i].worker + 1, count))
<1> DEFINE start == [w \in 0..count |-> PartitionStart(Len(of), w, count)]
           worker == [i \in 1..n |-> js[i].worker]
           len == [i \in 1..n |-> Len(js[i].updates)]
           seqs == [i \in 1..n |-> js[i].updates]
<1>1. Len(of) \in Nat /\ Len(of) <= size
  BY DEF Accepted, Grown
<1>2. Lays(start, count, Len(of))
  BY <1>1, PartitionsLay
<1>3. ASSUME NEW i \in 1..n
      PROVE  /\ js[i] \in Journal /\ js[i].worker \in 0..(count - 1) /\ js[i].worker < n
             /\ \E stop \in PartitionStart(Len(of), js[i].worker, count)
                            ..PartitionStart(Len(of), js[i].worker + 1, count) :
                  /\ js[i].updates = UpdatesOf(of, PartitionStart(Len(of), js[i].worker, count), stop)
                  /\ Len(js[i].updates) = stop - PartitionStart(Len(of), js[i].worker, count)
  <2>1. /\ BuiltFrom(js[i], size) /\ js[i].of = of /\ js[i].count = count
        /\ js[i].worker \in 0..(count - 1) /\ js[i].worker < n
    BY Zenon DEF Accepted
  <2> QED
    BY <2>1, BuiltPrefix, Zenon
<1>4. ASSUME NEW i \in 1..n
      PROVE  /\ worker[i] = js[i].worker /\ len[i] = Len(js[i].updates) /\ seqs[i] = js[i].updates
             /\ seqs[i] \in Seq(Update) /\ len[i] \in Nat /\ worker[i] \in 0..(count - 1)
             /\ start[worker[i]] = PartitionStart(Len(of), js[i].worker, count)
             /\ start[worker[i] + 1] = PartitionStart(Len(of), js[i].worker + 1, count)
             /\ start[worker[i]] \in Nat /\ start[worker[i] + 1] \in Nat
  <2>1. worker[i] = js[i].worker /\ len[i] = Len(js[i].updates) /\ seqs[i] = js[i].updates
    BY Zenon
  <2>2. js[i] \in Journal /\ js[i].worker \in 0..(count - 1)
    BY <1>3, Zenon
  <2>3. js[i].updates \in Seq(Update)
    BY <2>2 DEF Journal
  <2>4. Len(js[i].updates) \in Nat
    BY <2>3
  <2>5. js[i].worker \in 0..count /\ js[i].worker + 1 \in 0..count
    BY <2>2
  <2>6. /\ start[js[i].worker] = PartitionStart(Len(of), js[i].worker, count)
        /\ start[js[i].worker + 1] = PartitionStart(Len(of), js[i].worker + 1, count)
    BY <2>5, Zenon
  <2> HIDE DEF start, worker, len, seqs
  <2>7. start[js[i].worker] \in 0..Len(of) /\ start[js[i].worker + 1] \in 0..Len(of)
    BY <1>2, <2>5, Zenon DEF Lays
  <2>8. \A x \in 0..Len(of) : x \in Nat
    BY <1>1
  <2> QED
    BY <2>1, <2>2, <2>3, <2>4, <2>6, <2>7, <2>8, Zenon
<1>5. worker \in [1..n -> 0..(count - 1)] /\ len \in [1..n -> Nat] /\ seqs \in [1..n -> Seq(Update)]
  BY <1>4, Zenon
<1>6. start[n] = PartitionStart(Len(of), n, count)
  <2>1. n \in 0..count
    OBVIOUS
  <2> QED
    BY <2>1, Zenon
<1>7. AllUpdates(js) = FlattenSeq(seqs)
  <2>1. DOMAIN js = 1..n
    BY DEF Accepted
  <2> QED
    BY <2>1, Zenon DEF AllUpdates
<1> HIDE DEF start, worker, len, seqs
<1>8. PICK stops \in [1..n -> Nat] : \A i \in 1..n :
        /\ js[i].updates = UpdatesOf(of, start[worker[i]], stops[i])
        /\ stops[i] \in start[worker[i]]..start[worker[i] + 1]
        /\ len[i] = stops[i] - start[worker[i]]
  <2> DEFINE Stop(i, x) == /\ js[i].updates = UpdatesOf(of, start[worker[i]], x)
                           /\ x \in start[worker[i]]..start[worker[i] + 1]
                           /\ len[i] = x - start[worker[i]]
             stops == [i \in 1..n |-> CHOOSE x \in Nat : Stop(i, x)]
  <2>1. ASSUME NEW i \in 1..n PROVE \E x \in Nat : Stop(i, x)
    <3>1. \E x \in start[worker[i]]..start[worker[i] + 1] : Stop(i, x)
      BY <1>3, <1>4, Zenon
    <3>2. \A x \in start[worker[i]]..start[worker[i] + 1] : x \in Nat
      BY <1>4
    <3> QED
      BY <3>1, <3>2, Zenon
  <2> HIDE DEF Stop
  <2>2. \A i \in 1..n : stops[i] \in Nat /\ Stop(i, stops[i])
    BY <2>1, Zenon
  <2>3. stops \in [1..n -> Nat]
    BY <2>2, Zenon
  <2> HIDE DEF stops
  <2> QED
    BY <2>2, <2>3, Zenon DEF Stop
<1>9. Fits(worker, len, start, n, count)
  <2>1. ASSUME NEW i \in 1..n PROVE len[i] <= start[worker[i] + 1] - start[worker[i]]
    <3>1. \A a, b \in Nat : \A x \in a..b : x - a <= b - a
      OBVIOUS
    <3> QED
      BY <1>4, <1>8, <3>1, Zenon
  <2>2. \A i, j \in 1..n : worker[i] = worker[j] => i = j
    BY <1>4, Zenon DEF Accepted
  <2> QED
    BY <1>5, <2>1, <2>2, Zenon DEF Fits
<1>10. PICK offset : Offsets(offset, seqs, n)
  BY <1>5, OffsetsExist
<1>11. /\ Len(FlattenSeq(seqs)) = offset[n] /\ Covered(seqs, offset, n)
  <2>1. \A i \in 1..n : Len(seqs[i]) \in Nat
    BY <1>4, Zenon
  <2>2. Covered(seqs, offset, n)
    BY <1>10, <2>1, Located, Zenon
  <2>3. Placed(FlattenSeq(seqs), seqs, offset, n, Update)
    BY <1>5, <1>10, FlattenPlaced
  <2> QED
    BY <2>2, <2>3, Zenon DEF Placed
<1>12. offset[n] = size
  BY <1>7, <1>11, Zenon DEF Accepted
<1> DEFINE at == [i \in 1..n |-> offset[i - 1]]
<1>13. Reach(at, len, n, size)
  <2>1. ASSUME NEW i \in 1..n PROVE at[i] = offset[i - 1] /\ at[i] \in Nat
    <3>1. i - 1 \in 0..n
      OBVIOUS
    <3> QED
      BY <1>10, <3>1, Zenon DEF Offsets
  <2>2. ASSUME NEW k \in 1..size
        PROVE  \E i \in 1..n : \E j \in 1..len[i] : k = at[i] + j
    <3>1. PICK i \in 1..n : \E j \in 1..Len(seqs[i]) : k = offset[i - 1] + j
      BY <1>11, <1>12, Zenon DEF Covered
    <3>2. len[i] = Len(seqs[i]) /\ at[i] = offset[i - 1]
      BY <1>4, <2>1, Zenon
    <3> QED
      BY <3>1, <3>2, Zenon
  <2> QED
    BY <2>1, <2>2, Zenon DEF Reach
<1> HIDE DEF at
<1>14. \A i \in 1..n : worker[i] < n
  BY <1>3, <1>4, Zenon
<1>15. /\ \A i \in 1..n : len[i] = start[worker[i] + 1] - start[worker[i]]
       /\ start[n] = Len(of)
  <2>1. n \in Nat /\ count \in Nat
    OBVIOUS
  <2> QED
    BY <1>1, <1>2, <1>9, <1>13, <1>14, <2>1, PartsComplete
<1>16. size = Len(of)
  <2>1. n \in Nat /\ count \in Nat
    OBVIOUS
  <2>2. size = Len(of) /\ Filled(worker, len, start, n, Len(of))
    BY <1>1, <1>2, <1>9, <1>13, <2>1, NoneLeftOut
  <2> QED
    BY <2>2, Zenon
<1>17. ASSUME NEW i \in 1..n
       PROVE  js[i].updates = UpdatesOf(of, start[worker[i]], start[worker[i] + 1])
  <2>1. stops[i] - start[worker[i]] = start[worker[i] + 1] - start[worker[i]]
    BY <1>8, <1>15, Zenon
  <2>2. \A a, b, x \in Nat : x - a = b - a => x = b
    OBVIOUS
  <2>3. stops[i] = start[worker[i] + 1]
    BY <1>4, <2>1, <2>2, Zenon
  <2> QED
    BY <1>8, <2>3, Zenon
<1> QED
  BY <1>4, <1>6, <1>15, <1>16, <1>17, Zenon

(* MergeJournals applies such journals entirely: the world becomes what one *)
(* sequential pass makes of the snapshot (EcsWorld::MergeJournals).         *)
LEMMA MergesWhole ==
  ASSUME NEW ecs, Grown(ecs), NEW js, AllBuilt(js, Len(ecs)), OfOneSnapshot(js),
         ~MergeRejects(ecs, js), NEW outcome \in MergeJournals(ecs, js)
  PROVE  outcome = [world |-> Sequential(js[1].of), ok |-> TRUE]
<1>0. PICK n \in Nat \ {0}, count \in Nat \ {0} :
        n = Len(js) /\ Accepted(js, n, js[1].of, count, Len(ecs))
  BY AcceptedJournals, Zenon
<1>1. PICK of : of = js[1].of /\ Accepted(js, n, of, count, Len(ecs))
  BY <1>0, Zenon
<1>2. PICK sorted \in SortedJournals(js) : outcome = Merged(ecs, sorted)
  BY Zenon DEF MergeJournals
<1>3. /\ sorted \in [1..n -> Journal]
      /\ \A i \in 1..n : sorted[i].worker = i - 1 /\ \E k \in 1..n : sorted[i] = js[k]
  <2>1. js \in [1..n -> Journal] /\ OneOfEach(js, n)
    BY <1>1, Zenon DEF Accepted, OneOfEach
  <2>2. AtIndex(sorted, js, n)
    BY <2>1, SortedInPlace, Zenon
  <2> QED
    BY <2>2, Zenon DEF AtIndex
<1>4. n <= count
  <2>1. n \in 1..n
    OBVIOUS
  <2>2. PICK k \in 1..n : sorted[n] = js[k]
    BY <1>3, <2>1, Zenon
  <2>3. js[k].worker \in 0..(count - 1) /\ js[k].worker = n - 1
    BY <1>1, <1>3, <2>1, <2>2, Zenon DEF Accepted
  <2> QED
    BY <2>3
<1>5. ecs \in Seq(State) /\ of \in Seq(State) /\ Len(ecs) \in Nat
  BY <1>1 DEF Accepted, Grown
<1>6. /\ Len(of) = Len(ecs) /\ PartitionStart(Len(of), n, count) = Len(of)
      /\ \A i \in 1..n : js[i].updates =
           UpdatesOf(of, PartitionStart(Len(of), js[i].worker, count),
                         PartitionStart(Len(of), js[i].worker + 1, count))
  BY <1>1, <1>4, <1>5, AcceptedComplete
<1>7. Complete(sorted, n, of, count)
  <2>1. ASSUME NEW i \in 1..n
        PROVE  sorted[i].updates = UpdatesOf(of, PartitionStart(Len(of), i - 1, count),
                                                 PartitionStart(Len(of), i, count))
    <3>1. PICK k \in 1..n : sorted[i] = js[k]
      BY <1>3, Zenon
    <3>2. js[k].worker = i - 1
      BY <1>3, <3>1, Zenon
    <3>3. (i - 1) + 1 = i
      OBVIOUS
    <3> QED
      BY <1>6, <3>1, <3>2, <3>3, Zenon
  <2> QED
    BY <1>3, <2>1, Zenon DEF Complete
<1>8. \A k \in 1..Len(of) : /\ ecs[k].entity = of[k].entity /\ ecs[k].delta = of[k].delta
                            /\ ecs[k] \in State /\ of[k] \in State
  <2>1. DOMAIN ecs = 1..Len(of) /\ DOMAIN of = 1..Len(of)
    BY <1>5, <1>6
  <2>2. \A k \in 1..Len(of) : ecs[k] \in State /\ of[k] \in State
    BY <1>5, <2>1
  <2>3. \A k \in 1..Len(of) : ecs[k].entity = k /\ ecs[k].delta = DefaultVelocity
    BY <2>1, Zenon DEF Grown
  <2>4. Grown(of)
    BY <1>1, Zenon DEF Accepted
  <2>5. \A k \in 1..Len(of) : of[k].entity = k /\ of[k].delta = DefaultVelocity
    BY <2>1, <2>4, Zenon DEF Grown
  <2> QED
    BY <2>2, <2>3, <2>5, Zenon
<1>9. Merged(ecs, sorted) =
        [world |-> [i \in DOMAIN ecs |-> [ecs[i] EXCEPT !.value = of[i].value + of[i].delta]],
         ok |-> TRUE]
  <2>1. \A k \in 1..Len(of) : ecs[k].entity = of[k].entity
    BY <1>8, Zenon
  <2>2. count \in Nat
    OBVIOUS
  <2> QED
    BY <1>4, <1>5, <1>6, <1>7, <2>1, <2>2, MergedInOrder
<1>10. [i \in DOMAIN ecs |-> [ecs[i] EXCEPT !.value = of[i].value + of[i].delta]] = Sequential(of)
  <2>1. DOMAIN ecs = 1..Len(of) /\ DOMAIN of = 1..Len(of)
    BY <1>5, <1>6
  <2>2. ASSUME NEW i \in 1..Len(of)
        PROVE  [ecs[i] EXCEPT !.value = of[i].value + of[i].delta]
               = [of[i] EXCEPT !.value = of[i].value + of[i].delta]
    <3>1. PICK v : v = of[i].value + of[i].delta
      OBVIOUS
    <3>2. [ecs[i] EXCEPT !.value = v] = [of[i] EXCEPT !.value = v]
      BY <1>8 DEF State
    <3> QED
      BY <3>1, <3>2
  <2> QED
    BY <2>1, <2>2, Zenon DEF Sequential
<1> QED
  BY <1>1, <1>2, <1>9, <1>10, Zenon

(* The owner's world, its snapshot and its journals: no task of a program   *)
(* runs beside them.                                                        *)
OwnerInv ==
  pc = "owner" =>
    /\ workers = 0 /\ \A t \in Threads : thread[t] = Nobody
    /\ Grown(world) /\ Grown(snapshot) /\ Len(snapshot) <= Len(world)
    /\ AllBuilt(journals, Len(world))

(* A world that grows stays one.                                            *)
LEMMA WorldGrows ==
  ASSUME NEW ecs, Grown(ecs), NEW count \in Nat
  PROVE  /\ Grown(ecs \o NewEntities(Len(ecs), count))
         /\ Len(ecs \o NewEntities(Len(ecs), count)) = Len(ecs) + count
<1> DEFINE new == NewEntities(Len(ecs), count)
           both == ecs \o new
<1>1. ecs \in Seq(State) /\ Len(ecs) \in Nat /\ DOMAIN ecs = 1..Len(ecs)
  BY DEF Grown
<1>2. \A k \in 1..Len(ecs) : ecs[k].entity = k /\ ecs[k].delta = DefaultVelocity
  BY <1>1, Zenon DEF Grown
<1>3. ASSUME NEW i \in 1..count
      PROVE  /\ new[i] = [entity |-> Len(ecs) + i, value |-> Len(ecs) + i - 1,
                          delta |-> DefaultVelocity]
             /\ new[i] \in State
             /\ new[i].entity = Len(ecs) + i /\ new[i].delta = DefaultVelocity
  <2>1. new[i] = [entity |-> Len(ecs) + i, value |-> Len(ecs) + i - 1, delta |-> DefaultVelocity]
    BY Zenon DEF NewEntities
  <2>2. Len(ecs) + i \in Nat /\ Len(ecs) + i - 1 \in Int /\ DefaultVelocity \in Int
    BY <1>1 DEF DefaultVelocity
  <2>4. PICK a \in Nat, b \in Int, c \in Int :
          a = Len(ecs) + i /\ b = Len(ecs) + i - 1 /\ c = DefaultVelocity
    BY <2>2, Zenon
  <2>5. new[i] = [entity |-> a, value |-> b, delta |-> c]
    BY <2>1, <2>4, Zenon
  <2>6. new[i] \in State /\ new[i].entity = a /\ new[i].delta = c
    BY <2>5 DEF State
  <2> QED
    BY <2>1, <2>4, <2>6, Zenon
<1>4. new \in Seq(State) /\ Len(new) = count
  <2>1. new = [i \in 1..count |-> new[i]]
    BY Zenon DEF NewEntities
  <2> HIDE DEF new
  <2>2. new \in [1..count -> State]
    BY <1>3, <2>1, Zenon
  <2> QED
    BY <2>2
<1> HIDE DEF new
<1>5. /\ both \in Seq(State) /\ Len(both) = Len(ecs) + count /\ DOMAIN both = 1..(Len(ecs) + count)
      /\ \A k \in 1..(Len(ecs) + count) :
            both[k] = IF k <= Len(ecs) THEN ecs[k] ELSE new[k - Len(ecs)]
  <2>1. /\ both \in Seq(State) /\ Len(both) = Len(ecs) + Len(new)
        /\ \A k \in 1 .. Len(ecs) + Len(new) :
             both[k] = IF k <= Len(ecs) THEN ecs[k] ELSE new[k - Len(ecs)]
    BY <1>1, <1>4, ConcatProperties
  <2> HIDE DEF both
  <2> QED
    BY <1>4, <2>1
<1> HIDE DEF both
<1>6. ASSUME NEW k \in 1..(Len(ecs) + count)
      PROVE  both[k].entity = k /\ both[k].delta = DefaultVelocity
  <2>1. CASE k <= Len(ecs)
    <3>1. k \in 1..Len(ecs) /\ both[k] = ecs[k]
      BY <1>1, <1>5, <2>1
    <3> QED
      BY <1>2, <3>1, Zenon
  <2>2. CASE ~(k <= Len(ecs))
    <3>1. PICK i \in 1..count : i = k - Len(ecs) /\ Len(ecs) + i = k
      BY <1>1, <2>2
    <3>2. both[k] = new[i]
      BY <1>5, <2>2, <3>1, Zenon
    <3>3. new[i].entity = Len(ecs) + i /\ new[i].delta = DefaultVelocity
      BY <1>3, Zenon
    <3> QED
      BY <3>1, <3>2, <3>3, Zenon
  <2> QED
    BY <2>1, <2>2, Zenon
<1> QED
  BY <1>5, <1>6, Zenon DEF Grown, both, new

(* A larger world keeps the journals as they are.                           *)
LEMMA BuiltInLarger ==
  ASSUME NEW js, NEW a \in Nat, NEW b \in Nat, a <= b, AllBuilt(js, a)
  PROVE  AllBuilt(js, b)
<1>1. ASSUME NEW i \in DOMAIN js PROVE BuiltFrom(js[i], b)
  <2>1. BuiltFrom(js[i], a)
    BY Zenon DEF AllBuilt
  <2>2. Len(js[i].of) \in Nat
    BY <2>1 DEF BuiltFrom, Grown
  <2>3. Len(js[i].of) <= a
    BY <2>1, Zenon DEF BuiltFrom
  <2>4. Len(js[i].of) <= b
    BY <2>2, <2>3
  <2> QED
    BY <2>1, <2>4, Zenon DEF BuiltFrom
<1> QED
  BY <1>1, Zenon DEF AllBuilt

(* A loop that stops at the first number outside T has done a prefix.       *)
LEMMA LongestPrefix ==
  ASSUME NEW n \in Nat, NEW T
  PROVE  \E m \in 0..n : (\A i \in 1..m : i \in T) /\ (m < n => m + 1 \notin T)
<1> DEFINE Stops == {m \in 0..n : m = n \/ m + 1 \notin T}
<1>1. Stops \in SUBSET Nat /\ n \in Stops
  OBVIOUS
<1>2. PICK m \in Stops : \A k \in Stops : m <= k
  <2> HIDE DEF Stops
  <2> QED
    BY <1>1, LeastNumber
<1>3. ASSUME NEW i \in 1..m PROVE i \in T
  <2>1. i - 1 \in 0..n /\ (i - 1) + 1 = i /\ ~(m <= i - 1)
    OBVIOUS
  <2>2. i - 1 \notin Stops
    BY <1>2, <2>1
  <2> QED
    BY <2>1, <2>2
<1> QED
  BY <1>3

(* The updates of any journals.                                             *)
LEMMA AllUpdatesType ==
  ASSUME NEW n \in Nat, NEW js \in [1..n -> Journal]
  PROVE  AllUpdates(js) \in Seq(Update)
<1> DEFINE seqs == [i \in 1..n |-> js[i].updates]
<1>1. \A i \in 1..n : js[i].updates \in Seq(Update)
  BY DEF Journal
<1>2. seqs \in [1..n -> Seq(Update)]
  BY <1>1, Zenon
<1>3. AllUpdates(js) = FlattenSeq(seqs)
  <2>1. DOMAIN js = 1..n
    OBVIOUS
  <2> QED
    BY <2>1, Zenon DEF AllUpdates
<1> HIDE DEF seqs
<1>4. CASE n = 0
  <2>1. Len(seqs) = 0 /\ seqs = <<>>
    BY <1>2, <1>4
  <2>2. FlattenSeq(seqs) = <<>>
    BY <2>1 DEF FlattenSeq
  <2> QED
    BY <1>3, <2>2
<1>5. CASE n # 0
  <2>1. n \in Nat \ {0}
    BY <1>5
  <2>2. PICK at : Offsets(at, seqs, n)
    BY <1>2, <2>1, OffsetsExist
  <2>3. Placed(FlattenSeq(seqs), seqs, at, n, Update)
    BY <1>2, <2>1, <2>2, FlattenPlaced
  <2> QED
    BY <1>3, <2>3, Zenon DEF Placed
<1> QED
  BY <1>4, <1>5

(* Sorting keeps the journals.                                              *)
LEMMA SortedType ==
  ASSUME NEW n \in Nat, NEW js \in [1..n -> Journal], NEW sorted \in SortedJournals(js)
  PROVE  sorted \in [1..n -> Journal]
<1>1. DOMAIN js = 1..n
  OBVIOUS
<1>2. PICK p \in [DOMAIN js -> DOMAIN js] : sorted = [i \in DOMAIN js |-> js[p[i]]]
  BY Zenon DEF SortedJournals
<1>3. p \in [1..n -> 1..n] /\ sorted = [i \in 1..n |-> js[p[i]]]
  BY <1>1, <1>2
<1>4. \A i \in 1..n : js[p[i]] \in Journal
  BY <1>3
<1> QED
  BY <1>3, <1>4, Zenon

(* The journals that are at their index are a prefix.                       *)
LEMMA InPlaceType ==
  ASSUME NEW n \in Nat, NEW sorted \in [1..n -> Journal]
  PROVE  \E m \in 0..n : InPlace(sorted) \in [1..m -> Journal]
<1> DEFINE P(m) == /\ \A i \in 1..m : sorted[i].worker = i - 1
                   /\ m < n => sorted[m + 1].worker # m
           T == {i \in 1..n : sorted[i].worker = i - 1}
<1>1. PICK m \in 0..n : (\A i \in 1..m : i \in T) /\ (m < n => m + 1 \notin T)
  <2> HIDE DEF T
  <2> QED
    BY LongestPrefix
<1>2. P(m)
  <2>1. m < n => m + 1 \in 1..n /\ (m + 1) - 1 = m
    OBVIOUS
  <2> QED
    BY <1>1, <2>1
<1>3. sorted \in Seq(Journal) /\ Len(sorted) = n
  OBVIOUS
<1> HIDE DEF P
<1>4. PICK k \in 0..n : k = CHOOSE x \in 0..n : P(x)
  BY <1>2
<1>5. InPlace(sorted) = SubSeq(sorted, 1, k)
  BY <1>3, <1>4, Zenon DEF InPlace, P
<1>6. SubSeq(sorted, 1, k) \in [1..k -> Journal]
  <2>1. SubSeq(sorted, 1, k) \in Seq(Journal) /\ Len(SubSeq(sorted, 1, k)) = k
    BY <1>3
  <2>2. PICK u \in Seq(Journal) : u = SubSeq(sorted, 1, k) /\ Len(u) = k
    BY <2>1, Zenon
  <2>3. u \in [1..Len(u) -> Journal]
    OBVIOUS
  <2> QED
    BY <2>2, <2>3, Zenon
<1> QED
  BY <1>5, <1>6, Zenon

(* A merge keeps size, entities and velocities, wherever it stops.          *)
LEMMA MergeKeepsWorld ==
  ASSUME NEW ecs, Grown(ecs), NEW js, AllBuilt(js, Len(ecs)),
         NEW outcome \in MergeJournals(ecs, js)
  PROVE  Grown(outcome.world) /\ Len(outcome.world) = Len(ecs)
<1>1. CASE MergeRejects(ecs, js)
  <2>1. outcome = [world |-> ecs, ok |-> FALSE]
    BY <1>1, Zenon DEF MergeJournals
  <2>2. outcome.world = ecs
    BY <2>1
  <2> QED
    BY <2>2
<1>2. CASE ~MergeRejects(ecs, js)
  <2>1. PICK sorted \in SortedJournals(js) : outcome = Merged(ecs, sorted)
    BY <1>2, Zenon DEF MergeJournals
  <2>2. PICK n \in Nat : js \in [1..n -> Journal]
    BY DEF AllBuilt
  <2>3. sorted \in [1..n -> Journal]
    BY <2>2, SortedType
  <2>4. PICK m \in 0..n : InPlace(sorted) \in [1..m -> Journal]
    BY <2>3, InPlaceType
  <2> DEFINE updates == AllUpdates(InPlace(sorted))
             numbers == SequenceNumbers(InPlace(sorted))
             P(k) == /\ \A i \in 1..k : Applicable(ecs, updates, numbers, i)
                     /\ k < Len(updates) => ~Applicable(ecs, updates, numbers, k + 1)
             T == {i \in 1..Len(updates) : Applicable(ecs, updates, numbers, i)}
  <2>5. updates \in Seq(Update)
    BY <2>4, AllUpdatesType
  <2>6. outcome.world = [i \in DOMAIN ecs |->
           IF i <= (CHOOSE k \in 0..Len(updates) : P(k))
           THEN [ecs[i] EXCEPT !.value = updates[i].value] ELSE ecs[i]]
    BY <2>1, Zenon DEF Merged
  <2> HIDE DEF updates, numbers
  <2>7. PICK l \in Nat : l = Len(updates) /\ \A i \in 1..l : updates[i] \in Update
    BY <2>5
  <2>8. PICK k \in 0..l : (\A i \in 1..k : i \in T) /\ (k < l => k + 1 \notin T)
    <3> HIDE DEF T
    <3> QED
      BY LongestPrefix
  <2>9. P(k)
    <3>1. k < l => k + 1 \in 1..l
      OBVIOUS
    <3> QED
      BY <2>7, <2>8, <3>1
  <2> HIDE DEF P, T
  <2>10. PICK applied \in 0..l : applied = CHOOSE x \in 0..Len(updates) : P(x)
    BY <2>7, <2>9
  <2>11. outcome.world = [i \in DOMAIN ecs |->
            IF i <= applied THEN [ecs[i] EXCEPT !.value = updates[i].value] ELSE ecs[i]]
    BY <2>6, <2>10, Zenon
  <2>12. ecs \in Seq(State) /\ Len(ecs) \in Nat /\ DOMAIN ecs = 1..Len(ecs)
    BY DEF Grown
  <2>13. ASSUME NEW i \in 1..Len(ecs)
         PROVE  /\ outcome.world[i] \in State
                /\ outcome.world[i].entity = i /\ outcome.world[i].delta = DefaultVelocity
    <3>1. ecs[i] \in State /\ ecs[i].entity = i /\ ecs[i].delta = DefaultVelocity
      <4>1. ecs[i] \in State
        BY <2>12
      <4> QED
        BY <2>12, <4>1, Zenon DEF Grown
    <3>2. CASE i <= applied
      <4>1. i \in 1..l
        BY <2>12, <3>2
      <4>2. updates[i] \in Update
        BY <2>7, <4>1, Zenon
      <4>3. PICK v \in Int : v = updates[i].value
        BY <4>2 DEF Update
      <4>4. outcome.world[i] = [ecs[i] EXCEPT !.value = v]
        BY <2>11, <2>12, <3>2, <4>3, Zenon
      <4> QED
        BY <3>1, <4>4 DEF State
    <3>3. CASE ~(i <= applied)
      <4>1. outcome.world[i] = ecs[i]
        BY <2>11, <2>12, <3>3, Zenon
      <4> QED
        BY <3>1, <4>1, Zenon
    <3> QED
      BY <3>2, <3>3, Zenon
  <2>14. outcome.world = [i \in 1..Len(ecs) |-> outcome.world[i]]
    BY <2>11, <2>12, Zenon
  <2>15. outcome.world \in [1..Len(ecs) -> State]
    BY <2>13, <2>14, Zenon
  <2>16. PICK new \in [1..Len(ecs) -> State] : new = outcome.world
    BY <2>15, Zenon
  <2>17. new \in Seq(State) /\ Len(new) = Len(ecs) /\ DOMAIN new = 1..Len(ecs)
    BY <2>12
  <2> QED
    BY <2>13, <2>16, <2>17, Zenon DEF Grown
<1> QED
  BY <1>1, <1>2

(* A journal the owner builds is one of those.                              *)
LEMMA BuiltByOwner ==
  ASSUME NEW of, Grown(of), NEW size \in Nat, Len(of) <= size, NEW worker \in Nat, NEW count,
         ValidWorker(worker, count)
  PROVE  BuiltFrom(BuildTransformJournal(of, worker, count), size)
<1> DEFINE journal == BuildTransformJournal(of, worker, count)
<1>1. journal.of = of /\ journal.worker = worker /\ journal.count = count
  BY DEF BuildTransformJournal
<1>2. count \in 1..MaxWorldWorkers /\ worker \in 0..(count - 1)
  BY EcsAssumption DEF ValidWorker
<1> HIDE DEF journal
<1>3. journal = BuildTransformJournal(journal.of, journal.worker, journal.count)
  BY <1>1, Zenon DEF journal
<1>4. BuiltFrom(journal, size)
  BY <1>1, <1>2, <1>3, Zenon DEF BuiltFrom
<1> QED
  BY <1>4 DEF journal

(* The owner starts with nothing.                                           *)
LEMMA OwnerStarts == Init => OwnerInv
<1> SUFFICES ASSUME Init PROVE OwnerInv
  OBVIOUS
<1>1. workers = 0 /\ \A t \in Threads : thread[t] = Nobody
  BY DEF Init
<1>2. world = <<>> /\ snapshot = <<>> /\ journals = <<>>
  BY DEF Init, NoWorld
<1>3. Grown(<<>>) /\ Len(<<>>) = 0
  BY DEF Grown
<1>4. AllBuilt(<<>>, 0)
  BY DEF AllBuilt
<1> QED
  BY <1>1, <1>2, <1>3, <1>4 DEF OwnerInv

(* What is not a call of the owner leaves its variables alone.              *)
OwnerIdle ==
  pc' = "owner" => UNCHANGED <<pc, workers, thread, world, snapshot, journals>>

(* Steps of the programs do.                                                *)
LEMMA OthersIdle ==
  ASSUME OwnerInv,
         MainNext \/ WorkerNext \/ CpuSetChanges \/ ResourceLoads \/ UNCHANGED vars
         \/ (\E t \in Threads : Allocate(t) \/ Reset(t))
  PROVE  OwnerIdle
<1> USE DEF budgetVars, hostVars, jobVars, ecsVars, planVars, Exit, OwnerIdle
<1>1. CASE CaptureBudget
  BY <1>1 DEF CaptureBudget
<1>2. CASE StartHost
  BY <1>2 DEF StartHost
<1>3. CASE Plan
  BY <1>3 DEF Plan
<1>4. CASE BeginPhase
  BY <1>4 DEF BeginPhase
<1>5. CASE SubmitTasks
  BY <1>5 DEF SubmitTasks
<1>6. CASE MergeTick
  BY <1>6 DEF MergeTick
<1>7. CASE WaitThrows
  BY <1>7 DEF WaitThrows
<1>8. CASE PublishTick
  BY <1>8 DEF PublishTick
<1>9. CASE EndPhase
  BY <1>9 DEF EndPhase
<1>10. CASE \/ PumpMainThreadQueue \/ DrainAgain \/ DrainTimesOut \/ DrainReturns
            \/ PrepareShutdown \/ FinalizeShutdown
  BY <1>10 DEF PumpMainThreadQueue, DrainAgain, DrainTimesOut, DrainReturns, Draining,
               PrepareShutdown, FinalizeShutdown
<1>11. CASE WorkerNext
  <2>1. ASSUME pc = "owner" PROVE workers = 0 /\ \A t \in Threads : thread[t] = Nobody
    BY <2>1 DEF OwnerInv
  <2>2. UNCHANGED pc
    BY <1>11 DEF WorkerNext, TakeTask, UseWorkerScratch, BuildJournal, TaskThrows
  <2>3. pc # "owner"
    <3>1. SUFFICES ASSUME pc = "owner" PROVE FALSE
      OBVIOUS
    <3>2. PICK t \in Threads : (\E w \in Threads : TakeTask(t, w)) \/ thread[t] # Nobody
      BY <1>11 DEF WorkerNext, UseWorkerScratch, BuildJournal, TaskThrows
    <3>3. ~(t < 0)
      BY TicksAssumption DEF Threads
    <3> QED
      BY <2>1, <3>1, <3>2, <3>3 DEF TakeTask
  <2> QED
    BY <2>2, <2>3
<1>12. CASE CpuSetChanges \/ ResourceLoads \/ UNCHANGED vars
  BY <1>12 DEF CpuSetChanges, ResourceLoads, vars
<1>13. CASE \E t \in Threads : Allocate(t) \/ Reset(t)
  BY <1>13 DEF Allocate, Reset
<1> QED
  BY <1>1, <1>2, <1>3, <1>4, <1>5, <1>6, <1>7, <1>8, <1>9, <1>10, <1>11, <1>12, <1>13
     DEF MainNext

(* Every step keeps the invariant.                                          *)
LEMMA OwnerSteps == OwnerInv /\ [Next]_vars => OwnerInv'
<1> SUFFICES ASSUME OwnerInv, [Next]_vars, pc' = "owner"
             PROVE  /\ workers' = 0 /\ \A t \in Threads : thread'[t] = Nobody
                    /\ Grown(world') /\ Grown(snapshot') /\ Len(snapshot') <= Len(world')
                    /\ AllBuilt(journals', Len(world'))
  BY DEF OwnerInv
<1> DEFINE Calls == CreateEntities \/ CopySnapshot \/ AddJournal \/ ClearJournals \/ OwnerMerges
<1>1. CASE ~Calls
  <2>1. OwnerIdle
    BY <1>1, OthersIdle DEF Next, CallerNext
  <2>2. pc = "owner" /\ UNCHANGED <<workers, thread, world, snapshot, journals>>
    BY <2>1 DEF OwnerIdle
  <2> QED
    BY <2>2 DEF OwnerInv
<1>2. CASE Calls
  <2>1. pc = "owner" /\ UNCHANGED <<workers, thread>>
    BY <1>2 DEF CreateEntities, CopySnapshot, AddJournal, ClearJournals, OwnerMerges, ownerFrame,
                jobVars
  <2>2. /\ workers' = 0 /\ \A t \in Threads : thread'[t] = Nobody
        /\ Grown(world) /\ Grown(snapshot) /\ Len(snapshot) <= Len(world)
        /\ AllBuilt(journals, Len(world))
    BY <2>1 DEF OwnerInv
  <2>3. Len(world) \in Nat /\ Len(snapshot) \in Nat
    BY <2>2 DEF Grown
  <2>4. CASE CreateEntities
    <3>1. PICK count \in 1..2 : world' = world \o NewEntities(Len(world), count)
      BY <2>4 DEF CreateEntities
    <3>2. UNCHANGED <<snapshot, journals>>
      BY <2>4 DEF CreateEntities
    <3>3. count \in Nat
      OBVIOUS
    <3>4. Grown(world') /\ Len(world') = Len(world) + count
      BY <2>2, <3>1, <3>3, WorldGrows
    <3>5. Len(world') \in Nat /\ Len(world) <= Len(world') /\ Len(snapshot) <= Len(world')
      BY <2>2, <2>3, <3>4
    <3>6. AllBuilt(journals, Len(world'))
      BY <2>2, <2>3, <3>5, BuiltInLarger
    <3> QED
      BY <2>2, <3>2, <3>4, <3>5, <3>6
  <2>5. CASE CopySnapshot
    <3>1. snapshot' = world /\ UNCHANGED <<world, journals>>
      BY <2>5 DEF CopySnapshot
    <3> QED
      BY <2>2, <2>3, <3>1
  <2>6. CASE AddJournal
    <3>1. UNCHANGED <<world, snapshot>>
      BY <2>6 DEF AddJournal
    <3>2. PICK count \in Counts, worker \in 0..MaxWorldWorkers :
            /\ ValidWorker(worker, count)
            /\ journals' = Append(journals, BuildTransformJournal(snapshot, worker, count))
      BY <2>6 DEF AddJournal
    <3>3. PICK new : new = BuildTransformJournal(snapshot, worker, count)
      OBVIOUS
    <3>4. worker \in Nat
      BY EcsAssumption
    <3>5. BuiltFrom(new, Len(world))
      BY <2>2, <2>3, <3>2, <3>3, <3>4, BuiltByOwner
    <3>6. new \in Journal
      BY <2>3, <3>5, BuiltPrefix
    <3>7. journals \in Seq(Journal) /\ \A i \in DOMAIN journals : BuiltFrom(journals[i], Len(world))
      BY <2>2, Zenon DEF AllBuilt
    <3>8. journals' = Append(journals, new)
      BY <3>2, <3>3
    <3>9. journals' \in Seq(Journal)
      BY <3>6, <3>7, <3>8
    <3>10. ASSUME NEW i \in DOMAIN journals' PROVE BuiltFrom(journals'[i], Len(world))
      <4>1. journals'[i] = new \/ (i \in DOMAIN journals /\ journals'[i] = journals[i])
        BY <3>6, <3>7, <3>8
      <4> QED
        BY <3>5, <3>7, <4>1, Zenon
    <3>11. AllBuilt(journals', Len(world))
      BY <3>9, <3>10, Zenon DEF AllBuilt
    <3> QED
      BY <2>2, <3>1, <3>11
  <2>7. CASE ClearJournals
    <3>1. journals' = <<>> /\ UNCHANGED <<world, snapshot>>
      BY <2>7 DEF ClearJournals
    <3>2. AllBuilt(<<>>, Len(world))
      BY DEF AllBuilt
    <3> QED
      BY <2>2, <3>1, <3>2
  <2>8. CASE OwnerMerges
    <3>1. PICK outcome \in MergeJournals(world, journals) : world' = outcome.world
      BY <2>8 DEF OwnerMerges
    <3>2. UNCHANGED <<snapshot, journals>>
      BY <2>8 DEF OwnerMerges
    <3>3. Grown(world') /\ Len(world') = Len(world)
      BY <2>2, <3>1, MergeKeepsWorld
    <3> QED
      BY <2>2, <3>2, <3>3
  <2> QED
    BY <1>2, <2>4, <2>5, <2>6, <2>7, <2>8
<1> QED
  BY <1>1, <1>2

(* The owner's world, snapshot and journals belong together, whatever calls *)
(* the owner makes in whatever order (EcsWorld).                            *)
THEOREM OwnerInvariance == Spec => []OwnerInv
<1>1. Init => OwnerInv
  BY OwnerStarts
<1>2. OwnerInv /\ [Next]_vars => OwnerInv'
  BY OwnerSteps
<1> QED
  BY <1>1, <1>2, PTL DEF Spec

(* Journals made from one snapshot for one number of workers, one of each   *)
(* worker, are merged entirely or not at all, in whatever order the vector  *)
(* holds them, however the world and its journals came about                *)
(* (EcsWorld::MergeJournals).                                               *)
THEOREM MergesAllOrNothing == Spec => MergeAllOrNothing
<1> DEFINE Whole == (/\ pc = "owner" /\ world' # world /\ Len(world') = Len(world)
                     /\ \A i, j \in DOMAIN journals :
                            /\ journals[i].of = journals[j].of
                            /\ journals[i].count = journals[j].count
                            /\ journals[i].worker = journals[j].worker => i = j)
                    => error' = "" /\ world' = Sequential(journals[1].of)
<1>1. OwnerInv /\ [Next]_vars => [Whole]_vars
  <2> SUFFICES ASSUME OwnerInv, Next, pc = "owner", world' # world, Len(world') = Len(world),
                      \A i, j \in DOMAIN journals :
                        /\ journals[i].of = journals[j].of
                        /\ journals[i].count = journals[j].count
                        /\ journals[i].worker = journals[j].worker => i = j
               PROVE  error' = "" /\ world' = Sequential(journals[1].of)
    OBVIOUS
  <2>1. OfOneSnapshot(journals)
    BY Zenon DEF OfOneSnapshot
  <2>2. Grown(world) /\ AllBuilt(journals, Len(world))
    BY DEF OwnerInv
  <2>3. CASE OwnerMerges
    <3>1. PICK outcome \in MergeJournals(world, journals) :
            world' = outcome.world /\ error' = IF outcome.ok THEN "" ELSE "merge"
      BY <2>3 DEF OwnerMerges
    <3>2. ~MergeRejects(world, journals)
      <4>1. SUFFICES ASSUME MergeRejects(world, journals) PROVE FALSE
        OBVIOUS
      <4>2. outcome = [world |-> world, ok |-> FALSE]
        BY <4>1, Zenon DEF MergeJournals
      <4>3. outcome.world = world
        BY <4>2
      <4> QED
        BY <3>1, <4>3
    <3>3. outcome = [world |-> Sequential(journals[1].of), ok |-> TRUE]
      BY <2>1, <2>2, <3>2, MergesWhole
    <3>4. outcome.world = Sequential(journals[1].of) /\ outcome.ok
      BY <3>3
    <3> QED
      BY <3>1, <3>4
  <2>4. CASE CreateEntities
    <3>1. PICK count \in 1..2 : world' = world \o NewEntities(Len(world), count)
      BY <2>4 DEF CreateEntities
    <3>2. count \in Nat /\ Len(world) \in Nat
      BY <2>2 DEF Grown
    <3>3. Len(world') = Len(world) + count
      BY <2>2, <3>1, <3>2, WorldGrows
    <3>4. Len(world) + count # Len(world)
      BY <3>2
    <3> QED
      BY <3>3, <3>4, Zenon
  <2>5. CASE CopySnapshot \/ AddJournal \/ ClearJournals
    BY <2>5 DEF CopySnapshot, AddJournal, ClearJournals
  <2>6. CASE ~(OwnerMerges \/ CreateEntities \/ CopySnapshot \/ AddJournal \/ ClearJournals)
    <3>1. OwnerIdle
      BY <2>6, OthersIdle DEF Next, CallerNext
    <3>2. pc' = "owner"
      <4> USE DEF budgetVars, hostVars, jobVars, ecsVars, planVars
      <4>1. ~MainNext
        BY DEF MainNext, CaptureBudget, StartHost, Plan, BeginPhase, SubmitTasks, MergeTick,
               WaitThrows, PublishTick, EndPhase, Draining, PumpMainThreadQueue, DrainAgain,
               DrainTimesOut, DrainReturns, PrepareShutdown, FinalizeShutdown
      <4>2. WorkerNext => UNCHANGED pc
        BY DEF WorkerNext, TakeTask, UseWorkerScratch, BuildJournal, TaskThrows
      <4>3. CpuSetChanges \/ ResourceLoads => UNCHANGED pc
        BY DEF CpuSetChanges, ResourceLoads
      <4>4. (\E t \in Threads : Allocate(t) \/ Reset(t)) => FALSE
        BY DEF Allocate, Reset
      <4> QED
        BY <2>6, <4>1, <4>2, <4>3, <4>4 DEF Next, CallerNext
    <3> QED
      BY <3>1, <3>2 DEF OwnerIdle
  <2> QED
    BY <2>3, <2>4, <2>5, <2>6
<1> QED
  BY <1>1, OwnerInvariance, PTL DEF Spec, MergeAllOrNothing
=============================================================================
