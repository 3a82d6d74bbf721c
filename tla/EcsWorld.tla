------------------------------ MODULE EcsWorld ------------------------------
(***************************************************************************)
(* The ECS world: the owner takes a snapshot, workers turn disjoint parts  *)
(* of it into journals, and the owner merges the journals.  A world is the *)
(* sequence of its entities' states in m_entity_order, an entity its       *)
(* position; components keep their values.                                 *)
(***************************************************************************)
EXTENDS Integers, SequencesExt

CONSTANTS
    MaxEntities,    \* MAX_WORLD_ENTITIES
    MaxWorldWorkers,\* MAX_WORLD_WORKERS
    MaxUpdates,     \* MAX_JOURNAL_UPDATES
    MinValue,       \* std::numeric_limits<std::int64_t>::min()
    MaxValue        \* std::numeric_limits<std::int64_t>::max()

ASSUME EcsAssumption ==
    /\ MaxEntities \in Nat /\ MaxWorldWorkers \in Nat /\ MaxUpdates \in Nat
    /\ MinValue \in Int /\ MaxValue \in Nat /\ MinValue <= 0

DefaultVelocity == 1

Least(a, b) == IF a < b THEN a ELSE b

(* Partition index (from 0) of a snapshot of this size, half open. *)
PartitionStart(size, index, count) ==
    index * (size \div count) + Least(index, size % count)

PartitionEnd(size, index, count) ==
    PartitionStart(size, index, count) + size \div count
        + (IF index < size % count THEN 1 ELSE 0)

Overflows(value, delta) ==
    \/ delta > 0 /\ value > MaxValue - delta
    \/ delta < 0 /\ value < MinValue - delta

CheckedAdd(value, delta) == value + delta

(* What CreateEntities appends to a world of this size. *)
NewEntities(size, count) ==
    [i \in 1..count |-> [entity |-> size + i, value |-> size + i - 1,
                         delta |-> DefaultVelocity]]

FitsWorld(size, count) == count <= MaxEntities - size

ValidWorker(worker, count) == count \in 1..MaxWorldWorkers /\ worker < count

NoJournal == [worker |-> 0, updates |-> <<>>, of |-> <<>>, count |-> 0]

UpdatesOf(snapshot, begin, end) ==
    [i \in 1..(end - begin) |->
        [entity |-> snapshot[begin + i].entity,
         value |-> CheckedAdd(snapshot[begin + i].value, snapshot[begin + i].delta),
         sequence |-> i - 1]]

(* The updates up to the first that overflows, where the loop throws. *)
BeforeOverflow(snapshot, begin, end) ==
    CHOOSE stop \in begin..end :
        /\ \A i \in (begin + 1)..stop :
               ~Overflows(snapshot[i].value, snapshot[i].delta)
        /\ \/ stop = end
           \/ Overflows(snapshot[stop + 1].value, snapshot[stop + 1].delta)

(* BuildTransformJournalInto leaves this journal, also when it throws.  The *)
(* fields of and count only record what it was built from.                  *)
BuildTransformJournal(snapshot, worker, count) ==
    LET begin == PartitionStart(Len(snapshot), worker, count)
        end == PartitionEnd(Len(snapshot), worker, count)
    IN [worker |-> worker, of |-> snapshot, count |-> count,
        updates |-> UpdatesOf(snapshot, begin, BeforeOverflow(snapshot, begin, end))]

BuildThrows(snapshot, worker, count) ==
    LET end == PartitionEnd(Len(snapshot), worker, count)
    IN BeforeOverflow(snapshot, PartitionStart(Len(snapshot), worker, count), end) # end

(* std::sort by worker_index, which may leave equal ones in any order. *)
SortedJournals(journals) ==
    {sorted \in {[i \in DOMAIN journals |-> journals[p[i]]] :
                    p \in {q \in [DOMAIN journals -> DOMAIN journals] :
                              \A i, j \in DOMAIN journals : q[i] = q[j] => i = j}} :
        \A i \in 1..(Len(journals) - 1) : sorted[i].worker <= sorted[i + 1].worker}

AllUpdates(journals) == FlattenSeq([i \in DOMAIN journals |-> journals[i].updates])

CoversWorld_Mutant(world, journals) ==
    \A i \in DOMAIN journals : journals[i].worker < Len(journals)

(* The checks of MergeJournals that come before the first update. *)
CoversWorld(world, journals) ==
    /\ \A i \in DOMAIN journals : journals[i].worker < Len(journals)
    /\ Len(AllUpdates(journals)) <= MaxUpdates
    /\ Len(AllUpdates(journals)) = Len(world)

(* The journals applied before one is not at its index. *)
InPlace(sorted) ==
    SubSeq(sorted, 1, CHOOSE n \in 0..Len(sorted) :
                        /\ \A i \in 1..n : sorted[i].worker = i - 1
                        /\ n < Len(sorted) => sorted[n + 1].worker # n)

(* An update goes to the entity whose turn it is, in its journal's order. *)
Applicable(world, updates, sequences, i) ==
    /\ updates[i].sequence = sequences[i]
    /\ i <= Len(world) /\ updates[i].entity = world[i].entity

SequenceNumbers(journals) ==
    FlattenSeq([i \in DOMAIN journals |->
                   [j \in DOMAIN journals[i].updates |-> j - 1]])

(* What MergeJournals makes of the world: the updates up to the one it *)
(* rejects, all of them if it returns.                                  *)
Merged(world, sorted) ==
    LET updates == AllUpdates(InPlace(sorted))
        sequences == SequenceNumbers(InPlace(sorted))
        applied == CHOOSE n \in 0..Len(updates) :
            /\ \A i \in 1..n : Applicable(world, updates, sequences, i)
            /\ n < Len(updates) => ~Applicable(world, updates, sequences, n + 1)
    IN [world |-> [i \in DOMAIN world |->
                      IF i <= applied THEN [world[i] EXCEPT !.value = updates[i].value]
                      ELSE world[i]],
        ok |-> applied = Len(updates) /\ Len(InPlace(sorted)) = Len(sorted)]

MergeRejects(world, journals) ==
    \/ journals = <<>> \/ Len(journals) > MaxWorldWorkers
    \/ ~CoversWorld(world, journals)

(* The outcomes of MergeJournals. *)
MergeJournals(world, journals) ==
    IF MergeRejects(world, journals) THEN {[world |-> world, ok |-> FALSE]}
    ELSE {Merged(world, sorted) : sorted \in SortedJournals(journals)}

(* The reference: one sequential pass over a snapshot. *)
Sequential(snapshot) ==
    [i \in DOMAIN snapshot |->
        [snapshot[i] EXCEPT !.value = snapshot[i].value + snapshot[i].delta]]
=============================================================================
