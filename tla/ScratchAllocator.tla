-------------------------- MODULE ScratchAllocator --------------------------
(***************************************************************************)
(* The bump arena of one thread: an arena is its owner, its capacity, the  *)
(* offset of the next allocation, and the spans handed out since the last  *)
(* Reset.                                                                  *)
(***************************************************************************)
EXTENDS Naturals, FiniteSets

CONSTANTS
    MaxCapacity,    \* MAX_SCRATCH_ALLOCATOR_CAPACITY
    BaseAlignment,  \* SCRATCH_ALLOCATOR_BASE_ALIGNMENT
    SizeMax         \* the largest std::size_t

ASSUME ScratchAssumption ==
    MaxCapacity \in Nat /\ BaseAlignment \in Nat \ {0} /\ SizeMax \in Nat

ValidateCapacity(capacity) == capacity \in 1..MaxCapacity

PowersOfTwo == {a \in 1..BaseAlignment : \E n \in 0..a : 2^n = a}

ValidateAlignment(alignment) == alignment \in PowersOfTwo

ComputePadding(offset, alignment) ==
    IF offset % alignment = 0 THEN 0 ELSE alignment - (offset % alignment)

NewArena(owner, capacity) ==
    [owner |-> owner, capacity |-> capacity, offset |-> 0, spans |-> {}]

AssertOwner(arena, thread) == arena.owner = thread

Remaining(arena) == arena.capacity - arena.offset

Exceeds_Mutant(arena, size, alignment) ==
    (arena.offset + ComputePadding(arena.offset, alignment) + size) % (SizeMax + 1)
        > arena.capacity

(* The allocation does not fit.  Neither side of the tests can wrap. *)
Exceeds(arena, size, alignment) ==
    LET padding == ComputePadding(arena.offset, alignment)
    IN padding > Remaining(arena) \/ size > Remaining(arena) - padding

(* Allocate: the offsets of the span and the arena after it. *)
Span(arena, size, alignment) ==
    LET start == arena.offset + ComputePadding(arena.offset, alignment)
    IN [start |-> start, end |-> start + size, alignment |-> alignment]

Allocated(arena, size, alignment) ==
    LET span == Span(arena, size, alignment)
    IN [arena EXCEPT !.offset = span.end, !.spans = @ \cup {span}]

Emptied(arena) == [arena EXCEPT !.offset = 0, !.spans = {}]
=============================================================================
