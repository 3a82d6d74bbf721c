---------------------------- MODULE FrameSlotPool ----------------------------
(***************************************************************************)
(* The pool of frame slots of src/threading/frame_slot.cpp: a producer     *)
(* thread fills a slot through a move-only write lease and publishes it,   *)
(* a consumer thread reads it through a read lease and releases it.        *)
(*                                                                         *)
(* Every member function runs under m_mutex, so a call is one step unless  *)
(* it sleeps on a condition variable.  A call that sleeps stays recorded   *)
(* in call[t] and is taken up again, from its test, once a notification or *)
(* a spurious wake-up removes t from the set of sleepers.  Close()         *)
(* notifies after it has released the mutex, which is a step of its own.   *)
(*                                                                         *)
(* One action stands for one outcome of a call (a lease, an empty          *)
(* optional, an exception, going to sleep), so that a module that composes *)
(* the pool can branch on what the call returned.                          *)
(*                                                                         *)
(* A definition X_Mutant is what X would be after a plausible mistake in   *)
(* the code.  No specification uses it: PROJECT.json pairs it with the     *)
(* property that then fails.                                               *)
(***************************************************************************)
EXTENDS Integers, FiniteSets

CONSTANTS
  Threads,          \* the threads that may call the pool
  NoThread,         \* stands for "not registered yet"
  SlotCount,        \* m_slots.size()
  PayloadCapacity,  \* m_payload_capacity
  MaxGeneration     \* numeric_limits<uint64_t>::max() of the code

ASSUME PoolAssumption ==
  /\ IsFiniteSet(Threads)
  /\ NoThread \notin Threads
  /\ SlotCount \in Nat \ {0}
  /\ PayloadCapacity \in Nat \ {0}
  /\ MaxGeneration \in Nat \ {0}

VARIABLES
  state,                \* m_slots[s].state
  generation,           \* m_slots[s].generation
  payload_size,         \* m_slots[s].payload_size
  was_cancelled,        \* m_slots[s].was_cancelled
  m_closed,
  m_producer_thread,    \* NoThread while m_has_producer is false
  m_consumer_thread,    \* NoThread while m_has_consumer is false
  m_active_operations,
  write_leases,         \* the active write leases each thread holds
  read_leases,          \* the active read leases each thread holds
  call,                 \* the pool call each thread is inside
  read_token,           \* the argument of the AcquireRead it is inside
  state_sleepers,       \* threads asleep on m_state_changed
  idle_sleepers,        \* threads asleep on m_operations_idle
  lifetime              \* of the pool object

slotVars  == <<state, generation, payload_size, was_cancelled>>
ownerVars == <<m_producer_thread, m_consumer_thread>>
leaseVars == <<write_leases, read_leases>>
callVars  == <<call, read_token, m_active_operations, idle_sleepers>>
vars == <<slotVars, m_closed, ownerVars, leaseVars, callVars,
          state_sleepers, lifetime>>

SlotIds    == 0 .. SlotCount - 1
SlotStates == {"Free", "Writing", "Published", "Reading"}

(* A token names a slot and one use of it; pool_id is folded into          *)
(* generation 0, which SlotForToken rejects like a foreign pool.           *)
Token        == [slot_id : SlotIds, generation : 0 .. MaxGeneration]
TokenOf(s)   == [slot_id |-> s, generation |-> generation[s]]
InvalidToken == [slot_id |-> 0, generation |-> 0]

(* The tokens a caller can hold: copies of those the pool has handed out,  *)
(* and the default-constructed one.                                        *)
KnownTokens ==
  {InvalidToken} \cup
  UNION {{[slot_id |-> s, generation |-> g] : g \in 1 .. generation[s]} :
           s \in SlotIds}

CallStates == {"idle", "AcquireWrite", "AcquireRead", "Close",
               "DestroyClose", "DestroyWait"}

-----------------------------------------------------------------------------
(* Helpers that run with m_mutex held.                                     *)

IsFreeSlot(s) == state[s] = "Free"
HasFreeSlot   == \E s \in SlotIds : IsFreeSlot(s)
FindFreeSlot(s) ==
  /\ IsFreeSlot(s)
  /\ \A r \in SlotIds : IsFreeSlot(r) => s <= r

(* SlotForTokenLocked returns the slot; otherwise it throws.               *)
SlotForToken_Mutant(tok) == tok.generation # 0
SlotForToken(tok) ==
  /\ tok.generation # 0
  /\ generation[tok.slot_id] = tok.generation

MayProduce(t) == m_producer_thread \in {NoThread, t}
MayConsume(t) == m_consumer_thread \in {NoThread, t}

RegisterProducer(t) == m_producer_thread' = t /\ UNCHANGED m_consumer_thread
RegisterConsumer(t) == m_consumer_thread' = t /\ UNCHANGED m_producer_thread

(* The count of operations in flight as it stands inside the call: an      *)
(* entering call has just incremented it.                                  *)
Operations_Mutant(t) == m_active_operations + 1
Operations(t) == m_active_operations + (IF call[t] = "idle" THEN 1 ELSE 0)

NotifyIdle(t) ==
  idle_sleepers' = IF Operations(t) = 1 THEN {} ELSE idle_sleepers

(* EndOperationLocked, and the return from the call.  Reaching zero wakes  *)
(* the destructor; an underflow terminates the process.                    *)
EndOperation(t) ==
  /\ call' = [call EXCEPT ![t] = "idle"]
  /\ UNCHANGED read_token
  /\ m_active_operations' = Operations(t) - 1
  /\ NotifyIdle(t)
  /\ lifetime' = IF Operations(t) = 0 THEN "terminated" ELSE lifetime

SleepInOperation(t, name) ==
  /\ call' = [call EXCEPT ![t] = name]
  /\ m_active_operations' = Operations(t)
  /\ state_sleepers' = state_sleepers \cup {t}
  /\ UNCHANGED <<idle_sleepers, lifetime>>

NotifyStateChanged_Mutant == UNCHANGED state_sleepers
NotifyStateChanged == state_sleepers' = {}

(* CancelWrite, ReleaseRead and DiscardPublished all give the slot back.   *)
FreeSlot(s, cancelled) ==
  /\ payload_size' = [payload_size EXCEPT ![s] = 0]
  /\ was_cancelled' = [was_cancelled EXCEPT ![s] = cancelled]
  /\ state' = [state EXCEPT ![s] = "Free"]
  /\ NotifyStateChanged
  /\ UNCHANGED generation

(* A new call may start while the pool is alive and t is in no other call. *)
Entering(t) == call[t] = "idle" /\ lifetime = "alive"

(* A sleeper that has been woken holds the mutex again and re-tests.       *)
Woken(t, name) == /\ call[t] = name
                  /\ t \notin state_sleepers
                  /\ lifetime \in {"alive", "destroying"}

-----------------------------------------------------------------------------
(* Write side.                                                             *)

NextGeneration_Mutant(s) == generation[s]
NextGeneration(s) == generation[s] + 1

Unexhausted(s) == generation[s] < MaxGeneration

(* The slot is taken for a new generation.                                 *)
TakeFreeSlot(t) ==
  \E s \in SlotIds :
    /\ FindFreeSlot(s)
    /\ Unexhausted(s)
    /\ generation' = [generation EXCEPT ![s] = NextGeneration(s)]
    /\ payload_size' = [payload_size EXCEPT ![s] = 0]
    /\ was_cancelled' = [was_cancelled EXCEPT ![s] = FALSE]
    /\ state' = [state EXCEPT ![s] = "Writing"]
    /\ write_leases' =
         [write_leases EXCEPT ![t] =
            @ \cup {[slot_id |-> s, generation |-> NextGeneration(s)]}]

(* The first free slot has used up its generations: the call throws.       *)
GenerationExhausted ==
  \E s \in SlotIds : FindFreeSlot(s) /\ ~Unexhausted(s)

(* TryAcquireWrite (not blocking) and AcquireWrite (blocking), which tests *)
(* on entry and after every wake-up.  Only the blocking call counts as an  *)
(* operation; for one that returns at once the count is the same.          *)
AcquireWriteTests(t, blocking) ==
  \/ Entering(t) /\ MayProduce(t)
  \/ blocking /\ Woken(t, "AcquireWrite")

AcquireWriteLease(t, blocking) ==
  /\ AcquireWriteTests(t, blocking) /\ ~m_closed
  /\ RegisterProducer(t)
  /\ TakeFreeSlot(t)
  /\ EndOperation(t)
  /\ UNCHANGED <<m_closed, read_leases, state_sleepers>>

AcquireWriteNothing(t, blocking) ==
  /\ AcquireWriteTests(t, blocking)
  /\ m_closed \/ (~blocking /\ ~HasFreeSlot)
  /\ RegisterProducer(t)
  /\ EndOperation(t)
  /\ UNCHANGED <<slotVars, m_closed, leaseVars, state_sleepers>>

AcquireWriteSleeps(t) ==
  /\ AcquireWriteTests(t, TRUE) /\ ~m_closed /\ ~HasFreeSlot
  /\ RegisterProducer(t)
  /\ SleepInOperation(t, "AcquireWrite")
  /\ UNCHANGED <<slotVars, m_closed, leaseVars, read_token>>

AcquireWriteThrows(t, blocking) ==
  /\ \/ Entering(t) /\ ~MayProduce(t) /\ UNCHANGED ownerVars
     \/ /\ AcquireWriteTests(t, blocking) /\ ~m_closed /\ GenerationExhausted
        /\ RegisterProducer(t)
  /\ EndOperation(t)
  /\ UNCHANGED <<slotVars, m_closed, leaseVars, state_sleepers>>

-----------------------------------------------------------------------------
(* Read side: AcquireReadImpl, called by TryAcquireRead (not blocking) and *)
(* AcquireRead (blocking).  The token is checked before the consumer is    *)
(* registered, and again after every wake-up.                              *)

AcquireReadTests(t, tok, blocking) ==
  \/ Entering(t) /\ SlotForToken(tok) /\ MayConsume(t)
  \/ blocking /\ Woken(t, "AcquireRead") /\ read_token[t] = tok

StartReading(s) ==
  /\ state' = [state EXCEPT ![s] = "Reading"]
  /\ UNCHANGED payload_size

AcquireReadLease(t, tok, blocking) ==
  /\ AcquireReadTests(t, tok, blocking) /\ SlotForToken(tok)
  /\ state[tok.slot_id] = "Published"
  /\ RegisterConsumer(t)
  /\ StartReading(tok.slot_id)
  /\ read_leases' = [read_leases EXCEPT ![t] = @ \cup {tok}]
  /\ EndOperation(t)
  /\ UNCHANGED <<generation, was_cancelled, m_closed, write_leases,
                 state_sleepers>>

AcquireReadNothing(t, tok, blocking) ==
  /\ AcquireReadTests(t, tok, blocking) /\ SlotForToken(tok)
  /\ \/ state[tok.slot_id] = "Writing" /\ (m_closed \/ ~blocking)
     \/ /\ state[tok.slot_id] \in {"Free", "Reading"}
        /\ was_cancelled[tok.slot_id] \/ m_closed
  /\ RegisterConsumer(t)
  /\ EndOperation(t)
  /\ UNCHANGED <<slotVars, m_closed, leaseVars, state_sleepers>>

AcquireReadSleeps(t, tok) ==
  /\ AcquireReadTests(t, tok, TRUE) /\ SlotForToken(tok)
  /\ state[tok.slot_id] = "Writing" /\ ~m_closed
  /\ RegisterConsumer(t)
  /\ SleepInOperation(t, "AcquireRead")
  /\ read_token' = [read_token EXCEPT ![t] = tok]
  /\ UNCHANGED <<slotVars, m_closed, leaseVars>>

(* A stale or invalid token, a second consumer, or a slot that is neither  *)
(* published, nor being written, nor cancelled.                            *)
AcquireReadThrows(t, tok, blocking) ==
  /\ \/ /\ Entering(t)
        /\ ~SlotForToken(tok) \/ ~MayConsume(t)
        /\ UNCHANGED ownerVars
     \/ /\ AcquireReadTests(t, tok, blocking)
        /\ IF SlotForToken(tok)
           THEN /\ state[tok.slot_id] \in {"Free", "Reading"}
                /\ ~was_cancelled[tok.slot_id] /\ ~m_closed
           ELSE TRUE
        /\ RegisterConsumer(t)
  /\ EndOperation(t)
  /\ UNCHANGED <<slotVars, m_closed, leaseVars, state_sleepers>>

-----------------------------------------------------------------------------
(* Leases.  A lease stays with the thread that acquired it, as in every    *)
(* use of the pool; m_active is membership in write_leases / read_leases.  *)

LeaseUsable == lifetime \in {"alive", "destroying"}

Writable(t, tok) ==
  /\ m_producer_thread = t
  /\ SlotForToken(tok)
  /\ state[tok.slot_id] = "Writing"

(* SetWritePayloadSize; a size above the capacity throws.                  *)
SetPayloadSize(t, tok, size) ==
  /\ LeaseUsable /\ call[t] = "idle"
  /\ tok \in write_leases[t]
  /\ Writable(t, tok) /\ size <= PayloadCapacity
  /\ payload_size' = [payload_size EXCEPT ![tok.slot_id] = size]
  /\ UNCHANGED <<state, generation, was_cancelled, m_closed, ownerVars,
                 leaseVars, callVars, state_sleepers, lifetime>>

Publishable(t, tok) == Writable(t, tok) /\ ~m_closed

(* Publish deactivates the lease once the slot is published.               *)
EndLease(t, tok) == write_leases' = [write_leases EXCEPT ![t] = @ \ {tok}]

PublishWrite(t, tok) ==
  /\ LeaseUsable /\ call[t] = "idle"
  /\ tok \in write_leases[t] /\ Publishable(t, tok)
  /\ state' = [state EXCEPT ![tok.slot_id] = "Published"]
  /\ EndLease(t, tok)
  /\ NotifyStateChanged
  /\ UNCHANGED <<generation, payload_size, was_cancelled, m_closed, ownerVars,
                 read_leases, callVars, lifetime>>

(* A refused Publish leaves the lease active: its destructor will cancel.  *)
LeaseKept_Mutant(t, tok) ==
  write_leases' = [write_leases EXCEPT ![t] = @ \ {tok}]
LeaseKept(t, tok) == UNCHANGED write_leases

PublishWriteThrows(t, tok) ==
  /\ LeaseUsable /\ call[t] = "idle"
  /\ tok \in write_leases[t] /\ ~Publishable(t, tok)
  /\ LeaseKept(t, tok)
  /\ UNCHANGED <<slotVars, m_closed, ownerVars, read_leases, callVars,
                 state_sleepers, lifetime>>

(* FrameWriteLease::Cancel, also run by its destructor: any failed check   *)
(* terminates the process.                                                 *)
CancelWrite(t, tok) ==
  /\ LeaseUsable /\ call[t] = "idle"
  /\ tok \in write_leases[t]
  /\ IF Writable(t, tok)
     THEN /\ FreeSlot(tok.slot_id, TRUE)
          /\ write_leases' = [write_leases EXCEPT ![t] = @ \ {tok}]
          /\ UNCHANGED lifetime
     ELSE /\ lifetime' = "terminated"
          /\ UNCHANGED <<slotVars, write_leases, state_sleepers>>
  /\ UNCHANGED <<m_closed, ownerVars, read_leases, callVars>>

(* FrameReadLease::Release, also run by its destructor.                    *)
Readable(t, tok) ==
  /\ m_consumer_thread = t
  /\ SlotForToken(tok)
  /\ state[tok.slot_id] = "Reading"

ReleaseRead(t, tok) ==
  /\ LeaseUsable /\ call[t] = "idle"
  /\ tok \in read_leases[t]
  /\ IF Readable(t, tok)
     THEN /\ FreeSlot(tok.slot_id, FALSE)
          /\ read_leases' = [read_leases EXCEPT ![t] = @ \ {tok}]
          /\ UNCHANGED lifetime
     ELSE /\ lifetime' = "terminated"
          /\ UNCHANGED <<slotVars, read_leases, state_sleepers>>
  /\ UNCHANGED <<m_closed, ownerVars, write_leases, callVars>>

-----------------------------------------------------------------------------
(* Close, DiscardPublished and the destructor.                             *)

Close(t) ==
  /\ Entering(t)
  /\ m_closed' = TRUE
  /\ call' = [call EXCEPT ![t] = "Close"]
  /\ UNCHANGED <<slotVars, ownerVars, leaseVars, read_token,
                 m_active_operations, idle_sleepers, state_sleepers, lifetime>>

(* notify_all after the mutex has been released.                           *)
CloseNotifies(t) ==
  /\ call[t] \in {"Close", "DestroyClose"}
  /\ NotifyStateChanged
  /\ call' = [call EXCEPT ![t] =
                IF @ = "Close" THEN "idle" ELSE "DestroyWait"]
  /\ UNCHANGED <<slotVars, m_closed, ownerVars, leaseVars, read_token,
                 m_active_operations, idle_sleepers, lifetime>>

DiscardPublished(t, tok) ==
  /\ Entering(t)
  /\ SlotForToken(tok) /\ MayConsume(t)
  /\ m_closed /\ state[tok.slot_id] = "Published"
  /\ RegisterConsumer(t)
  /\ FreeSlot(tok.slot_id, FALSE)
  /\ UNCHANGED <<m_closed, leaseVars, callVars, lifetime>>

(* The token and the consumer are checked before the slot, so a refused    *)
(* discard may still register the caller as the consumer.                  *)
DiscardPublishedThrows(t, tok) ==
  /\ Entering(t)
  /\ IF SlotForToken(tok) /\ MayConsume(t)
     THEN /\ ~m_closed \/ state[tok.slot_id] # "Published"
          /\ RegisterConsumer(t)
     ELSE UNCHANGED ownerVars
  /\ UNCHANGED <<slotVars, m_closed, leaseVars, callVars, state_sleepers,
                 lifetime>>

(* ~FrameSlotPool: Close, then wait until no operation is in flight.  Its  *)
(* owner starts it when the other threads are at most inside an acquire    *)
(* call, the calls m_active_operations counts.                             *)
Destroy(t) ==
  /\ Entering(t)
  /\ \A u \in Threads : call[u] \in {"idle", "AcquireWrite", "AcquireRead"}
  /\ m_closed' = TRUE
  /\ lifetime' = "destroying"
  /\ call' = [call EXCEPT ![t] = "DestroyClose"]
  /\ UNCHANGED <<slotVars, ownerVars, leaseVars, read_token,
                 m_active_operations, idle_sleepers, state_sleepers>>

DestroySleeps(t) ==
  /\ call[t] = "DestroyWait" /\ t \notin idle_sleepers
  /\ lifetime = "destroying"
  /\ m_active_operations # 0
  /\ idle_sleepers' = idle_sleepers \cup {t}
  /\ UNCHANGED <<slotVars, m_closed, ownerVars, leaseVars, call, read_token,
                 m_active_operations, state_sleepers, lifetime>>

(* A slot that is not free when the pool goes away terminates the process. *)
DestroyFinishes(t) ==
  /\ call[t] = "DestroyWait" /\ t \notin idle_sleepers
  /\ lifetime = "destroying"
  /\ m_active_operations = 0
  /\ lifetime' = IF \A s \in SlotIds : IsFreeSlot(s)
                 THEN "destroyed" ELSE "terminated"
  /\ call' = [call EXCEPT ![t] = "idle"]
  /\ UNCHANGED <<slotVars, m_closed, ownerVars, leaseVars, read_token,
                 m_active_operations, idle_sleepers, state_sleepers>>

(* A condition variable may return without a notification.                 *)
SpuriousWakeUp(t) ==
  /\ lifetime \in {"alive", "destroying"}
  /\ t \in state_sleepers \cup idle_sleepers
  /\ state_sleepers' = state_sleepers \ {t}
  /\ idle_sleepers' = idle_sleepers \ {t}
  /\ UNCHANGED <<slotVars, m_closed, ownerVars, leaseVars, call, read_token,
                 m_active_operations, lifetime>>

-----------------------------------------------------------------------------

Init ==
  /\ state = [s \in SlotIds |-> "Free"]
  /\ generation = [s \in SlotIds |-> 0]
  /\ payload_size = [s \in SlotIds |-> 0]
  /\ was_cancelled = [s \in SlotIds |-> FALSE]
  /\ m_closed = FALSE
  /\ m_producer_thread = NoThread
  /\ m_consumer_thread = NoThread
  /\ m_active_operations = 0
  /\ write_leases = [t \in Threads |-> {}]
  /\ read_leases = [t \in Threads |-> {}]
  /\ call = [t \in Threads |-> "idle"]
  /\ read_token = [t \in Threads |-> InvalidToken]
  /\ state_sleepers = {}
  /\ idle_sleepers = {}
  /\ lifetime = "alive"

WriteStep(t) ==
  \/ \E blocking \in BOOLEAN : \/ AcquireWriteLease(t, blocking)
                               \/ AcquireWriteNothing(t, blocking)
                               \/ AcquireWriteThrows(t, blocking)
  \/ AcquireWriteSleeps(t)

ReadStep(t, tok) ==
  \/ \E blocking \in BOOLEAN : \/ AcquireReadLease(t, tok, blocking)
                               \/ AcquireReadNothing(t, tok, blocking)
                               \/ AcquireReadThrows(t, tok, blocking)
  \/ AcquireReadSleeps(t, tok)
  \/ DiscardPublished(t, tok)
  \/ DiscardPublishedThrows(t, tok)

LeaseStep(t, tok) ==
  \/ \E size \in 0 .. PayloadCapacity : SetPayloadSize(t, tok, size)
  \/ PublishWrite(t, tok) \/ PublishWriteThrows(t, tok)
  \/ CancelWrite(t, tok) \/ ReleaseRead(t, tok)

ShutdownStep(t) ==
  \/ Close(t) \/ CloseNotifies(t)
  \/ Destroy(t) \/ DestroySleeps(t) \/ DestroyFinishes(t)

Next ==
  \E t \in Threads :
    \/ WriteStep(t)
    \/ \E tok \in KnownTokens : ReadStep(t, tok)
    \/ \E tok \in write_leases[t] \cup read_leases[t] : LeaseStep(t, tok)
    \/ ShutdownStep(t)
    \/ SpuriousWakeUp(t)

(* A woken thread gets the mutex and leaves the call or goes back to       *)
(* sleep, and a thread inside Close or the destructor carries on.          *)
Resumes(t) ==
  /\ call[t] # "idle"
  /\ \/ WriteStep(t) \/ ReadStep(t, read_token[t]) \/ ShutdownStep(t)

Fairness == \A t \in Threads : WF_vars(Resumes(t))

SafetySpec == Init /\ [][Next]_vars
Spec == SafetySpec /\ Fairness

-----------------------------------------------------------------------------
(* Properties.                                                             *)

(* Each variable keeps the type of the member it models.                   *)
TypeOK ==
  /\ state \in [SlotIds -> SlotStates]
  /\ generation \in [SlotIds -> 0 .. MaxGeneration]
  /\ payload_size \in [SlotIds -> 0 .. PayloadCapacity]
  /\ was_cancelled \in [SlotIds -> BOOLEAN]
  /\ m_closed \in BOOLEAN
  /\ m_producer_thread \in Threads \cup {NoThread}
  /\ m_consumer_thread \in Threads \cup {NoThread}
  /\ m_active_operations \in Nat
  /\ write_leases \in [Threads -> SUBSET Token]
  /\ read_leases \in [Threads -> SUBSET Token]
  /\ call \in [Threads -> CallStates]
  /\ read_token \in [Threads -> Token]
  /\ state_sleepers \subseteq Threads
  /\ idle_sleepers \subseteq Threads
  /\ lifetime \in {"alive", "destroying", "destroyed", "terminated"}

(* The use of the slot tok names is the current one, and in this state.    *)
AtGeneration(tok, st) ==
  /\ tok.generation # 0
  /\ generation[tok.slot_id] = tok.generation
  /\ state[tok.slot_id] = st

(* Every active lease passes the checks of Cancel and Release: its slot is *)
(* in the matching state, at the lease's generation, and its holder is the *)
(* registered owner, so the noexcept lease destructors never reach         *)
(* std::terminate.                                                         *)
LeasesValid ==
  \A t \in Threads :
    /\ \A tok \in write_leases[t] :
         m_producer_thread = t /\ AtGeneration(tok, "Writing")
    /\ \A tok \in read_leases[t] :
         m_consumer_thread = t /\ AtGeneration(tok, "Reading")

(* A slot in use is reachable: while it is being written or read some      *)
(* thread holds the lease that will free it, so no exception path or close *)
(* leaks a slot.                                                           *)
NoLeakedSlot ==
  \A s \in SlotIds :
    /\ state[s] = "Writing" => \E t \in Threads : TokenOf(s) \in write_leases[t]
    /\ state[s] = "Reading" => \E t \in Threads : TokenOf(s) \in read_leases[t]

(* The threads m_active_operations has to count.                           *)
InOperation == {t \in Threads : call[t] \in {"AcquireWrite", "AcquireRead"}}

(* Every path out of an acquire call, exceptions included, gives back its  *)
(* operation exactly once: EndOperationLocked never underflows and the     *)
(* destructor waits for all the sleepers and only for them.                *)
OperationsCounted == m_active_operations = Cardinality(InOperation)

(* Leases, slots and operations account for each other: a lease its        *)
(* destructor can give back for every slot in use, an operation for every  *)
(* thread in an acquire call (lease classes, Cancel, Release,              *)
(* EndOperationLocked).                                                    *)
SlotsAccounted == LeasesValid /\ NoLeakedSlot /\ OperationsCounted

(* notify_all of Close is still to come.                                   *)
NotificationPending == \E u \in Threads : call[u] \in {"Close", "DestroyClose"}

(* No wake-up is lost: a thread asleep in AcquireWrite has no free slot    *)
(* and one asleep in AcquireRead waits for a slot still being written at   *)
(* the generation of its token, unless the pool is closed and Close has    *)
(* yet to notify.                                                          *)
NoLostWakeUp ==
  \A t \in state_sleepers :
    /\ call[t] \in {"AcquireWrite", "AcquireRead"}
    /\ m_closed => NotificationPending
    /\ call[t] = "AcquireWrite" => ~HasFreeSlot
    /\ call[t] = "AcquireRead" =>
         AtGeneration(read_token[t], "Writing")

(* Once closed, a slot only drains: a free slot stays free and nothing is  *)
(* published any more; published slots are read or discarded and leases    *)
(* cancel or release.                                                      *)
CloseOnlyDrains ==
  [][m_closed =>
       /\ m_closed'
       /\ \A s \in SlotIds :
            /\ state[s] = "Free" => state'[s] = "Free"
            /\ state'[s] = "Published" => state[s] = "Published"
            /\ generation'[s] = generation[s]]_vars

(* A token is good for one use of its slot: the generation never goes back *)
(* and a slot never leaves Free without a new one, so a stale token is     *)
(* rejected forever.                                                       *)
TokensNeverRevive ==
  [][\A s \in SlotIds :
       /\ generation'[s] >= generation[s]
       /\ state[s] = "Free" /\ state'[s] # "Free"
            => generation'[s] > generation[s]]_vars

(* From publication to release the consumer sees the payload the producer  *)
(* published.                                                              *)
PublishedPayloadFrozen ==
  [][\A s \in SlotIds :
       /\ state[s] \in {"Published", "Reading"}
       /\ state'[s] \in {"Published", "Reading"}
       => payload_size'[s] = payload_size[s]]_vars

(* Only the destructor, and only when it finds a slot still in use, ends   *)
(* the process: the noexcept lease destructors and EndOperationLocked      *)
(* never reach their std::terminate.                                       *)
OnlyDestructorTerminates ==
  [][lifetime' = "terminated" /\ lifetime # "terminated"
       => /\ lifetime = "destroying" /\ m_active_operations = 0
          /\ \E s \in SlotIds : state[s] # "Free"]_vars

(* Closing the pool gets every blocked acquire call to return.             *)
CloseWakesEveryone == m_closed ~> (InOperation = {})

(* The destructor ends: no operation in flight keeps it waiting.           *)
DestructorEnds ==
  (lifetime = "destroying") ~> (lifetime \in {"destroyed", "terminated"})

(* Close and the destructor bring the pool to rest: every acquire call     *)
(* returns, and the destructor that waits for them ends.                   *)
CloseEnds == CloseWakesEveryone /\ DestructorEnds

=============================================================================
