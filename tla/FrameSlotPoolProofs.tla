------------------------- MODULE FrameSlotPoolProofs -------------------------
(***************************************************************************)
(* Proofs about FrameSlotPool, for every number of threads, slots and      *)
(* generations.  The invariants of the module are proved together, as one  *)
(* inductive invariant: leases need the owners registered, the owners need *)
(* to know which calls sleep, and the sleepers need the slot states.       *)
(***************************************************************************)
EXTENDS FrameSlotPool, FiniteSetTheorems, TLAPS

(* A thread asleep in, or woken inside, an acquire call is the registered  *)
(* owner of that side: registration precedes the wait.                     *)
CallersRegistered ==
  \A t \in Threads :
    /\ call[t] = "AcquireWrite" => m_producer_thread = t
    /\ call[t] = "AcquireRead" => m_consumer_thread = t

(* The inductive invariant.                                                *)
IInv ==
  /\ TypeOK
  /\ LeasesValid
  /\ NoLeakedSlot
  /\ OperationsCounted
  /\ NoLostWakeUp
  /\ CallersRegistered

-----------------------------------------------------------------------------
(* Facts about the helpers.                                                *)

(* The threads an operation count ranges over form a finite set.           *)
LEMMA InOperationFinite ==
  /\ IsFiniteSet(InOperation)
  /\ Cardinality(InOperation) \in Nat
<1>1. InOperation \subseteq Threads
  BY DEF InOperation
<1>2. IsFiniteSet(InOperation)
  BY <1>1, PoolAssumption, FS_Subset
<1> QED
  BY <1>2, FS_CardinalityType

(* Every token a caller can hold is a token.                               *)
LEMMA KnownTokensTyped ==
  ASSUME TypeOK, NEW tok \in KnownTokens
  PROVE  tok \in Token
<1>1. 0 \in SlotIds
  BY PoolAssumption DEF SlotIds
<1>2. CASE tok = InvalidToken
  BY <1>1, <1>2, PoolAssumption DEF InvalidToken, Token
<1>3. CASE tok # InvalidToken
  <2>1. PICK s \in SlotIds :
          tok \in {[slot_id |-> s, generation |-> g] : g \in 1 .. generation[s]}
    BY <1>3 DEF KnownTokens
  <2>2. PICK g \in 1 .. generation[s] : tok = [slot_id |-> s, generation |-> g]
    BY <2>1
  <2>3. generation[s] \in 0 .. MaxGeneration
    BY DEF TypeOK
  <2>4. g \in 0 .. MaxGeneration
    BY <2>2, <2>3, PoolAssumption
  <2> QED
    BY <2>2, <2>4 DEF Token
<1> QED
  BY <1>2, <1>3

(* A call that ends gives its operation back once: the count stays the     *)
(* number of threads inside an acquire call, and it never underflows.      *)
LEMMA OperationEnds ==
  ASSUME IInv, NEW t \in Threads,
         call[t] \in {"idle", "AcquireWrite", "AcquireRead"},
         EndOperation(t)
  PROVE  /\ m_active_operations' \in Nat
         /\ OperationsCounted'
         /\ call' = [call EXCEPT ![t] = "idle"]
         /\ call' \in [Threads -> CallStates]
         /\ idle_sleepers' \subseteq Threads
         /\ lifetime' = lifetime
         /\ read_token' = read_token
<1>1. /\ m_active_operations = Cardinality(InOperation)
      /\ m_active_operations \in Nat
      /\ call \in [Threads -> CallStates]
      /\ idle_sleepers \subseteq Threads
  BY DEF IInv, TypeOK, OperationsCounted
<1>2. call' = [call EXCEPT ![t] = "idle"] /\ read_token' = read_token
  BY DEF EndOperation
<1>3. InOperation' = InOperation \ {t}
  BY <1>1, <1>2 DEF InOperation
<1>4. idle_sleepers' \subseteq Threads
  BY <1>1 DEF EndOperation, NotifyIdle
<1>5. CASE call[t] = "idle"
  <2>1. t \notin InOperation
    BY <1>5 DEF InOperation
  <2>2. InOperation' = InOperation
    BY <2>1, <1>3
  <2>3. Operations(t) = m_active_operations + 1
    BY <1>5 DEF Operations
  <2>4. m_active_operations' = m_active_operations /\ lifetime' = lifetime
    BY <2>3, <1>1 DEF EndOperation
  <2> QED
    BY <1>1, <1>2, <1>4, <2>2, <2>4 DEF OperationsCounted, CallStates
<1>6. CASE call[t] # "idle"
  <2>1. t \in InOperation
    BY <1>6 DEF InOperation
  <2>2. Cardinality(InOperation') = Cardinality(InOperation) - 1
    BY <1>3, <2>1, InOperationFinite, FS_RemoveElement
  <2>3. Cardinality(InOperation) # 0
    BY <2>1, InOperationFinite, FS_EmptySet
  <2>4. Operations(t) = m_active_operations
    BY <1>1, <1>6 DEF Operations
  <2>5. m_active_operations' = m_active_operations - 1 /\ lifetime' = lifetime
    BY <1>1, <2>3, <2>4 DEF EndOperation
  <2>6. m_active_operations' \in Nat /\ OperationsCounted'
    BY <1>1, <2>2, <2>3, <2>5, InOperationFinite DEF OperationsCounted
  <2> QED
    BY <1>1, <1>2, <1>4, <2>5, <2>6 DEF CallStates
<1> QED
  BY <1>5, <1>6

(* A call that goes to sleep holds exactly one operation.                  *)
LEMMA OperationSleeps ==
  ASSUME IInv, NEW t \in Threads, NEW name \in {"AcquireWrite", "AcquireRead"},
         call[t] \in {"idle", name},
         SleepInOperation(t, name)
  PROVE  /\ m_active_operations' \in Nat
         /\ OperationsCounted'
         /\ call' = [call EXCEPT ![t] = name]
         /\ call' \in [Threads -> CallStates]
<1>1. /\ m_active_operations = Cardinality(InOperation)
      /\ m_active_operations \in Nat
      /\ call \in [Threads -> CallStates]
  BY DEF IInv, TypeOK, OperationsCounted
<1>2. /\ call' = [call EXCEPT ![t] = name]
      /\ call' \in [Threads -> CallStates]
  BY <1>1 DEF SleepInOperation, CallStates
<1>3. InOperation' = InOperation \cup {t}
  BY <1>1, <1>2 DEF InOperation
<1>4. CASE call[t] = "idle"
  <2>1. t \notin InOperation
    BY <1>4 DEF InOperation
  <2>2. Cardinality(InOperation') = Cardinality(InOperation) + 1
    BY <1>3, <2>1, InOperationFinite, FS_AddElement
  <2>3. m_active_operations' = m_active_operations + 1
    BY <1>4 DEF SleepInOperation, Operations
  <2> QED
    BY <1>1, <1>2, <2>2, <2>3 DEF OperationsCounted
<1>5. CASE call[t] # "idle"
  <2>1. InOperation' = InOperation
    BY <1>3, <1>5 DEF InOperation
  <2>2. m_active_operations' = m_active_operations
    BY <1>1, <1>5 DEF SleepInOperation, Operations
  <2> QED
    BY <1>1, <1>2, <2>1, <2>2 DEF OperationsCounted
<1> QED
  BY <1>4, <1>5

-----------------------------------------------------------------------------
(* Owners.                                                                 *)

(* A registered owner is never replaced.                                   *)
OwnersKept ==
  /\ m_producer_thread' \in Threads \cup {NoThread}
  /\ m_consumer_thread' \in Threads \cup {NoThread}
  /\ m_producer_thread \in Threads => m_producer_thread' = m_producer_thread
  /\ m_consumer_thread \in Threads => m_consumer_thread' = m_consumer_thread

(* A thread that is in no call does not sleep.                             *)
LEMMA IdleIsAwake ==
  ASSUME IInv, NEW t \in Threads,
         call[t] \notin {"AcquireWrite", "AcquireRead"}
  PROVE  t \notin state_sleepers
BY DEF IInv, NoLostWakeUp

(* Whoever tests in AcquireWrite is awake and may register as producer.    *)
LEMMA WriteTests ==
  ASSUME IInv, NEW t \in Threads, NEW blocking \in BOOLEAN,
         AcquireWriteTests(t, blocking), RegisterProducer(t)
  PROVE  /\ OwnersKept /\ m_producer_thread' = t
         /\ call[t] \in {"idle", "AcquireWrite"}
         /\ t \notin state_sleepers
<1>1. /\ m_producer_thread \in Threads \cup {NoThread}
      /\ m_consumer_thread \in Threads \cup {NoThread}
  BY DEF IInv, TypeOK
<1>2. CASE Entering(t) /\ MayProduce(t)
  BY <1>1, <1>2, PoolAssumption, IdleIsAwake
  DEF OwnersKept, RegisterProducer, Entering, MayProduce
<1>3. CASE Woken(t, "AcquireWrite")
  BY <1>1, <1>3 DEF OwnersKept, RegisterProducer, Woken, IInv,
                    CallersRegistered
<1> QED
  BY <1>2, <1>3 DEF AcquireWriteTests

(* Whoever tests in AcquireRead is awake and may register as consumer.     *)
LEMMA ReadTests ==
  ASSUME IInv, NEW t \in Threads, NEW tok, NEW blocking \in BOOLEAN,
         AcquireReadTests(t, tok, blocking), RegisterConsumer(t)
  PROVE  /\ OwnersKept /\ m_consumer_thread' = t
         /\ call[t] \in {"idle", "AcquireRead"}
         /\ t \notin state_sleepers
<1>1. /\ m_producer_thread \in Threads \cup {NoThread}
      /\ m_consumer_thread \in Threads \cup {NoThread}
  BY DEF IInv, TypeOK
<1>2. CASE Entering(t) /\ SlotForToken(tok) /\ MayConsume(t)
  BY <1>1, <1>2, PoolAssumption, IdleIsAwake
  DEF OwnersKept, RegisterConsumer, Entering, MayConsume
<1>3. CASE Woken(t, "AcquireRead")
  BY <1>1, <1>3 DEF OwnersKept, RegisterConsumer, Woken, IInv,
                    CallersRegistered
<1> QED
  BY <1>2, <1>3 DEF AcquireReadTests

(* A call that returns without a lease only ends its operation.            *)
LEMMA CallReturnsNothing ==
  ASSUME IInv, NEW t \in Threads,
         call[t] \in {"idle", "AcquireWrite", "AcquireRead"},
         t \notin state_sleepers, OwnersKept, EndOperation(t),
         UNCHANGED <<slotVars, m_closed, leaseVars, state_sleepers>>
  PROVE  IInv' /\ lifetime' = lifetime
<1> USE OperationEnds
<1>1. TypeOK'
  BY DEF IInv, TypeOK, OwnersKept, slotVars, leaseVars
<1>2. LeasesValid'
  BY DEF IInv, TypeOK, LeasesValid, AtGeneration, OwnersKept, slotVars,
         leaseVars
<1>3. NoLeakedSlot'
  BY DEF IInv, NoLeakedSlot, TokenOf, slotVars, leaseVars
<1>4. NoLostWakeUp'
  BY DEF IInv, TypeOK, NoLostWakeUp, NotificationPending, HasFreeSlot,
         IsFreeSlot, AtGeneration, slotVars
<1>5. CallersRegistered'
  BY DEF IInv, TypeOK, CallersRegistered, OwnersKept
<1> QED
  BY <1>1, <1>2, <1>3, <1>4, <1>5 DEF IInv

-----------------------------------------------------------------------------
(* One lemma per action: it preserves the inductive invariant.             *)

(* A write lease takes a free slot to a new generation.                    *)
LEMMA AcquireWriteLeaseStep ==
  ASSUME IInv, NEW t \in Threads, NEW blocking \in BOOLEAN,
         AcquireWriteLease(t, blocking)
  PROVE  IInv' /\ lifetime' = lifetime
<1>1. /\ OwnersKept /\ m_producer_thread' = t
      /\ call[t] \in {"idle", "AcquireWrite"}
      /\ t \notin state_sleepers
  BY WriteTests DEF AcquireWriteLease
<1>2. /\ m_active_operations' \in Nat
      /\ OperationsCounted'
      /\ call' = [call EXCEPT ![t] = "idle"]
      /\ call' \in [Threads -> CallStates]
      /\ idle_sleepers' \subseteq Threads
      /\ lifetime' = lifetime
      /\ read_token' = read_token
  BY <1>1, OperationEnds DEF AcquireWriteLease
<1>3. PICK s \in SlotIds :
        /\ FindFreeSlot(s)
        /\ generation[s] < MaxGeneration
        /\ generation' = [generation EXCEPT ![s] = generation[s] + 1]
        /\ payload_size' = [payload_size EXCEPT ![s] = 0]
        /\ was_cancelled' = [was_cancelled EXCEPT ![s] = FALSE]
        /\ state' = [state EXCEPT ![s] = "Writing"]
        /\ write_leases' =
             [write_leases EXCEPT ![t] =
                @ \cup {[slot_id |-> s, generation |-> generation[s] + 1]}]
  BY DEF AcquireWriteLease, TakeFreeSlot, NextGeneration, Unexhausted
<1>4. /\ UNCHANGED <<m_closed, read_leases, state_sleepers>>
      /\ state[s] = "Free"
  BY <1>3 DEF AcquireWriteLease, FindFreeSlot, IsFreeSlot
<1>5. generation[s] \in 0 .. MaxGeneration /\ generation[s] + 1 \in 1 .. MaxGeneration
  BY <1>3, PoolAssumption DEF IInv, TypeOK
<1>6. [slot_id |-> s, generation |-> generation[s] + 1] \in Token
  BY <1>5, PoolAssumption DEF Token
<1>7. TypeOK'
  BY <1>1, <1>2, <1>3, <1>4, <1>5, <1>6, PoolAssumption
  DEF IInv, TypeOK, OwnersKept, SlotStates
<1>8. LeasesValid'
  <2> SUFFICES ASSUME NEW u \in Threads
               PROVE  /\ \A tok \in write_leases'[u] :
                           m_producer_thread' = u /\ AtGeneration(tok, "Writing")'
                      /\ \A tok \in read_leases'[u] :
                           m_consumer_thread' = u /\ AtGeneration(tok, "Reading")'
    BY DEF LeasesValid
  <2>1. ASSUME NEW tok \in write_leases'[u]
        PROVE  m_producer_thread' = u /\ AtGeneration(tok, "Writing")'
    <3>1. CASE tok \in write_leases[u]
      BY <3>1, <1>1, <1>3, <1>4, <1>5
      DEF IInv, TypeOK, LeasesValid, AtGeneration, OwnersKept, Token
    <3>2. CASE u = t /\ tok = [slot_id |-> s, generation |-> generation[s] + 1]
      BY <3>2, <1>1, <1>3, <1>5 DEF IInv, TypeOK, AtGeneration
    <3> QED
      BY <3>1, <3>2, <1>3 DEF IInv, TypeOK
  <2>2. ASSUME NEW tok \in read_leases'[u]
        PROVE  m_consumer_thread' = u /\ AtGeneration(tok, "Reading")'
    BY <2>2, <1>1, <1>3, <1>4
    DEF IInv, TypeOK, LeasesValid, AtGeneration, OwnersKept, Token
  <2> QED
    BY <2>1, <2>2
<1>9. NoLeakedSlot'
  <2> SUFFICES ASSUME NEW r \in SlotIds
               PROVE  /\ state'[r] = "Writing" =>
                           \E u \in Threads : TokenOf(r)' \in write_leases'[u]
                      /\ state'[r] = "Reading" =>
                           \E u \in Threads : TokenOf(r)' \in read_leases'[u]
    BY DEF NoLeakedSlot
  <2>1. CASE r = s
    BY <2>1, <1>3 DEF IInv, TypeOK, TokenOf
  <2>2. CASE r # s
    BY <2>2, <1>3, <1>4 DEF IInv, TypeOK, NoLeakedSlot, TokenOf
  <2> QED
    BY <2>1, <2>2
<1>10. NoLostWakeUp'
  BY <1>1, <1>2, <1>3, <1>4
  DEF IInv, TypeOK, NoLostWakeUp, NotificationPending, HasFreeSlot,
      IsFreeSlot, AtGeneration, Token
<1>11. CallersRegistered'
  BY <1>1, <1>2 DEF IInv, TypeOK, CallersRegistered, OwnersKept
<1> QED
  BY <1>2, <1>7, <1>8, <1>9, <1>10, <1>11 DEF IInv

(* A write call that returns nothing or throws.                            *)
LEMMA AcquireWriteEndsStep ==
  ASSUME IInv, NEW t \in Threads, NEW blocking \in BOOLEAN,
         AcquireWriteNothing(t, blocking) \/ AcquireWriteThrows(t, blocking)
  PROVE  IInv' /\ lifetime' = lifetime
<1>1. /\ OwnersKept
      /\ call[t] \in {"idle", "AcquireWrite"}
      /\ t \notin state_sleepers
  <2>1. CASE AcquireWriteTests(t, blocking) /\ RegisterProducer(t)
    BY <2>1, WriteTests
  <2>2. CASE Entering(t) /\ UNCHANGED ownerVars
    BY <2>2, IdleIsAwake DEF Entering, ownerVars, OwnersKept, IInv, TypeOK
  <2> QED
    BY <2>1, <2>2 DEF AcquireWriteNothing, AcquireWriteThrows
<1> QED
  BY <1>1, CallReturnsNothing DEF AcquireWriteNothing, AcquireWriteThrows

(* A read call that returns nothing or throws.                             *)
LEMMA AcquireReadEndsStep ==
  ASSUME IInv, NEW t \in Threads, NEW tok, NEW blocking \in BOOLEAN,
         AcquireReadNothing(t, tok, blocking)
           \/ AcquireReadThrows(t, tok, blocking)
  PROVE  IInv' /\ lifetime' = lifetime
<1>1. /\ OwnersKept
      /\ call[t] \in {"idle", "AcquireRead"}
      /\ t \notin state_sleepers
  <2>1. CASE AcquireReadTests(t, tok, blocking) /\ RegisterConsumer(t)
    BY <2>1, ReadTests
  <2>2. CASE Entering(t) /\ UNCHANGED ownerVars
    BY <2>2, IdleIsAwake DEF Entering, ownerVars, OwnersKept, IInv, TypeOK
  <2> QED
    BY <2>1, <2>2 DEF AcquireReadNothing, AcquireReadThrows
<1> QED
  BY <1>1, CallReturnsNothing DEF AcquireReadNothing, AcquireReadThrows

(* A thread goes to sleep only when its wait predicate is false.           *)
LEMMA AcquireWriteSleepsStep ==
  ASSUME IInv, NEW t \in Threads, AcquireWriteSleeps(t)
  PROVE  IInv' /\ lifetime' = lifetime
<1>1. /\ OwnersKept /\ m_producer_thread' = t
      /\ call[t] \in {"idle", "AcquireWrite"}
  BY WriteTests DEF AcquireWriteSleeps
<1>2. /\ m_active_operations' \in Nat
      /\ OperationsCounted'
      /\ call' = [call EXCEPT ![t] = "AcquireWrite"]
      /\ call' \in [Threads -> CallStates]
  BY <1>1, OperationSleeps DEF AcquireWriteSleeps
<1>3. /\ state_sleepers' = state_sleepers \cup {t}
      /\ UNCHANGED <<slotVars, m_closed, leaseVars, read_token, idle_sleepers,
                     lifetime>>
      /\ ~m_closed /\ ~HasFreeSlot
  BY DEF AcquireWriteSleeps, SleepInOperation
<1>4. TypeOK'
  BY <1>1, <1>2, <1>3 DEF IInv, TypeOK, OwnersKept, slotVars, leaseVars
<1>5. LeasesValid' /\ NoLeakedSlot'
  BY <1>1, <1>3
  DEF IInv, TypeOK, LeasesValid, NoLeakedSlot, TokenOf, AtGeneration,
      OwnersKept, slotVars, leaseVars
<1>6. NoLostWakeUp'
  BY <1>1, <1>2, <1>3
  DEF IInv, TypeOK, NoLostWakeUp, NotificationPending, HasFreeSlot,
      IsFreeSlot, AtGeneration, slotVars
<1>7. CallersRegistered'
  BY <1>1, <1>2 DEF IInv, TypeOK, CallersRegistered, OwnersKept
<1> QED
  BY <1>2, <1>3, <1>4, <1>5, <1>6, <1>7 DEF IInv

(* A reader sleeps only while the slot of its token is being written.      *)
LEMMA AcquireReadSleepsStep ==
  ASSUME IInv, NEW t \in Threads, NEW tok \in Token, AcquireReadSleeps(t, tok)
  PROVE  IInv' /\ lifetime' = lifetime
<1>1. /\ OwnersKept /\ m_consumer_thread' = t
      /\ call[t] \in {"idle", "AcquireRead"}
  BY ReadTests DEF AcquireReadSleeps
<1>2. /\ m_active_operations' \in Nat
      /\ OperationsCounted'
      /\ call' = [call EXCEPT ![t] = "AcquireRead"]
      /\ call' \in [Threads -> CallStates]
  BY <1>1, OperationSleeps DEF AcquireReadSleeps
<1>3. /\ state_sleepers' = state_sleepers \cup {t}
      /\ read_token' = [read_token EXCEPT ![t] = tok]
      /\ UNCHANGED <<slotVars, m_closed, leaseVars, idle_sleepers, lifetime>>
      /\ ~m_closed /\ AtGeneration(tok, "Writing")
  BY DEF AcquireReadSleeps, SleepInOperation, SlotForToken, AtGeneration
<1>4. TypeOK'
  BY <1>1, <1>2, <1>3 DEF IInv, TypeOK, OwnersKept, slotVars, leaseVars
<1>5. LeasesValid' /\ NoLeakedSlot'
  BY <1>1, <1>3
  DEF IInv, TypeOK, LeasesValid, NoLeakedSlot, TokenOf, AtGeneration,
      OwnersKept, slotVars, leaseVars
<1>6. NoLostWakeUp'
  BY <1>1, <1>2, <1>3
  DEF IInv, TypeOK, NoLostWakeUp, NotificationPending, HasFreeSlot,
      IsFreeSlot, AtGeneration, slotVars
<1>7. CallersRegistered'
  BY <1>1, <1>2 DEF IInv, TypeOK, CallersRegistered, OwnersKept
<1> QED
  BY <1>2, <1>3, <1>4, <1>5, <1>6, <1>7 DEF IInv

(* A read lease takes a published slot.                                    *)
LEMMA AcquireReadLeaseStep ==
  ASSUME IInv, NEW t \in Threads, NEW tok \in Token, NEW blocking \in BOOLEAN,
         AcquireReadLease(t, tok, blocking)
  PROVE  IInv' /\ lifetime' = lifetime
<1>1. /\ OwnersKept /\ m_consumer_thread' = t
      /\ call[t] \in {"idle", "AcquireRead"}
      /\ t \notin state_sleepers
  BY ReadTests DEF AcquireReadLease
<1>2. /\ m_active_operations' \in Nat
      /\ OperationsCounted'
      /\ call' = [call EXCEPT ![t] = "idle"]
      /\ call' \in [Threads -> CallStates]
      /\ idle_sleepers' \subseteq Threads
      /\ lifetime' = lifetime
      /\ read_token' = read_token
  BY <1>1, OperationEnds DEF AcquireReadLease
<1>3. /\ AtGeneration(tok, "Published")
      /\ state' = [state EXCEPT ![tok.slot_id] = "Reading"]
      /\ read_leases' = [read_leases EXCEPT ![t] = @ \cup {tok}]
      /\ UNCHANGED <<generation, payload_size, was_cancelled, m_closed,
                     write_leases, state_sleepers>>
  BY DEF AcquireReadLease, SlotForToken, AtGeneration, StartReading
<1>4. TypeOK'
  BY <1>1, <1>2, <1>3 DEF IInv, TypeOK, OwnersKept, SlotStates, Token
<1>5. LeasesValid'
  BY <1>1, <1>3 DEF IInv, TypeOK, LeasesValid, AtGeneration, OwnersKept, Token
<1>6. NoLeakedSlot'
  <2> SUFFICES ASSUME NEW r \in SlotIds
               PROVE  /\ state'[r] = "Writing" =>
                           \E u \in Threads : TokenOf(r)' \in write_leases'[u]
                      /\ state'[r] = "Reading" =>
                           \E u \in Threads : TokenOf(r)' \in read_leases'[u]
    BY DEF NoLeakedSlot
  <2>1. CASE r = tok.slot_id
    <3>1. TokenOf(r)' = tok
      BY <2>1, <1>3 DEF TokenOf, Token, AtGeneration
    <3> QED
      BY <2>1, <3>1, <1>3 DEF IInv, TypeOK
  <2>2. CASE r # tok.slot_id
    BY <2>2, <1>3 DEF IInv, TypeOK, NoLeakedSlot, TokenOf
  <2> QED
    BY <2>1, <2>2
<1>7. NoLostWakeUp'
  BY <1>1, <1>2, <1>3
  DEF IInv, TypeOK, NoLostWakeUp, NotificationPending, HasFreeSlot,
      IsFreeSlot, AtGeneration, Token
<1>8. CallersRegistered'
  BY <1>1, <1>2 DEF IInv, TypeOK, CallersRegistered, OwnersKept
<1> QED
  BY <1>2, <1>4, <1>5, <1>6, <1>7, <1>8 DEF IInv

(* A lease is the only one on its slot.                                    *)
LEMMA LeasesDisjoint ==
  ASSUME IInv, NEW t \in Threads, NEW u \in Threads
  PROVE  /\ \A tok \in write_leases[t], other \in write_leases[u] :
              tok.slot_id = other.slot_id => t = u /\ tok = other
         /\ \A tok \in read_leases[t], other \in read_leases[u] :
              tok.slot_id = other.slot_id => t = u /\ tok = other
         /\ \A tok \in write_leases[t], other \in read_leases[u] :
              tok.slot_id # other.slot_id
<1>1. /\ write_leases[t] \subseteq Token /\ write_leases[u] \subseteq Token
      /\ read_leases[t] \subseteq Token /\ read_leases[u] \subseteq Token
  BY DEF IInv, TypeOK
<1>2. \A a, b \in Token :
        a.slot_id = b.slot_id /\ a.generation = b.generation => a = b
  BY DEF Token
<1>3. ASSUME NEW tok \in write_leases[t], NEW other \in write_leases[u],
             tok.slot_id = other.slot_id
      PROVE  t = u /\ tok = other
  BY <1>1, <1>2, <1>3 DEF IInv, LeasesValid, AtGeneration
<1>4. ASSUME NEW tok \in read_leases[t], NEW other \in read_leases[u],
             tok.slot_id = other.slot_id
      PROVE  t = u /\ tok = other
  BY <1>1, <1>2, <1>4 DEF IInv, LeasesValid, AtGeneration
<1>5. ASSUME NEW tok \in write_leases[t], NEW other \in read_leases[u]
      PROVE  tok.slot_id # other.slot_id
  BY DEF IInv, LeasesValid, AtGeneration
<1> QED
  BY <1>3, <1>4, <1>5

(* Setting the payload size touches nothing the invariant speaks of but    *)
(* the size.                                                               *)
LEMMA SetPayloadSizeStep ==
  ASSUME IInv, NEW t \in Threads, NEW tok \in Token,
         NEW size \in 0 .. PayloadCapacity, SetPayloadSize(t, tok, size)
  PROVE  IInv'
<1>1. /\ payload_size' = [payload_size EXCEPT ![tok.slot_id] = size]
      /\ UNCHANGED <<state, generation, was_cancelled, m_closed, ownerVars,
                     leaseVars, callVars, state_sleepers, lifetime>>
  BY DEF SetPayloadSize
<1>2. TypeOK'
  BY <1>1 DEF IInv, TypeOK, ownerVars, leaseVars, callVars
<1>3. LeasesValid' /\ NoLeakedSlot'
  BY <1>1 DEF IInv, LeasesValid, NoLeakedSlot, AtGeneration, TokenOf,
              ownerVars, leaseVars
<1>4. OperationsCounted' /\ CallersRegistered'
  BY <1>1 DEF IInv, OperationsCounted, InOperation, CallersRegistered,
              ownerVars, callVars
<1>5. NoLostWakeUp'
  BY <1>1 DEF IInv, NoLostWakeUp, NotificationPending, HasFreeSlot,
              IsFreeSlot, AtGeneration, callVars
<1> QED
  BY <1>2, <1>3, <1>4, <1>5 DEF IInv

(* Publishing ends the lease together with the Writing state.              *)
LEMMA PublishWriteStep ==
  ASSUME IInv, NEW t \in Threads, NEW tok \in Token, PublishWrite(t, tok)
  PROVE  IInv'
<1>1. /\ tok \in write_leases[t]
      /\ state' = [state EXCEPT ![tok.slot_id] = "Published"]
      /\ write_leases' = [write_leases EXCEPT ![t] = @ \ {tok}]
      /\ state_sleepers' = {}
      /\ UNCHANGED <<generation, payload_size, was_cancelled, m_closed,
                     ownerVars, read_leases, callVars, lifetime>>
  BY DEF PublishWrite, EndLease, NotifyStateChanged
<1>2. TypeOK'
  BY <1>1 DEF IInv, TypeOK, SlotStates, Token, ownerVars, callVars
<1>3. LeasesValid'
  BY <1>1, LeasesDisjoint
  DEF IInv, TypeOK, LeasesValid, AtGeneration, Token, ownerVars
<1>4. NoLeakedSlot'
  BY <1>1 DEF IInv, TypeOK, NoLeakedSlot, TokenOf
<1>5. OperationsCounted' /\ NoLostWakeUp' /\ CallersRegistered'
  BY <1>1 DEF IInv, OperationsCounted, InOperation, NoLostWakeUp,
              CallersRegistered, ownerVars, callVars
<1> QED
  BY <1>2, <1>3, <1>4, <1>5 DEF IInv

(* A refused Publish changes nothing.                                      *)
LEMMA UnchangedStep ==
  ASSUME IInv, UNCHANGED vars
  PROVE  IInv'
BY DEF IInv, TypeOK, LeasesValid, NoLeakedSlot, OperationsCounted,
       NoLostWakeUp, CallersRegistered, AtGeneration, TokenOf, InOperation,
       NotificationPending, HasFreeSlot, IsFreeSlot, vars, slotVars,
       ownerVars, leaseVars, callVars

(* Freeing a slot, by the holder of its lease or when no lease is on it.   *)
LEMMA CancelWriteStep ==
  ASSUME IInv, NEW t \in Threads, NEW tok \in Token, CancelWrite(t, tok)
  PROVE  IInv' /\ lifetime' = lifetime
<1>1. tok \in write_leases[t] /\ Writable(t, tok)
  BY DEF CancelWrite, IInv, LeasesValid, Writable, AtGeneration, SlotForToken
<1>2. /\ payload_size' = [payload_size EXCEPT ![tok.slot_id] = 0]
      /\ was_cancelled' = [was_cancelled EXCEPT ![tok.slot_id] = TRUE]
      /\ state' = [state EXCEPT ![tok.slot_id] = "Free"]
      /\ write_leases' = [write_leases EXCEPT ![t] = @ \ {tok}]
      /\ state_sleepers' = {}
      /\ UNCHANGED <<generation, m_closed, ownerVars, read_leases, callVars,
                     lifetime>>
  BY <1>1 DEF CancelWrite, FreeSlot, NotifyStateChanged
<1>3. TypeOK'
  BY <1>2, PoolAssumption
  DEF IInv, TypeOK, SlotStates, Token, ownerVars, callVars
<1>4. LeasesValid'
  BY <1>1, <1>2, LeasesDisjoint
  DEF IInv, TypeOK, LeasesValid, AtGeneration, Token, ownerVars
<1>5. NoLeakedSlot'
  BY <1>2 DEF IInv, TypeOK, NoLeakedSlot, TokenOf
<1>6. OperationsCounted' /\ NoLostWakeUp' /\ CallersRegistered'
  BY <1>2 DEF IInv, OperationsCounted, InOperation, NoLostWakeUp,
              CallersRegistered, ownerVars, callVars
<1> QED
  BY <1>2, <1>3, <1>4, <1>5, <1>6 DEF IInv

(* Releasing a read lease frees its slot and never terminates.             *)
LEMMA ReleaseReadStep ==
  ASSUME IInv, NEW t \in Threads, NEW tok \in Token, ReleaseRead(t, tok)
  PROVE  IInv' /\ lifetime' = lifetime
<1>1. tok \in read_leases[t] /\ Readable(t, tok)
  BY DEF ReleaseRead, IInv, LeasesValid, Readable, AtGeneration, SlotForToken
<1>2. /\ payload_size' = [payload_size EXCEPT ![tok.slot_id] = 0]
      /\ was_cancelled' = [was_cancelled EXCEPT ![tok.slot_id] = FALSE]
      /\ state' = [state EXCEPT ![tok.slot_id] = "Free"]
      /\ read_leases' = [read_leases EXCEPT ![t] = @ \ {tok}]
      /\ state_sleepers' = {}
      /\ UNCHANGED <<generation, m_closed, ownerVars, write_leases, callVars,
                     lifetime>>
  BY <1>1 DEF ReleaseRead, FreeSlot, NotifyStateChanged
<1>3. TypeOK'
  BY <1>2, PoolAssumption
  DEF IInv, TypeOK, SlotStates, Token, ownerVars, callVars
<1>4. LeasesValid'
  BY <1>1, <1>2, LeasesDisjoint
  DEF IInv, TypeOK, LeasesValid, AtGeneration, Token, ownerVars
<1>5. NoLeakedSlot'
  BY <1>2 DEF IInv, TypeOK, NoLeakedSlot, TokenOf
<1>6. OperationsCounted' /\ NoLostWakeUp' /\ CallersRegistered'
  BY <1>2 DEF IInv, OperationsCounted, InOperation, NoLostWakeUp,
              CallersRegistered, ownerVars, callVars
<1> QED
  BY <1>2, <1>3, <1>4, <1>5, <1>6 DEF IInv

(* A slot that holds no lease is freed by the consumer of a closed pool.   *)
LEMMA DiscardPublishedStep ==
  ASSUME IInv, NEW t \in Threads, NEW tok \in Token, DiscardPublished(t, tok)
  PROVE  IInv'
<1>1. /\ payload_size' = [payload_size EXCEPT ![tok.slot_id] = 0]
      /\ was_cancelled' = [was_cancelled EXCEPT ![tok.slot_id] = FALSE]
      /\ state[tok.slot_id] = "Published"
      /\ state' = [state EXCEPT ![tok.slot_id] = "Free"]
      /\ state_sleepers' = {}
      /\ UNCHANGED <<generation, m_closed, leaseVars, callVars, lifetime>>
  BY DEF DiscardPublished, FreeSlot, NotifyStateChanged
<1>2. OwnersKept
  BY PoolAssumption
  DEF DiscardPublished, MayConsume, RegisterConsumer, OwnersKept, IInv, TypeOK
<1>3. TypeOK'
  BY <1>1, <1>2, PoolAssumption
  DEF IInv, TypeOK, SlotStates, Token, OwnersKept, leaseVars, callVars
<1>4. LeasesValid'
  BY <1>1, <1>2
  DEF IInv, TypeOK, LeasesValid, AtGeneration, Token, OwnersKept, leaseVars
<1>5. NoLeakedSlot'
  BY <1>1 DEF IInv, TypeOK, NoLeakedSlot, TokenOf, leaseVars
<1>6. OperationsCounted' /\ NoLostWakeUp' /\ CallersRegistered'
  BY <1>1, <1>2
  DEF IInv, TypeOK, OperationsCounted, InOperation, NoLostWakeUp,
      CallersRegistered, OwnersKept, callVars
<1> QED
  BY <1>3, <1>4, <1>5, <1>6 DEF IInv

(* A refused discard at most registers the consumer.                       *)
LEMMA DiscardPublishedThrowsStep ==
  ASSUME IInv, NEW t \in Threads, NEW tok \in Token,
         DiscardPublishedThrows(t, tok)
  PROVE  IInv'
<1>1. UNCHANGED <<slotVars, m_closed, leaseVars, callVars, state_sleepers,
                  lifetime>>
  BY DEF DiscardPublishedThrows
<1>2. OwnersKept
  BY PoolAssumption
  DEF DiscardPublishedThrows, MayConsume, RegisterConsumer, OwnersKept,
      ownerVars, IInv, TypeOK
<1>3. TypeOK'
  BY <1>1, <1>2
  DEF IInv, TypeOK, OwnersKept, slotVars, leaseVars, callVars
<1>4. LeasesValid'
  BY <1>1, <1>2 DEF IInv, LeasesValid, AtGeneration, OwnersKept, slotVars,
                    leaseVars
<1>5. NoLeakedSlot'
  BY <1>1 DEF IInv, NoLeakedSlot, TokenOf, slotVars, leaseVars
<1>6. OperationsCounted' /\ CallersRegistered'
  BY <1>1, <1>2 DEF IInv, OperationsCounted, InOperation, CallersRegistered,
                    OwnersKept, callVars
<1>7. NoLostWakeUp'
  BY <1>1 DEF IInv, NoLostWakeUp, NotificationPending, HasFreeSlot,
              IsFreeSlot, AtGeneration, slotVars, callVars
<1> QED
  BY <1>3, <1>4, <1>5, <1>6, <1>7 DEF IInv

(* Steps of Close and of the destructor: t moves between calls that hold   *)
(* no operation, sleepers only leave, and a notification that t still owes *)
(* is either kept or sent.                                                 *)
LEMMA ShutdownMoves ==
  ASSUME IInv, NEW t \in Threads, NEW name \in CallStates,
         call[t] \notin {"AcquireWrite", "AcquireRead"},
         name \notin {"AcquireWrite", "AcquireRead"},
         call' = [call EXCEPT ![t] = name],
         m_closed' \in BOOLEAN, m_closed => m_closed',
         lifetime' \in {"alive", "destroying", "destroyed", "terminated"},
         idle_sleepers' \subseteq Threads,
         \/ state_sleepers' = {}
         \/ /\ UNCHANGED state_sleepers
            /\ name \in {"Close", "DestroyClose"}
                 \/ (call[t] \notin {"Close", "DestroyClose"}
                       /\ UNCHANGED m_closed),
         UNCHANGED <<slotVars, ownerVars, leaseVars, read_token,
                     m_active_operations>>
  PROVE  IInv'
<1>1. TypeOK'
  BY DEF IInv, TypeOK, slotVars, ownerVars, leaseVars
<1>2. LeasesValid' /\ NoLeakedSlot'
  BY DEF IInv, LeasesValid, NoLeakedSlot, AtGeneration, TokenOf, slotVars,
         ownerVars, leaseVars
<1>3. InOperation' = InOperation
  BY DEF IInv, TypeOK, InOperation
<1>4. OperationsCounted'
  BY <1>3 DEF IInv, OperationsCounted
<1>5. CallersRegistered'
  BY DEF IInv, TypeOK, CallersRegistered, ownerVars
<1>6. NoLostWakeUp'
  <2>1. CASE state_sleepers' = {}
    BY <2>1 DEF NoLostWakeUp
  <2>2. CASE UNCHANGED state_sleepers /\ name \in {"Close", "DestroyClose"}
    BY <2>2 DEF IInv, TypeOK, NoLostWakeUp, NotificationPending, HasFreeSlot,
                IsFreeSlot, AtGeneration, slotVars
  <2>3. CASE UNCHANGED <<state_sleepers, m_closed>>
               /\ call[t] \notin {"Close", "DestroyClose"}
    BY <2>3 DEF IInv, TypeOK, NoLostWakeUp, NotificationPending, HasFreeSlot,
                IsFreeSlot, AtGeneration, slotVars
  <2> QED
    BY <2>1, <2>2, <2>3
<1> QED
  BY <1>1, <1>2, <1>4, <1>5, <1>6 DEF IInv

(* Close and the destructor preserve the inductive invariant.              *)
LEMMA ShutdownSteps ==
  ASSUME IInv, NEW t \in Threads, ShutdownStep(t)
  PROVE  IInv'
<1>0. call \in [Threads -> CallStates] /\ TypeOK
  BY DEF IInv, TypeOK
<1>1. CASE Close(t)
  BY <1>0, <1>1, ShutdownMoves, Zenon
  DEF Close, Entering, TypeOK, CallStates
<1>2. CASE CloseNotifies(t)
  BY <1>0, <1>2, ShutdownMoves
  DEF CloseNotifies, NotifyStateChanged, TypeOK, CallStates
<1>3. CASE Destroy(t)
  BY <1>0, <1>3, ShutdownMoves DEF Destroy, Entering, TypeOK, CallStates
<1>4. CASE DestroySleeps(t)
  BY <1>0, <1>4, ShutdownMoves DEF DestroySleeps, TypeOK, CallStates
<1>5. CASE DestroyFinishes(t)
  BY <1>0, <1>5, ShutdownMoves DEF DestroyFinishes, TypeOK, CallStates
<1> QED
  BY <1>1, <1>2, <1>3, <1>4, <1>5 DEF ShutdownStep

(* A spurious wake-up only shrinks the sets of sleepers.                   *)
LEMMA SpuriousWakeUpStep ==
  ASSUME IInv, NEW t \in Threads, SpuriousWakeUp(t)
  PROVE  IInv'
<1>1. /\ state_sleepers' = state_sleepers \ {t}
      /\ idle_sleepers' = idle_sleepers \ {t}
      /\ UNCHANGED <<slotVars, m_closed, ownerVars, leaseVars, call,
                     read_token, m_active_operations, lifetime>>
  BY DEF SpuriousWakeUp
<1>2. TypeOK'
  BY <1>1 DEF IInv, TypeOK, slotVars, ownerVars, leaseVars
<1>3. LeasesValid' /\ NoLeakedSlot'
  BY <1>1 DEF IInv, LeasesValid, NoLeakedSlot, AtGeneration, TokenOf,
              slotVars, ownerVars, leaseVars
<1>4. OperationsCounted' /\ CallersRegistered'
  BY <1>1 DEF IInv, OperationsCounted, InOperation, CallersRegistered,
              ownerVars
<1>5. NoLostWakeUp'
  BY <1>1 DEF IInv, NoLostWakeUp, NotificationPending, HasFreeSlot,
              IsFreeSlot, AtGeneration, slotVars
<1> QED
  BY <1>2, <1>3, <1>4, <1>5 DEF IInv

-----------------------------------------------------------------------------
(* The inductive invariant holds initially and is preserved.               *)

(* A new pool satisfies the inductive invariant.                           *)
LEMMA InitIInv ==
  Init => IInv
<1> SUFFICES ASSUME Init PROVE IInv
  OBVIOUS
<1>1. 0 \in SlotIds
  BY PoolAssumption DEF SlotIds
<1>2. InvalidToken \in Token
  BY <1>1, PoolAssumption DEF InvalidToken, Token
<1>3. TypeOK
  <2>1. /\ state \in [SlotIds -> SlotStates]
        /\ was_cancelled \in [SlotIds -> BOOLEAN]
        /\ call \in [Threads -> CallStates]
        /\ read_token \in [Threads -> Token]
        /\ write_leases \in [Threads -> SUBSET Token]
        /\ read_leases \in [Threads -> SUBSET Token]
    BY <1>2 DEF Init, SlotStates, CallStates
  <2>2. 0 \in 0 .. MaxGeneration /\ 0 \in 0 .. PayloadCapacity /\ 0 \in Nat
    BY PoolAssumption
  <2>3. /\ generation \in [SlotIds -> 0 .. MaxGeneration]
        /\ payload_size \in [SlotIds -> 0 .. PayloadCapacity]
        /\ m_active_operations \in Nat
    BY <2>2 DEF Init
  <2> QED
    BY <2>1, <2>3 DEF Init, TypeOK
<1>4. InOperation = {}
  BY DEF Init, InOperation
<1>5. OperationsCounted
  BY <1>4, FS_EmptySet DEF Init, OperationsCounted
<1>6. LeasesValid /\ NoLeakedSlot /\ NoLostWakeUp /\ CallersRegistered
  BY DEF Init, LeasesValid, NoLeakedSlot, NoLostWakeUp, CallersRegistered
<1> QED
  BY <1>3, <1>5, <1>6 DEF IInv

(* Every step of the pool preserves it.                                    *)
LEMMA NextIInv ==
  IInv /\ [Next]_vars => IInv'
<1> SUFFICES ASSUME IInv, [Next]_vars PROVE IInv'
  OBVIOUS
<1>1. CASE UNCHANGED vars
  BY <1>1, UnchangedStep
<1>2. CASE Next
  <2> PICK t \in Threads :
        \/ WriteStep(t)
        \/ \E tok \in KnownTokens : ReadStep(t, tok)
        \/ \E tok \in write_leases[t] \cup read_leases[t] : LeaseStep(t, tok)
        \/ ShutdownStep(t)
        \/ SpuriousWakeUp(t)
    BY <1>2 DEF Next
  <2>1. CASE WriteStep(t)
    BY <2>1, AcquireWriteLeaseStep, AcquireWriteEndsStep,
       AcquireWriteSleepsStep DEF WriteStep
  <2>2. ASSUME NEW tok \in KnownTokens, ReadStep(t, tok)
        PROVE  IInv'
    <3>1. tok \in Token
      BY KnownTokensTyped DEF IInv
    <3> QED
      BY <2>2, <3>1, AcquireReadLeaseStep, AcquireReadEndsStep,
         AcquireReadSleepsStep, DiscardPublishedStep,
         DiscardPublishedThrowsStep DEF ReadStep
  <2>3. ASSUME NEW tok \in write_leases[t] \cup read_leases[t],
               LeaseStep(t, tok)
        PROVE  IInv'
    <3>1. tok \in Token
      BY DEF IInv, TypeOK
    <3>2. CASE PublishWriteThrows(t, tok)
      BY <3>2, UnchangedStep DEF PublishWriteThrows, LeaseKept, vars, leaseVars
    <3> QED
      BY <2>3, <3>1, <3>2, SetPayloadSizeStep, PublishWriteStep,
         CancelWriteStep, ReleaseReadStep DEF LeaseStep
  <2>4. CASE ShutdownStep(t)
    BY <2>4, ShutdownSteps
  <2>5. CASE SpuriousWakeUp(t)
    BY <2>5, SpuriousWakeUpStep
  <2> QED
    BY <2>1, <2>2, <2>3, <2>4, <2>5
<1> QED
  BY <1>1, <1>2

(* Hence it holds in every reachable state.                                *)
LEMMA Invariance ==
  SafetySpec => []IInv
BY InitIInv, NextIInv, PTL DEF SafetySpec

-----------------------------------------------------------------------------
(* The ways in which one step may change a slot.                           *)

SlotMove(s) ==
  \/ /\ state'[s] = state[s] /\ generation'[s] = generation[s]
     /\ payload_size'[s] = payload_size[s]
  \/ /\ state[s] = "Free" /\ state'[s] = "Writing" /\ ~m_closed
     /\ generation'[s] = generation[s] + 1
  \/ /\ state[s] = "Writing" /\ state'[s] = "Writing"
     /\ generation'[s] = generation[s]
  \/ /\ state[s] = "Writing" /\ state'[s] = "Published" /\ ~m_closed
     /\ generation'[s] = generation[s]
  \/ /\ state[s] = "Published" /\ state'[s] = "Reading"
     /\ generation'[s] = generation[s] /\ payload_size'[s] = payload_size[s]
  \/ /\ state[s] # "Free" /\ state'[s] = "Free"
     /\ generation'[s] = generation[s]

SlotsKept == /\ m_closed => m_closed'
             /\ \A s \in SlotIds : SlotMove(s)

(* Every step moves each slot along its cycle, closed pools stay closed.   *)
LEMMA SlotMoves ==
  IInv /\ [Next]_vars => SlotsKept
<1> SUFFICES ASSUME IInv, [Next]_vars PROVE SlotsKept
  OBVIOUS
<1> USE DEF SlotsKept, SlotMove
<1>0. /\ state \in [SlotIds -> SlotStates]
      /\ generation \in [SlotIds -> 0 .. MaxGeneration]
      /\ payload_size \in [SlotIds -> 0 .. PayloadCapacity]
  BY DEF IInv, TypeOK
<1>1. ASSUME UNCHANGED slotVars, m_closed => m_closed'
      PROVE  SlotsKept
  BY <1>1 DEF slotVars
<1>2. CASE UNCHANGED vars
  BY <1>1, <1>2 DEF vars
<1>3. CASE Next
  <2> PICK t \in Threads :
        \/ WriteStep(t)
        \/ \E tok \in KnownTokens : ReadStep(t, tok)
        \/ \E tok \in write_leases[t] \cup read_leases[t] : LeaseStep(t, tok)
        \/ ShutdownStep(t)
        \/ SpuriousWakeUp(t)
    BY <1>3 DEF Next
  <2>1. CASE WriteStep(t)
    <3>1. ASSUME NEW blocking \in BOOLEAN, AcquireWriteLease(t, blocking)
          PROVE  SlotsKept
      BY <1>0, <3>1 DEF AcquireWriteLease, TakeFreeSlot, FindFreeSlot,
                        IsFreeSlot, NextGeneration
    <3>2. ASSUME NEW blocking \in BOOLEAN,
                 AcquireWriteNothing(t, blocking)
                   \/ AcquireWriteThrows(t, blocking)
          PROVE  SlotsKept
      BY <1>1, <3>2 DEF AcquireWriteNothing, AcquireWriteThrows
    <3>3. CASE AcquireWriteSleeps(t)
      BY <1>1, <3>3 DEF AcquireWriteSleeps
    <3> QED
      BY <2>1, <3>1, <3>2, <3>3 DEF WriteStep
  <2>2. ASSUME NEW tok \in KnownTokens, ReadStep(t, tok)
        PROVE  SlotsKept
    <3>0. tok \in Token
      BY KnownTokensTyped DEF IInv
    <3>1. ASSUME NEW blocking \in BOOLEAN, AcquireReadLease(t, tok, blocking)
          PROVE  SlotsKept
      BY <1>0, <3>0, <3>1 DEF AcquireReadLease, StartReading, Token
    <3>2. ASSUME NEW blocking \in BOOLEAN,
                 AcquireReadNothing(t, tok, blocking)
                   \/ AcquireReadThrows(t, tok, blocking)
          PROVE  SlotsKept
      BY <1>1, <3>2 DEF AcquireReadNothing, AcquireReadThrows
    <3>3. CASE AcquireReadSleeps(t, tok)
      BY <1>1, <3>3 DEF AcquireReadSleeps
    <3>4. CASE DiscardPublished(t, tok)
      BY <1>0, <3>0, <3>4 DEF DiscardPublished, FreeSlot, Token
    <3>5. CASE DiscardPublishedThrows(t, tok)
      BY <1>1, <3>5 DEF DiscardPublishedThrows
    <3> QED
      BY <2>2, <3>1, <3>2, <3>3, <3>4, <3>5 DEF ReadStep
  <2>3. ASSUME NEW tok \in write_leases[t] \cup read_leases[t],
               LeaseStep(t, tok)
        PROVE  SlotsKept
    <3>0. tok \in Token
      BY DEF IInv, TypeOK
    <3>1. ASSUME NEW size \in 0 .. PayloadCapacity,
                 SetPayloadSize(t, tok, size)
          PROVE  SlotsKept
      BY <1>0, <3>0, <3>1 DEF SetPayloadSize, Writable, Token
    <3>2. CASE PublishWrite(t, tok)
      BY <1>0, <3>0, <3>2 DEF PublishWrite, Publishable, Writable, Token
    <3>3. CASE PublishWriteThrows(t, tok)
      BY <1>1, <3>3 DEF PublishWriteThrows
    <3>4. CASE CancelWrite(t, tok)
      BY <1>0, <1>1, <3>0, <3>4 DEF CancelWrite, FreeSlot, Writable, Token
    <3>5. CASE ReleaseRead(t, tok)
      BY <1>0, <1>1, <3>0, <3>5 DEF ReleaseRead, FreeSlot, Readable, Token
    <3> QED
      BY <2>3, <3>1, <3>2, <3>3, <3>4, <3>5 DEF LeaseStep
  <2>4. CASE ShutdownStep(t)
    BY <1>1, <2>4 DEF ShutdownStep, Close, CloseNotifies, Destroy,
                      DestroySleeps, DestroyFinishes
  <2>5. CASE SpuriousWakeUp(t)
    BY <1>1, <2>5 DEF SpuriousWakeUp
  <2> QED
    BY <2>1, <2>2, <2>3, <2>4, <2>5
<1> QED
  BY <1>2, <1>3

-----------------------------------------------------------------------------
(* The theorems.                                                           *)

(* Every member keeps its type in every reachable state, for any number of *)
(* threads, slots and generations.                                         *)
THEOREM TypeCorrect ==
  SafetySpec => []TypeOK
BY Invariance, PTL DEF IInv

(* Active leases always pass the checks of Cancel and Release, so a lease  *)
(* destructor never terminates the process.                                *)
THEOREM LeaseSafety ==
  SafetySpec => []LeasesValid
BY Invariance, PTL DEF IInv

(* A slot in use always has the lease that will free it.                   *)
THEOREM SlotsNeverLeak ==
  SafetySpec => []NoLeakedSlot
BY Invariance, PTL DEF IInv

(* m_active_operations is the number of threads inside an acquire call:    *)
(* EndOperationLocked never underflows.                                    *)
THEOREM OperationCountExact ==
  SafetySpec => []OperationsCounted
BY Invariance, PTL DEF IInv

(* The three together: leases, slots and operations account for each other *)
(* in every reachable state of a pool of any size.                         *)
THEOREM PoolAccounted ==
  SafetySpec => []SlotsAccounted
<1>1. IInv => SlotsAccounted
  BY DEF IInv, SlotsAccounted
<1>2. QED
  BY <1>1, Invariance, PTL

(* No thread sleeps on m_state_changed while its wait predicate holds,     *)
(* unless a notification is on its way.                                    *)
THEOREM WakeUpsNotLost ==
  SafetySpec => []NoLostWakeUp
BY Invariance, PTL DEF IInv

(* A token is good for a single use of its slot.                           *)
THEOREM TokensSingleUse ==
  SafetySpec => TokensNeverRevive
<1>1. IInv /\ [Next]_vars
        => [\A s \in SlotIds :
              /\ generation'[s] >= generation[s]
              /\ state[s] = "Free" /\ state'[s] # "Free"
                   => generation'[s] > generation[s]]_vars
  BY SlotMoves DEF SlotsKept, SlotMove, IInv, TypeOK
<1> QED
  BY <1>1, Invariance, PTL DEF SafetySpec, TokensNeverRevive

(* A closed pool stays closed and its slots only drain.                    *)
THEOREM ClosedPoolDrains ==
  SafetySpec => CloseOnlyDrains
<1>1. IInv /\ [Next]_vars
        => [m_closed =>
              /\ m_closed'
              /\ \A s \in SlotIds :
                   /\ state[s] = "Free" => state'[s] = "Free"
                   /\ state'[s] = "Published" => state[s] = "Published"
                   /\ generation'[s] = generation[s]]_vars
  BY SlotMoves DEF SlotsKept, SlotMove
<1> QED
  BY <1>1, Invariance, PTL DEF SafetySpec, CloseOnlyDrains

(* The payload does not change between publication and release.            *)
THEOREM PayloadStable ==
  SafetySpec => PublishedPayloadFrozen
<1>1. IInv /\ [Next]_vars
        => [\A s \in SlotIds :
              /\ state[s] \in {"Published", "Reading"}
              /\ state'[s] \in {"Published", "Reading"}
              => payload_size'[s] = payload_size[s]]_vars
  BY SlotMoves DEF SlotsKept, SlotMove
<1> QED
  BY <1>1, Invariance, PTL DEF SafetySpec, PublishedPayloadFrozen

(* The noexcept paths of the leases and of EndOperationLocked never end    *)
(* the process: only a destructor that finds a slot in use does.           *)
THEOREM TerminationOnlyByDestructor ==
  SafetySpec => OnlyDestructorTerminates
<1> DEFINE A == lifetime' = "terminated" /\ lifetime # "terminated"
                  => /\ lifetime = "destroying" /\ m_active_operations = 0
                     /\ \E s \in SlotIds : state[s] # "Free"
<1>1. IInv /\ [Next]_vars => [A]_vars
  <2> SUFFICES ASSUME IInv, Next PROVE A
    OBVIOUS
  <2> PICK t \in Threads :
        \/ WriteStep(t)
        \/ \E tok \in KnownTokens : ReadStep(t, tok)
        \/ \E tok \in write_leases[t] \cup read_leases[t] : LeaseStep(t, tok)
        \/ ShutdownStep(t)
        \/ SpuriousWakeUp(t)
    BY DEF Next
  <2>1. CASE WriteStep(t)
    BY <2>1, AcquireWriteLeaseStep, AcquireWriteEndsStep,
       AcquireWriteSleepsStep DEF WriteStep
  <2>2. ASSUME NEW tok \in KnownTokens, ReadStep(t, tok)
        PROVE  A
    <3>1. tok \in Token
      BY KnownTokensTyped DEF IInv
    <3>2. CASE DiscardPublished(t, tok) \/ DiscardPublishedThrows(t, tok)
      BY <3>2 DEF DiscardPublished, DiscardPublishedThrows
    <3> QED
      BY <2>2, <3>1, <3>2, AcquireReadLeaseStep, AcquireReadEndsStep,
         AcquireReadSleepsStep DEF ReadStep
  <2>3. ASSUME NEW tok \in write_leases[t] \cup read_leases[t],
               LeaseStep(t, tok)
        PROVE  A
    <3>1. tok \in Token
      BY DEF IInv, TypeOK
    <3>2. ASSUME NEW size \in 0 .. PayloadCapacity,
                 SetPayloadSize(t, tok, size)
          PROVE  A
      BY <3>2 DEF SetPayloadSize
    <3>3. CASE PublishWrite(t, tok) \/ PublishWriteThrows(t, tok)
      BY <3>3 DEF PublishWrite, PublishWriteThrows
    <3> QED
      BY <2>3, <3>1, <3>2, <3>3, CancelWriteStep, ReleaseReadStep
      DEF LeaseStep
  <2>4. CASE ShutdownStep(t)
    BY <2>4 DEF ShutdownStep, Close, CloseNotifies, Destroy, DestroySleeps,
                DestroyFinishes, IsFreeSlot
  <2>5. CASE SpuriousWakeUp(t)
    BY <2>5 DEF SpuriousWakeUp
  <2> QED
    BY <2>1, <2>2, <2>3, <2>4, <2>5
<1> QED
  BY <1>1, Invariance, PTL DEF SafetySpec, OnlyDestructorTerminates

=============================================================================
