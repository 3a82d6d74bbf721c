----------------------- MODULE FramePacketChannelProofs -----------------------
(***************************************************************************)
(* Proofs about FramePacketChannel, for every number of threads, every set *)
(* of packets and every capacity: no wake-up is lost although notify_one   *)
(* comes after the unlock, and the ring implements BoundedFifo.            *)
(***************************************************************************)
EXTENDS FramePacketChannel, SequenceTheorems, TLAPS

(* A thread asleep in, or woken inside, a blocking call is the registered  *)
(* owner of that side: registration precedes the wait.                     *)
CallersRegistered ==
  \A t \in Threads :
    /\ call[t] = "Publish" => m_producer_thread = t
    /\ call[t] = "Consume" => m_consumer_thread = t

(* The tail is always m_size places after the head.                        *)
TailFollowsHead == m_tail = (m_head + m_size) % Capacity

(* The places of the ring that hold a packet do hold one.                  *)
HeldPackets ==
  \A i \in 0 .. m_size - 1 : m_buffer[(m_head + i) % Capacity] \in Packets

(* The inductive invariant.                                                *)
IInv ==
  /\ TypeOK
  /\ CallersRegistered
  /\ NoLostWakeUp
  /\ TailFollowsHead
  /\ HeldPackets

-----------------------------------------------------------------------------
(* Indices of the ring.                                                    *)

(* One turn around the ring at most.                                       *)
LEMMA IndexWraps ==
  /\ \A i \in Indices : i % Capacity = i
  /\ \A i \in Capacity .. 2 * Capacity - 1 : i % Capacity = i - Capacity
  /\ \A i \in Int : i % Capacity \in Indices
BY ChannelAssumption DEF Indices

(* The places counted from the head are all different.                     *)
LEMMA PlacesDiffer ==
  ASSUME NEW h \in Indices, NEW i \in Indices, NEW j \in Indices, i # j
  PROVE  (h + i) % Capacity # (h + j) % Capacity
<1>1. /\ h + i \in Indices \/ h + i \in Capacity .. 2 * Capacity - 1
      /\ h + j \in Indices \/ h + j \in Capacity .. 2 * Capacity - 1
  BY ChannelAssumption DEF Indices
<1>2. /\ h + i \in Indices => (h + i) % Capacity = h + i
      /\ h + j \in Indices => (h + j) % Capacity = h + j
      /\ h + i \in Capacity .. 2 * Capacity - 1 => (h + i) % Capacity = (h + i) - Capacity
      /\ h + j \in Capacity .. 2 * Capacity - 1 => (h + j) % Capacity = (h + j) - Capacity
  BY IndexWraps, Zenon
<1>3. /\ h + i # h + j /\ (h + i) - Capacity # (h + j) - Capacity
      /\ h + i # (h + j) - Capacity /\ (h + i) - Capacity # h + j
  BY ChannelAssumption DEF Indices
<1> QED
  BY <1>1, <1>2, <1>3, Zenon

(* Advancing the head moves every place one nearer to it.                  *)
LEMMA AdvanceShifts ==
  ASSUME NEW h \in Indices, NEW i \in Indices
  PROVE  (Advance(h) + i) % Capacity = (h + i + 1) % Capacity
<1>1. CASE h + 1 < Capacity
  <2>1. Advance(h) = h + 1
    BY <1>1, IndexWraps, ChannelAssumption DEF Advance, Indices
  <2> QED
    BY <2>1, ChannelAssumption DEF Indices
<1>2. CASE h + 1 = Capacity
  <2>1. Capacity % Capacity = 0
    BY IndexWraps, ChannelAssumption
  <2>2. Advance(h) = 0
    BY <1>2, <2>1, ChannelAssumption DEF Advance, Indices
  <2>3. (h + i + 1) \in Capacity .. 2 * Capacity - 1
    BY <1>2, ChannelAssumption DEF Indices
  <2>4. (h + i + 1) % Capacity = (h + i + 1) - Capacity
    BY <2>3, IndexWraps, Zenon
  <2>5. (Advance(h) + i) % Capacity = i
    <3>1. 0 + i = i
      BY DEF Indices
    <3> QED
      BY <2>2, <3>1, IndexWraps, Zenon
  <2> QED
    BY <1>2, <2>4, <2>5, ChannelAssumption DEF Indices
<1> QED
  BY <1>1, <1>2, ChannelAssumption DEF Indices

(* Advancing a place counted from the head counts one further.             *)
LEMMA AdvancePlace ==
  ASSUME NEW h \in Indices, NEW i \in Indices
  PROVE  Advance((h + i) % Capacity) = (h + i + 1) % Capacity
<1>1. CASE h + i < Capacity
  <2>1. (h + i) % Capacity = h + i
    BY <1>1, IndexWraps, ChannelAssumption DEF Indices
  <2> QED
    BY <2>1 DEF Advance
<1>2. CASE h + i >= Capacity
  <2>1. (h + i) % Capacity = (h + i) - Capacity
    <3>1. h + i \in Capacity .. 2 * Capacity - 1
      BY <1>2, ChannelAssumption DEF Indices
    <3> QED
      BY <3>1, IndexWraps, Zenon
  <2>2. ((h + i) - Capacity) + 1 \in Indices
    BY <1>2, ChannelAssumption DEF Indices
  <2>3. Advance((h + i) % Capacity) = (h + i) - Capacity + 1
    BY <2>1, <2>2, IndexWraps DEF Advance
  <2>4. h + i + 1 \in Capacity .. 2 * Capacity - 1
    BY <1>2, ChannelAssumption DEF Indices
  <2>5. (h + i + 1) % Capacity = (h + i + 1) - Capacity
    BY <2>4, IndexWraps, Zenon
  <2> QED
    BY <2>3, <2>5, ChannelAssumption DEF Indices
<1> QED
  BY <1>1, <1>2, ChannelAssumption DEF Indices

-----------------------------------------------------------------------------
(* Type correctness and the owners.                                        *)

(* The initial state satisfies the inductive invariant.                    *)
LEMMA InitEstablishes ==
  Init => IInv
<1> SUFFICES ASSUME Init PROVE IInv
  OBVIOUS
<1> USE DEF Init
<1>1. TypeOK
  <2>1. 0 \in Indices /\ 0 \in 0 .. Capacity
    BY ChannelAssumption DEF Indices
  <2> QED
    BY <2>1 DEF TypeOK
<1>2. TailFollowsHead
  BY ChannelAssumption, IndexWraps DEF TailFollowsHead, Indices
<1>3. CallersRegistered /\ NoLostWakeUp
  BY DEF CallersRegistered, NoLostWakeUp
<1>4. HeldPackets
  BY DEF HeldPackets
<1> QED
  BY <1>1, <1>2, <1>3, <1>4 DEF IInv

(* A thread in a call it does not sleep in is not asleep.                  *)
LEMMA SleepersKnown ==
  ASSUME IInv, NEW t \in Threads
  PROVE  /\ t \in not_full_sleepers => call[t] = "Publish"
         /\ t \in not_empty_sleepers => call[t] = "Consume"
BY DEF IInv, NoLostWakeUp

(* At most one thread sleeps on each condition variable, the owner of that *)
(* side: so notify_one wakes everybody there is.                           *)
LEMMA SleepersAreOwners ==
  ASSUME IInv
  PROVE  /\ not_full_sleepers \subseteq {m_producer_thread}
         /\ not_empty_sleepers \subseteq {m_consumer_thread}
BY DEF IInv, NoLostWakeUp, CallersRegistered, TypeOK

(* Whoever tests in Publish is awake and ends up as the producer.          *)
LEMMA PublishRegisters ==
  ASSUME IInv, NEW t \in Threads, NEW p, NEW blocking \in BOOLEAN,
         PublishTests(t, p, blocking), RegisterProducer(t)
  PROVE  /\ call[t] \in {"idle", "Publish"}
         /\ t \notin not_full_sleepers /\ t \notin not_empty_sleepers
         /\ m_producer_thread' = t /\ m_consumer_thread' = m_consumer_thread
         /\ \A u \in Threads : call[u] = "Publish" => u = t
<1>1. call[t] \in {"idle", "Publish"} /\ t \notin not_full_sleepers
  BY SleepersKnown DEF PublishTests
<1>2. t \notin not_empty_sleepers
  BY <1>1, SleepersKnown
<1>3. \A u \in Threads : call[u] = "Publish" => u = t
  BY ChannelAssumption DEF PublishTests, MayProduce, IInv, CallersRegistered
<1> QED
  BY <1>1, <1>2, <1>3 DEF RegisterProducer

(* Whoever tests in Consume is awake and ends up as the consumer.          *)
LEMMA ConsumeRegisters ==
  ASSUME IInv, NEW t \in Threads, NEW blocking \in BOOLEAN,
         ConsumeTests(t, blocking), RegisterConsumer(t)
  PROVE  /\ call[t] \in {"idle", "Consume"}
         /\ t \notin not_full_sleepers /\ t \notin not_empty_sleepers
         /\ m_consumer_thread' = t /\ m_producer_thread' = m_producer_thread
         /\ \A u \in Threads : call[u] = "Consume" => u = t
<1>1. call[t] \in {"idle", "Consume"} /\ t \notin not_empty_sleepers
  BY SleepersKnown DEF ConsumeTests
<1>2. t \notin not_full_sleepers
  BY <1>1, SleepersKnown
<1>3. \A u \in Threads : call[u] = "Consume" => u = t
  BY ChannelAssumption DEF ConsumeTests, MayConsume, IInv, CallersRegistered
<1> QED
  BY <1>1, <1>2, <1>3 DEF RegisterConsumer

-----------------------------------------------------------------------------
(* The ring.                                                               *)

(* What TypeOK says of the ring.                                           *)
RingOK ==
  /\ m_buffer \in [Indices -> Packets \cup {NoPacket}]
  /\ m_head \in Indices /\ m_tail \in Indices /\ m_size \in 0 .. Capacity
  /\ TailFollowsHead
  /\ HeldPackets

(* A packet written at the tail of a ring with room for it joins the       *)
(* packets held, and overwrites none of them.                              *)
LEMMA PushKeepsRing ==
  ASSUME RingOK, NEW p \in Packets, ~Full, PushTail(p)
  PROVE  RingOK'
<1> USE DEF RingOK
<1>1. m_size \in Indices /\ m_size' = m_size + 1 /\ m_head' = m_head
  BY ChannelAssumption DEF PushTail, Full, Indices
<1>2. m_buffer' \in [Indices -> Packets \cup {NoPacket}]
  BY DEF PushTail
<1>3. m_tail' = (m_head + m_size + 1) % Capacity
  BY <1>1, AdvancePlace DEF PushTail, TailFollowsHead
<1>4. m_tail' \in Indices
  BY <1>1, <1>3, IndexWraps DEF Indices
<1>5. TailFollowsHead'
  BY <1>1, <1>3 DEF TailFollowsHead, Indices
<1>6. m_size' - 1 = m_size /\ m_size' \in 0 .. Capacity
  BY <1>1, ChannelAssumption DEF Indices
<1>7. HeldPackets'
  <2> SUFFICES ASSUME NEW i \in 0 .. m_size
               PROVE  m_buffer'[(m_head + i) % Capacity] \in Packets
    BY <1>1, <1>6, Zenon DEF HeldPackets
  <2>0. i \in Indices
    BY <1>1, ChannelAssumption DEF Indices
  <2>1. i \in Indices /\ (m_head + i) % Capacity \in Indices
    <3>1. m_head + i \in Int
      BY <2>0, ChannelAssumption DEF Indices
    <3> QED
      BY <2>0, <3>1, IndexWraps
  <2>2. CASE i = m_size
    BY <2>1, <2>2 DEF PushTail, TailFollowsHead
  <2>3. CASE i # m_size
    <3>1. (m_head + i) % Capacity # m_tail
      BY <1>1, <2>1, <2>3, PlacesDiffer DEF TailFollowsHead
    <3>2. i \in 0 .. m_size - 1
      BY <2>3
    <3>3. m_buffer'[(m_head + i) % Capacity] = m_buffer[(m_head + i) % Capacity]
      BY <2>1, <3>1 DEF PushTail
    <3> QED
      BY <3>2, <3>3 DEF HeldPackets
  <2> QED
    BY <2>2, <2>3
<1> QED
  BY <1>1, <1>2, <1>4, <1>5, <1>6, <1>7

(* Taking the packet at the head keeps the others.                         *)
LEMMA PopKeepsRing ==
  ASSUME RingOK, ~Empty, PopHead
  PROVE  RingOK'
<1> USE DEF RingOK
<1>1. m_size - 1 \in Indices /\ m_size' = m_size - 1
      /\ m_tail' = m_tail /\ m_buffer' = m_buffer
  BY ChannelAssumption DEF PopHead, Empty, Indices
<1>2. m_head' \in Indices /\ m_head' = Advance(m_head)
  BY IndexWraps DEF PopHead, Advance, Indices
<1>3. \A i \in Indices : (m_head' + i) % Capacity = (m_head + i + 1) % Capacity
  BY <1>2, AdvanceShifts
<1>4. TailFollowsHead'
  <2>1. (m_head' + (m_size - 1)) % Capacity = (m_head + (m_size - 1) + 1) % Capacity
    BY <1>1, <1>3
  <2>2. m_head + (m_size - 1) + 1 = m_head + m_size
    BY DEF Indices
  <2> QED
    BY <1>1, <2>1, <2>2 DEF TailFollowsHead
<1>5. HeldPackets'
  <2> SUFFICES ASSUME NEW i \in 0 .. m_size - 2
               PROVE  m_buffer[(m_head' + i) % Capacity] \in Packets
    BY <1>1 DEF HeldPackets
  <2>1. i \in Indices /\ i + 1 \in 0 .. m_size - 1
    BY <1>1, ChannelAssumption DEF Indices
  <2>2. (m_head' + i) % Capacity = (m_head + (i + 1)) % Capacity
    BY <1>3, <2>1 DEF Indices
  <2> QED
    BY <2>1, <2>2 DEF HeldPackets
<1>6. m_size' \in 0 .. Capacity
  BY <1>1, ChannelAssumption DEF Indices
<1> QED
  BY <1>1, <1>2, <1>4, <1>5, <1>6

(* A step that leaves the ring alone keeps what is said of it.             *)
LEMMA RingUntouched ==
  ASSUME RingOK, UNCHANGED ringVars
  PROVE  RingOK'
BY DEF RingOK, ringVars, TailFollowsHead, HeldPackets

-----------------------------------------------------------------------------
(* Each action preserves the inductive invariant.                          *)

(* PublishAccepts: the producer puts the notification of m_not_empty       *)
(* before itself in the very step that makes the ring non-empty.           *)
LEMMA PublishAcceptsPreserves ==
  ASSUME IInv, NEW t \in Threads, NEW p \in Packets, NEW b \in BOOLEAN,
         PublishAccepts(t, p, b)
  PROVE  IInv'
<1>1. /\ t \notin not_full_sleepers /\ t \notin not_empty_sleepers
      /\ m_producer_thread' = t /\ m_consumer_thread' = m_consumer_thread
      /\ \A u \in Threads : call[u] = "Publish" => u = t
  BY PublishRegisters DEF PublishAccepts
<1>2. RingOK'
  BY PushKeepsRing DEF PublishAccepts, PublishAllowed, IInv, TypeOK, RingOK
<1>3. /\ call' = [call EXCEPT ![t] = "NotifyNotEmpty"]
      /\ UNCHANGED <<m_closed, sent, not_full_sleepers, not_empty_sleepers>>
  BY DEF PublishAccepts, Enters, sleepVars
<1>4. TypeOK'
  BY <1>1, <1>2, <1>3 DEF IInv, TypeOK, RingOK
<1>5. CallersRegistered'
  BY <1>1, <1>3 DEF IInv, TypeOK, CallersRegistered
<1>6. NoLostWakeUp'
  <2>1. not_full_sleepers = {}
    BY <1>1, SleepersKnown DEF IInv, TypeOK
  <2>2. \A u \in not_empty_sleepers : u # t /\ call'[u] = "Consume"
    BY <1>1, <1>3, SleepersKnown DEF IInv, TypeOK
  <2>3. NotificationPending("NotifyNotEmpty")'
    BY <1>3 DEF NotificationPending, IInv, TypeOK
  <2> QED
    BY <1>3, <2>1, <2>2, <2>3 DEF NoLostWakeUp
<1> QED
  BY <1>2, <1>4, <1>5, <1>6 DEF IInv, RingOK

(* PublishRefuses: the caller was awake and owed no notification.          *)
LEMMA PublishRefusesPreserves ==
  ASSUME IInv, NEW t \in Threads, NEW p \in Packets, NEW b \in BOOLEAN,
         PublishRefuses(t, p, b)
  PROVE  IInv'
<1>1. /\ call[t] \in {"idle", "Publish"}
      /\ t \notin not_full_sleepers /\ t \notin not_empty_sleepers
      /\ m_producer_thread' = t /\ m_consumer_thread' = m_consumer_thread
      /\ \A u \in Threads : call[u] = "Publish" => u = t
  BY PublishRegisters DEF PublishRefuses
<1>2. RingOK'
  BY RingUntouched DEF PublishRefuses, IInv, TypeOK, RingOK
<1>3. /\ call' = [call EXCEPT ![t] = "idle"]
      /\ UNCHANGED <<m_closed, sent, not_full_sleepers, not_empty_sleepers, m_size>>
  BY DEF PublishRefuses, Enters, sleepVars, ringVars
<1>4. TypeOK'
  BY <1>1, <1>2, <1>3 DEF IInv, TypeOK, RingOK
<1>5. CallersRegistered'
  BY <1>1, <1>3 DEF IInv, TypeOK, CallersRegistered
<1>6. NoLostWakeUp'
  BY <1>1, <1>3 DEF IInv, TypeOK, NoLostWakeUp, NotificationPending, Full, Empty
<1> QED
  BY <1>2, <1>4, <1>5, <1>6 DEF IInv, RingOK

(* PublishSleeps: only a producer that has just seen the ring full and the *)
(* channel open goes to sleep.                                             *)
LEMMA PublishSleepsPreserves ==
  ASSUME IInv, NEW t \in Threads, NEW p \in Packets, PublishSleeps(t, p)
  PROVE  IInv'
<1>1. /\ call[t] \in {"idle", "Publish"}
      /\ t \notin not_full_sleepers /\ t \notin not_empty_sleepers
      /\ m_producer_thread' = t /\ m_consumer_thread' = m_consumer_thread
      /\ \A u \in Threads : call[u] = "Publish" => u = t
  BY PublishRegisters DEF PublishSleeps
<1>2. RingOK'
  BY RingUntouched DEF PublishSleeps, IInv, TypeOK, RingOK
<1>3. /\ call' = [call EXCEPT ![t] = "Publish"]
      /\ sent' = [sent EXCEPT ![t] = p]
      /\ not_full_sleepers' = not_full_sleepers \cup {t}
      /\ UNCHANGED <<m_closed, not_empty_sleepers, m_size>>
      /\ ~m_closed /\ Full
  BY DEF PublishSleeps, Enters, ringVars
<1>4. TypeOK'
  BY <1>1, <1>2, <1>3 DEF IInv, TypeOK, RingOK
<1>5. CallersRegistered'
  BY <1>1, <1>3 DEF IInv, TypeOK, CallersRegistered
<1>6. NoLostWakeUp'
  <2>1. ~m_closed' /\ Full'
    BY <1>3 DEF Full
  <2>2. \A u \in not_full_sleepers' : call'[u] = "Publish"
    BY <1>3 DEF IInv, TypeOK, NoLostWakeUp
  <2>3. \A u \in not_empty_sleepers' :
           /\ call'[u] = "Consume"
           /\ (m_closed \/ ~Empty)' => NotificationPending("NotifyNotEmpty")'
    BY <1>1, <1>3 DEF IInv, TypeOK, NoLostWakeUp, NotificationPending, Empty
  <2> QED
    BY <2>1, <2>2, <2>3 DEF NoLostWakeUp
<1> QED
  BY <1>2, <1>4, <1>5, <1>6 DEF IInv, RingOK

(* ConsumeReturns: the mirror image of PublishAccepts.                     *)
LEMMA ConsumeReturnsPreserves ==
  ASSUME IInv, NEW t \in Threads, NEW p \in Packets, NEW b \in BOOLEAN,
         ConsumeReturns(t, p, b)
  PROVE  IInv'
<1>1. /\ t \notin not_full_sleepers /\ t \notin not_empty_sleepers
      /\ m_consumer_thread' = t /\ m_producer_thread' = m_producer_thread
      /\ \A u \in Threads : call[u] = "Consume" => u = t
  BY ConsumeRegisters DEF ConsumeReturns
<1>2. RingOK'
  BY PopKeepsRing DEF ConsumeReturns, IInv, TypeOK, RingOK
<1>3. /\ call' = [call EXCEPT ![t] = "NotifyNotFull"]
      /\ UNCHANGED <<m_closed, sent, not_full_sleepers, not_empty_sleepers>>
  BY DEF ConsumeReturns, Enters, sleepVars
<1>4. TypeOK'
  BY <1>1, <1>2, <1>3 DEF IInv, TypeOK, RingOK
<1>5. CallersRegistered'
  BY <1>1, <1>3 DEF IInv, TypeOK, CallersRegistered
<1>6. NoLostWakeUp'
  <2>1. not_empty_sleepers = {}
    BY <1>1, SleepersKnown DEF IInv, TypeOK
  <2>2. \A u \in not_full_sleepers : u # t /\ call'[u] = "Publish"
    BY <1>1, <1>3, SleepersKnown DEF IInv, TypeOK
  <2>3. NotificationPending("NotifyNotFull")'
    BY <1>3 DEF NotificationPending, IInv, TypeOK
  <2> QED
    BY <1>3, <2>1, <2>2, <2>3 DEF NoLostWakeUp
<1> QED
  BY <1>2, <1>4, <1>5, <1>6 DEF IInv, RingOK

(* ConsumeNothing: the mirror image of PublishRefuses.                     *)
LEMMA ConsumeNothingPreserves ==
  ASSUME IInv, NEW t \in Threads, NEW b \in BOOLEAN, ConsumeNothing(t, b)
  PROVE  IInv'
<1>1. /\ call[t] \in {"idle", "Consume"}
      /\ t \notin not_full_sleepers /\ t \notin not_empty_sleepers
      /\ m_consumer_thread' = t /\ m_producer_thread' = m_producer_thread
      /\ \A u \in Threads : call[u] = "Consume" => u = t
  BY ConsumeRegisters DEF ConsumeNothing
<1>2. RingOK'
  BY RingUntouched DEF ConsumeNothing, IInv, TypeOK, RingOK
<1>3. /\ call' = [call EXCEPT ![t] = "idle"]
      /\ UNCHANGED <<m_closed, sent, not_full_sleepers, not_empty_sleepers, m_size>>
  BY DEF ConsumeNothing, Enters, sleepVars, ringVars
<1>4. TypeOK'
  BY <1>1, <1>2, <1>3 DEF IInv, TypeOK, RingOK
<1>5. CallersRegistered'
  BY <1>1, <1>3 DEF IInv, TypeOK, CallersRegistered
<1>6. NoLostWakeUp'
  BY <1>1, <1>3 DEF IInv, TypeOK, NoLostWakeUp, NotificationPending, Full, Empty
<1> QED
  BY <1>2, <1>4, <1>5, <1>6 DEF IInv, RingOK

(* ConsumeSleeps: the mirror image of PublishSleeps.                       *)
LEMMA ConsumeSleepsPreserves ==
  ASSUME IInv, NEW t \in Threads, ConsumeSleeps(t)
  PROVE  IInv'
<1>1. /\ call[t] \in {"idle", "Consume"}
      /\ t \notin not_full_sleepers /\ t \notin not_empty_sleepers
      /\ m_consumer_thread' = t /\ m_producer_thread' = m_producer_thread
      /\ \A u \in Threads : call[u] = "Consume" => u = t
  BY ConsumeRegisters DEF ConsumeSleeps
<1>2. RingOK'
  BY RingUntouched DEF ConsumeSleeps, IInv, TypeOK, RingOK
<1>3. /\ call' = [call EXCEPT ![t] = "Consume"]
      /\ not_empty_sleepers' = not_empty_sleepers \cup {t}
      /\ UNCHANGED <<m_closed, sent, not_full_sleepers, m_size>>
      /\ ~m_closed /\ Empty
  BY DEF ConsumeSleeps, Enters, ringVars
<1>4. TypeOK'
  BY <1>1, <1>2, <1>3 DEF IInv, TypeOK, RingOK
<1>5. CallersRegistered'
  BY <1>1, <1>3 DEF IInv, TypeOK, CallersRegistered
<1>6. NoLostWakeUp'
  <2>1. ~m_closed' /\ Empty'
    BY <1>3 DEF Empty
  <2>2. \A u \in not_empty_sleepers' : call'[u] = "Consume"
    BY <1>3 DEF IInv, TypeOK, NoLostWakeUp
  <2>3. \A u \in not_full_sleepers' :
           /\ call'[u] = "Publish"
           /\ (m_closed \/ ~Full)' => NotificationPending("NotifyNotFull")'
    BY <1>1, <1>3 DEF IInv, TypeOK, NoLostWakeUp, NotificationPending, Full
  <2> QED
    BY <2>1, <2>2, <2>3 DEF NoLostWakeUp
<1> QED
  BY <1>2, <1>4, <1>5, <1>6 DEF IInv, RingOK

(* Notifies: the one thread it wakes is the only one that sleeps there, so *)
(* nobody is left who counted on the notification just sent.               *)
LEMMA NotifiesPreserves ==
  ASSUME IInv, NEW t \in Threads, Notifies(t)
  PROVE  IInv'
<1>1. RingOK'
  BY RingUntouched DEF Notifies, IInv, TypeOK, RingOK
<1>2. /\ call' = [call EXCEPT ![t] = "idle"]
      /\ UNCHANGED <<m_closed, sent, m_size, m_producer_thread, m_consumer_thread>>
  BY DEF Notifies, Enters, ringVars, ownerVars
<1>3. /\ not_full_sleepers' \subseteq not_full_sleepers
      /\ not_empty_sleepers' \subseteq not_empty_sleepers
      /\ t \notin not_full_sleepers /\ t \notin not_empty_sleepers
  BY SleepersKnown DEF Notifies, NotifyOne
<1>4. TypeOK'
  BY <1>1, <1>2, <1>3 DEF IInv, TypeOK, RingOK
<1>5. CallersRegistered'
  BY <1>2 DEF IInv, TypeOK, CallersRegistered
<1>6. NoLostWakeUp'
  <2>1. /\ \A u \in not_full_sleepers' : call'[u] = "Publish"
        /\ \A u \in not_empty_sleepers' : call'[u] = "Consume"
    BY <1>2, <1>3, SleepersKnown DEF IInv, TypeOK
  <2>2. CASE call[t] = "NotifyNotEmpty"
    <3>1. not_empty_sleepers' = {}
      BY <2>2, SleepersAreOwners DEF Notifies, NotifyOne
    <3>2. NotificationPending("NotifyNotFull") => NotificationPending("NotifyNotFull")'
      BY <1>2, <2>2 DEF NotificationPending, IInv, TypeOK
    <3> QED
      BY <1>2, <1>3, <2>1, <3>1, <3>2 DEF IInv, NoLostWakeUp, Full
  <2>3. CASE call[t] = "NotifyNotFull"
    <3>1. not_full_sleepers' = {}
      BY <2>3, SleepersAreOwners DEF Notifies, NotifyOne
    <3>2. NotificationPending("NotifyNotEmpty") => NotificationPending("NotifyNotEmpty")'
      BY <1>2, <2>3 DEF NotificationPending, IInv, TypeOK
    <3> QED
      BY <1>2, <1>3, <2>1, <3>1, <3>2 DEF IInv, NoLostWakeUp, Empty
  <2> QED
    BY <2>2, <2>3 DEF Notifies
<1> QED
  BY <1>1, <1>4, <1>5, <1>6 DEF IInv, RingOK

(* Close: from the step that sets m_closed on, its notify_all is pending.  *)
LEMMA ClosePreserves ==
  ASSUME IInv, NEW t \in Threads, Close(t)
  PROVE  IInv'
<1>1. RingOK'
  BY RingUntouched DEF Close, IInv, TypeOK, RingOK
<1>2. /\ call[t] = "idle" /\ call' = [call EXCEPT ![t] = "Close"]
      /\ m_closed' = TRUE
      /\ UNCHANGED <<sent, m_producer_thread, m_consumer_thread,
                     not_full_sleepers, not_empty_sleepers>>
  BY DEF Close, Enters, sleepVars, ownerVars
<1>3. TypeOK'
  BY <1>1, <1>2 DEF IInv, TypeOK, RingOK
<1>4. CallersRegistered'
  BY <1>2 DEF IInv, TypeOK, CallersRegistered
<1>5. NoLostWakeUp'
  <2>1. /\ \A u \in not_full_sleepers' : call'[u] = "Publish"
        /\ \A u \in not_empty_sleepers' : call'[u] = "Consume"
    BY <1>2, SleepersKnown DEF IInv, TypeOK
  <2>2. call'[t] = "Close"
    BY <1>2 DEF IInv, TypeOK
  <2> QED
    BY <2>1, <2>2 DEF NoLostWakeUp, NotificationPending
<1> QED
  BY <1>1, <1>3, <1>4, <1>5 DEF IInv, RingOK

(* CloseNotifies: nobody sleeps any more.                                  *)
LEMMA CloseNotifiesPreserves ==
  ASSUME IInv, NEW t \in Threads, CloseNotifies(t)
  PROVE  IInv'
<1>1. RingOK'
  BY RingUntouched DEF CloseNotifies, IInv, TypeOK, RingOK
<1>2. /\ call' = [call EXCEPT ![t] = "idle"]
      /\ not_full_sleepers' = {} /\ not_empty_sleepers' = {}
      /\ UNCHANGED <<m_closed, sent, m_producer_thread, m_consumer_thread>>
  BY DEF CloseNotifies, NotifyAll, Enters, ownerVars
<1>3. TypeOK'
  BY <1>1, <1>2 DEF IInv, TypeOK, RingOK
<1>4. CallersRegistered'
  BY <1>2 DEF IInv, TypeOK, CallersRegistered
<1>5. NoLostWakeUp'
  BY <1>2 DEF NoLostWakeUp
<1> QED
  BY <1>1, <1>3, <1>4, <1>5 DEF IInv, RingOK

(* SpuriousWakeUp: the woken thread tests again.                           *)
LEMMA SpuriousWakeUpPreserves ==
  ASSUME IInv, NEW t \in Threads, SpuriousWakeUp(t)
  PROVE  IInv'
<1>1. RingOK'
  BY RingUntouched DEF SpuriousWakeUp, IInv, TypeOK, RingOK
<1>2. /\ not_full_sleepers' \subseteq not_full_sleepers
      /\ not_empty_sleepers' \subseteq not_empty_sleepers
      /\ UNCHANGED <<call, m_closed, m_size, sent, m_producer_thread,
                     m_consumer_thread>>
  BY DEF SpuriousWakeUp, ringVars, ownerVars
<1>3. TypeOK'
  BY <1>1, <1>2 DEF IInv, TypeOK, RingOK
<1>4. CallersRegistered'
  BY <1>2 DEF IInv, CallersRegistered
<1>5. NoLostWakeUp'
  BY <1>2 DEF IInv, NoLostWakeUp, NotificationPending, Full, Empty
<1> QED
  BY <1>1, <1>3, <1>4, <1>5 DEF IInv, RingOK

(* A step that changes nothing preserves everything.                       *)
LEMMA StutterPreserves ==
  ASSUME IInv, UNCHANGED vars
  PROVE  IInv'
BY DEF IInv, TypeOK, CallersRegistered, NoLostWakeUp, NotificationPending,
       TailFollowsHead, HeldPackets, Full, Empty, vars, ringVars, ownerVars,
       sleepVars

(* Every step preserves the inductive invariant.                           *)
LEMMA NextPreserves ==
  IInv /\ [Next]_vars => IInv'
<1> SUFFICES ASSUME IInv, [Next]_vars PROVE IInv'
  OBVIOUS
<1>1. ASSUME NEW t \in Threads, CallStep(t) PROVE IInv'
  <2>1. ASSUME NEW p \in Packets, PublishSleeps(t, p) PROVE IInv'
    BY <2>1, PublishSleepsPreserves
  <2>2. ASSUME NEW p \in Packets, NEW b \in BOOLEAN, PublishAccepts(t, p, b)
        PROVE  IInv'
    BY <2>2, PublishAcceptsPreserves
  <2>3. ASSUME NEW p \in Packets, NEW b \in BOOLEAN, PublishRefuses(t, p, b)
        PROVE  IInv'
    BY <2>3, PublishRefusesPreserves
  <2>4. ASSUME NEW p \in Packets, NEW b \in BOOLEAN, ConsumeReturns(t, p, b)
        PROVE  IInv'
    BY <2>4, ConsumeReturnsPreserves
  <2>5. ASSUME NEW b \in BOOLEAN, ConsumeNothing(t, b) PROVE IInv'
    BY <2>5, ConsumeNothingPreserves
  <2>6. CASE ConsumeSleeps(t)
    BY <2>6, ConsumeSleepsPreserves
  <2>7. CASE Notifies(t)
    BY <2>7, NotifiesPreserves
  <2>8. CASE CloseNotifies(t)
    BY <2>8, CloseNotifiesPreserves
  <2> QED
    BY <1>1, <2>1, <2>2, <2>3, <2>4, <2>5, <2>6, <2>7, <2>8 DEF CallStep
<1>2. ASSUME NEW t \in Threads, Close(t) PROVE IInv'
  BY <1>2, ClosePreserves
<1>3. ASSUME NEW t \in Threads, WrongThread(t) PROVE IInv'
  BY <1>3, StutterPreserves DEF WrongThread
<1>4. ASSUME NEW t \in Threads, SpuriousWakeUp(t) PROVE IInv'
  BY <1>4, SpuriousWakeUpPreserves
<1>5. CASE UNCHANGED vars
  BY <1>5, StutterPreserves
<1> QED
  BY <1>1, <1>2, <1>3, <1>4, <1>5 DEF Next

-----------------------------------------------------------------------------
(* The theorems.                                                           *)

(* The inductive invariant holds in every reachable state.                 *)
THEOREM Invariance ==
  SafetySpec => []IInv
BY InitEstablishes, NextPreserves, PTL DEF SafetySpec

(* Each member of frame_packet_channel.cpp keeps its type; m_head, m_tail  *)
(* and m_size stay within the buffer.                                      *)
THEOREM TypeCorrect ==
  SafetySpec => []TypeOK
<1>1. IInv => TypeOK
  BY DEF IInv
<1> QED
  BY <1>1, Invariance, PTL

(* However many threads race for the two ends of the channel, nobody       *)
(* sleeps on a condition variable with something to do unless a            *)
(* notification is on its way: notify_one after the unlock, of a single    *)
(* thread, is enough because only the registered owner of a side sleeps.   *)
THEOREM NoWakeUpIsLost ==
  SafetySpec => []NoLostWakeUp
<1>1. IInv => NoLostWakeUp
  BY DEF IInv
<1> QED
  BY <1>1, Invariance, PTL

-----------------------------------------------------------------------------
(* The ring implements the bounded queue.                                  *)

(* The contents are a sequence of packets, m_size of them.                 *)
SeqOfHeld ==
  /\ Contents \in Seq(Packets) /\ Len(Contents) = m_size
  /\ \A i \in 1 .. m_size :
       Contents[i] = m_buffer[(m_head + (i - 1)) % Capacity]

(* A well-formed ring reads as such a sequence.                            *)
LEMMA ContentsSeq ==
  RingOK => SeqOfHeld
<1> SUFFICES ASSUME RingOK PROVE SeqOfHeld
  OBVIOUS
<1>1. m_size \in Nat /\ m_head \in Int
  BY ChannelAssumption DEF RingOK, Indices
<1>2. ASSUME NEW i \in 1 .. m_size
      PROVE  /\ i - 1 \in 0 .. m_size - 1
             /\ m_head + i - 1 = m_head + (i - 1)
  BY <1>1
<1>3. ASSUME NEW i \in 1 .. m_size
      PROVE  /\ Contents[i] = m_buffer[(m_head + (i - 1)) % Capacity]
             /\ Contents[i] \in Packets
  <2>1. Contents[i] = m_buffer[(m_head + (i - 1)) % Capacity]
    BY <1>2 DEF Contents
  <2> QED
    BY <2>1, <1>2 DEF RingOK, HeldPackets
<1>4. Contents \in [1 .. m_size -> Packets]
  BY <1>3 DEF Contents
<1>5. Contents \in Seq(Packets)
  BY <1>1, <1>4, SeqDef
<1>6. Len(Contents) = m_size
  BY <1>1, <1>4, <1>5, LenProperties DEF Contents
<1> QED
  BY <1>3, <1>5, <1>6 DEF SeqOfHeld

(* The same of the state a step leads to.                                  *)
LEMMA ContentsSeqNext ==
  RingOK' => SeqOfHeld'
BY ContentsSeq, PTL

(* The initial ring is the empty open queue.                               *)
LEMMA FifoInit ==
  ASSUME Init
  PROVE  Fifo!Init
<1>1. RingOK /\ m_size = 0
  BY InitEstablishes DEF IInv, TypeOK, RingOK, Init
<1>2. Len(Contents) = 0 /\ Contents \in Seq(Packets)
  BY <1>1, ContentsSeq DEF SeqOfHeld
<1>3. Contents = <<>>
  BY <1>2, EmptySeq
<1> QED
  BY <1>3 DEF Fifo!Init, Init

(* A step that leaves the ring alone leaves its contents alone.            *)
LEMMA ContentsUntouched ==
  ASSUME UNCHANGED ringVars
  PROVE  Contents' = Contents
BY DEF ringVars, Contents

(* PushTail appends to the contents.                                       *)
LEMMA PushAppends ==
  ASSUME RingOK, NEW p \in Packets, ~Full, PushTail(p)
  PROVE  Contents' = Append(Contents, p)
<1>1. RingOK'
  BY PushKeepsRing
<1>2. /\ m_size \in Indices /\ m_size \in Nat /\ m_size' = m_size + 1
      /\ m_head' = m_head /\ m_head \in Indices /\ m_head \in Nat
      /\ m_buffer' = [m_buffer EXCEPT ![m_tail] = p] /\ m_tail \in Indices
  BY ChannelAssumption DEF PushTail, Full, Indices, RingOK
<1>3. /\ Contents \in Seq(Packets) /\ Len(Contents) = m_size
      /\ Contents' \in Seq(Packets) /\ Len(Contents') = m_size + 1
  BY <1>1, <1>2, ContentsSeq, ContentsSeqNext DEF SeqOfHeld
<1>4. /\ Append(Contents, p) \in Seq(Packets)
      /\ Len(Append(Contents, p)) = m_size + 1
      /\ \A i \in 1 .. m_size : Append(Contents, p)[i] = Contents[i]
      /\ Append(Contents, p)[m_size + 1] = p
  BY <1>3, AppendProperties
<1>5. ASSUME NEW i \in 1 .. m_size + 1
      PROVE  Contents'[i] = m_buffer'[(m_head + (i - 1)) % Capacity]
  BY <1>1, <1>2, ContentsSeq, ContentsSeqNext DEF SeqOfHeld
<1>6. ASSUME NEW i \in 1 .. m_size
      PROVE  Contents'[i] = Append(Contents, p)[i]
  <2>1. i \in 1 .. m_size + 1 /\ i - 1 \in Indices /\ i - 1 # m_size
    BY <1>2, ChannelAssumption DEF Indices
  <2>2. (m_head + (i - 1)) % Capacity # m_tail
    BY <1>2, <2>1, PlacesDiffer DEF RingOK, TailFollowsHead
  <2>3. (m_head + (i - 1)) % Capacity \in Indices
    <3>1. m_head + (i - 1) \in Int
      BY <1>2
    <3> QED
      BY <3>1, IndexWraps
  <2>4. Contents'[i] = m_buffer[(m_head + (i - 1)) % Capacity]
    BY <1>2, <1>5, <2>1, <2>2, <2>3 DEF RingOK
  <2> QED
    BY <1>4, <2>4, ContentsSeq DEF SeqOfHeld
<1>7. Contents'[m_size + 1] = p
  <2>1. m_size + 1 \in 1 .. m_size + 1
        /\ m_head + ((m_size + 1) - 1) = m_head + m_size
    BY <1>2
  <2>2. Contents'[m_size + 1] = m_buffer'[(m_head + m_size) % Capacity]
    BY <1>2, <1>5, <2>1
  <2> QED
    BY <1>2, <2>2 DEF RingOK, TailFollowsHead
<1>8. \A i \in 1 .. Len(Contents') : Contents'[i] = Append(Contents, p)[i]
  <2>1. ASSUME NEW i \in 1 .. m_size + 1
        PROVE  i \in 1 .. m_size \/ i = m_size + 1
    BY <1>2
  <2> QED
    BY <1>3, <1>4, <1>6, <1>7, <2>1
<1> QED
  BY <1>3, <1>4, <1>8, SeqEqual

(* PopHead takes the first of the contents.                                *)
LEMMA PopTakesFirst ==
  ASSUME RingOK, ~Empty, PopHead
  PROVE  Contents # <<>> /\ Contents' = Tail(Contents)
<1>1. RingOK'
  BY PopKeepsRing
<1>2. /\ m_size \in Nat \ {0} /\ m_size' = m_size - 1 /\ m_size - 1 \in Indices
      /\ m_head \in Indices /\ m_head \in Nat /\ m_head' = Advance(m_head)
      /\ m_buffer' = m_buffer
  BY ChannelAssumption DEF PopHead, Empty, Indices, RingOK
<1>3. /\ Contents \in Seq(Packets) /\ Len(Contents) = m_size
      /\ Contents' \in Seq(Packets) /\ Len(Contents') = m_size - 1
  BY <1>1, <1>2, ContentsSeq, ContentsSeqNext DEF SeqOfHeld
<1>4. Contents # <<>>
  BY <1>2, <1>3, EmptySeq
<1>5. /\ Tail(Contents) \in Seq(Packets)
      /\ Len(Tail(Contents)) = m_size - 1
      /\ \A i \in 1 .. Len(Tail(Contents)) : Tail(Contents)[i] = Contents[i + 1]
  BY <1>3, <1>4, HeadTailProperties
<1>6. ASSUME NEW i \in 1 .. m_size - 1
      PROVE  Contents'[i] = Tail(Contents)[i]
  <2>1. /\ i - 1 \in Indices /\ i + 1 \in 1 .. m_size /\ (i + 1) - 1 = i
        /\ m_head + (i - 1) + 1 = m_head + i
    BY <1>2, ChannelAssumption DEF Indices
  <2>2. Contents'[i] = m_buffer[(Advance(m_head) + (i - 1)) % Capacity]
    BY <1>1, <1>2, ContentsSeq, ContentsSeqNext DEF SeqOfHeld
  <2>3. (Advance(m_head) + (i - 1)) % Capacity = (m_head + i) % Capacity
    BY <1>2, <2>1, AdvanceShifts
  <2>4. Contents[i + 1] = m_buffer[(m_head + i) % Capacity]
    BY <2>1, ContentsSeq DEF SeqOfHeld
  <2> QED
    BY <1>5, <2>2, <2>3, <2>4
<1>7. \A i \in 1 .. Len(Contents') : Contents'[i] = Tail(Contents)[i]
  BY <1>3, <1>6
<1> QED
  BY <1>3, <1>4, <1>5, <1>7, SeqEqual

(* Every step of the channel is a step of the bounded queue or a stutter.  *)
LEMMA FifoStep ==
  ASSUME IInv, [Next]_vars
  PROVE  [Fifo!Next]_(Fifo!vars)
<1> USE DEF Fifo!vars
<1>1. RingOK
  BY DEF IInv, TypeOK, RingOK
<1>2. ASSUME UNCHANGED <<ringVars, m_closed>>
      PROVE  UNCHANGED Fifo!vars
  BY <1>2, ContentsUntouched
<1>3. ASSUME NEW t \in Threads, CallStep(t)
      PROVE  [Fifo!Next]_(Fifo!vars)
  <2>1. ASSUME NEW p \in Packets, NEW b \in BOOLEAN, PublishAccepts(t, p, b)
        PROVE  Fifo!Next
    <3>1. Contents' = Append(Contents, p)
      BY <1>1, <2>1, PushAppends DEF PublishAccepts, PublishAllowed
    <3>2. Len(Contents) < Capacity
      <4>1. Len(Contents) = m_size /\ m_size # Capacity
        BY <1>1, <2>1, ContentsSeq DEF SeqOfHeld, PublishAccepts, PublishAllowed, Full
      <4> QED
        BY <1>1, <4>1, ChannelAssumption DEF RingOK
    <3>3. Fifo!Put(p)
      BY <2>1, <3>1, <3>2 DEF Fifo!Put, PublishAccepts, PublishAllowed
    <3> QED
      BY <3>3 DEF Fifo!Next
  <2>2. ASSUME NEW p \in Packets, NEW b \in BOOLEAN, ConsumeReturns(t, p, b)
        PROVE  Fifo!Next
    <3>1. Fifo!Get
      BY <1>1, <2>2, PopTakesFirst DEF ConsumeReturns, Fifo!Get
    <3> QED
      BY <3>1 DEF Fifo!Next
  <2>3. ASSUME NEW p \in Packets, NEW b \in BOOLEAN, PublishRefuses(t, p, b)
        PROVE  UNCHANGED <<ringVars, m_closed>>
    BY <2>3 DEF PublishRefuses
  <2>4. ASSUME NEW p \in Packets, PublishSleeps(t, p)
        PROVE  UNCHANGED <<ringVars, m_closed>>
    BY <2>4 DEF PublishSleeps
  <2>5. ASSUME NEW b \in BOOLEAN, ConsumeNothing(t, b)
        PROVE  UNCHANGED <<ringVars, m_closed>>
    BY <2>5 DEF ConsumeNothing
  <2>6. ConsumeSleeps(t) \/ Notifies(t) \/ CloseNotifies(t)
          => UNCHANGED <<ringVars, m_closed>>
    BY DEF ConsumeSleeps, Notifies, CloseNotifies
  <2> QED
    BY <1>2, <1>3, <2>1, <2>2, <2>3, <2>4, <2>5, <2>6 DEF CallStep
<1>4. ASSUME NEW t \in Threads, Close(t)
      PROVE  Fifo!Next
  BY <1>4, ContentsUntouched DEF Close, Fifo!Next, Fifo!Close
<1>5. ASSUME NEW t \in Threads, WrongThread(t) \/ SpuriousWakeUp(t)
      PROVE  UNCHANGED <<ringVars, m_closed>>
  BY <1>5 DEF WrongThread, SpuriousWakeUp, vars
<1>6. CASE UNCHANGED vars
  BY <1>2, <1>6 DEF vars
<1> QED
  BY <1>2, <1>3, <1>4, <1>5, <1>6 DEF Next

(* The ring of frame_packet_channel.cpp, with its wrapping indices and its *)
(* size counter, implements a bounded first-in first-out queue: no packet  *)
(* is lost, duplicated, reordered or overwritten, for every capacity.      *)
THEOREM RingImplementsFifo ==
  SafetySpec => ImplementsFifo
<1>1. Init => Fifo!Init
  BY FifoInit
<1>2. IInv /\ [Next]_vars => [Fifo!Next]_(Fifo!vars)
  BY FifoStep
<1> QED
  BY <1>1, <1>2, Invariance, PTL DEF SafetySpec, ImplementsFifo, Fifo!Spec

=============================================================================
