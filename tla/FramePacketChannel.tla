-------------------------- MODULE FramePacketChannel --------------------------
(***************************************************************************)
(* The bounded single-producer single-consumer ring of                     *)
(* src/threading/frame_packet_channel.cpp.                                 *)
(*                                                                         *)
(* A call is one step under m_mutex, except that it may sleep on a         *)
(* condition variable, and that every notification is sent after the mutex *)
(* has been released: call[t] records the call t sleeps in or the          *)
(* notification t has still to send.                                       *)
(***************************************************************************)
EXTENDS Naturals, Sequences, FiniteSets

CONSTANTS
  Threads,
  NoThread,
  Packets,     \* the packets a producer may send
  NoPacket,    \* the default-constructed contents of the ring
  Capacity     \* m_buffer.size()

ASSUME ChannelAssumption ==
  /\ NoThread \notin Threads
  /\ NoPacket \notin Packets
  /\ Capacity \in Nat \ {0}

VARIABLES
  m_buffer, m_head, m_tail, m_size, m_closed,
  m_producer_thread,   \* NoThread while m_has_producer is false
  m_consumer_thread,   \* NoThread while m_has_consumer is false
  call,                \* what each thread is inside of
  sent,                \* the argument of the Publish a thread sleeps in
  not_empty_sleepers,  \* threads asleep on m_not_empty
  not_full_sleepers    \* threads asleep on m_not_full

ringVars  == <<m_buffer, m_head, m_tail, m_size>>
ownerVars == <<m_producer_thread, m_consumer_thread>>
sleepVars == <<not_empty_sleepers, not_full_sleepers>>
vars == <<ringVars, m_closed, ownerVars, call, sent, sleepVars>>

Indices == 0 .. Capacity - 1

-----------------------------------------------------------------------------

MayProduce(t) == m_producer_thread \in {NoThread, t}
MayConsume(t) == m_consumer_thread \in {NoThread, t}

RegisterProducer(t) == m_producer_thread' = t /\ UNCHANGED m_consumer_thread
RegisterConsumer(t) == m_consumer_thread' = t /\ UNCHANGED m_producer_thread

Enters(t, name) == call' = [call EXCEPT ![t] = name]

Full  == m_size = Capacity
Empty == m_size = 0

Advance_Mutant(i) == (i + 1) % (Capacity - 1)
Advance(i) == (i + 1) % Capacity

PushTail(p) ==
  /\ m_buffer' = [m_buffer EXCEPT ![m_tail] = p]
  /\ m_tail' = Advance(m_tail)
  /\ m_size' = m_size + 1
  /\ UNCHANGED m_head

PopHead ==
  /\ m_head' = Advance(m_head)
  /\ m_size' = m_size - 1
  /\ UNCHANGED <<m_buffer, m_tail>>

(* TryPublish (not blocking) and Publish (blocking) test on entry, and     *)
(* Publish again, with its packet, after every wake-up.                    *)
PublishTests(t, p, blocking) ==
  \/ call[t] = "idle" /\ MayProduce(t)
  \/ /\ blocking /\ call[t] = "Publish" /\ sent[t] = p
     /\ t \notin not_full_sleepers

PublishAllowed == ~m_closed /\ ~Full

PublishAccepts(t, p, blocking) ==
  /\ PublishTests(t, p, blocking) /\ PublishAllowed
  /\ RegisterProducer(t)
  /\ PushTail(p)
  /\ Enters(t, "NotifyNotEmpty")
  /\ UNCHANGED <<m_closed, sent, sleepVars>>

(* Publish throws on a closed channel, TryPublish returns false on a       *)
(* closed or a full one.                                                   *)
PublishRefuses(t, p, blocking) ==
  /\ PublishTests(t, p, blocking)
  /\ m_closed \/ (~blocking /\ Full)
  /\ RegisterProducer(t)
  /\ Enters(t, "idle")
  /\ UNCHANGED <<ringVars, m_closed, sent, sleepVars>>

PublishSleeps(t, p) ==
  /\ PublishTests(t, p, TRUE) /\ ~m_closed /\ Full
  /\ RegisterProducer(t)
  /\ Enters(t, "Publish")
  /\ sent' = [sent EXCEPT ![t] = p]
  /\ not_full_sleepers' = not_full_sleepers \cup {t}
  /\ UNCHANGED <<ringVars, m_closed, not_empty_sleepers>>

(* TryConsume (not blocking) and Consume (blocking).                       *)
ConsumeTests(t, blocking) ==
  \/ call[t] = "idle" /\ MayConsume(t)
  \/ blocking /\ call[t] = "Consume" /\ t \notin not_empty_sleepers

(* Returns the packet at the head, whether or not the channel is closed.   *)
ConsumeReturns(t, p, blocking) ==
  /\ ConsumeTests(t, blocking) /\ ~Empty
  /\ p = m_buffer[m_head]
  /\ RegisterConsumer(t)
  /\ PopHead
  /\ Enters(t, "NotifyNotFull")
  /\ UNCHANGED <<m_closed, sent, sleepVars>>

ConsumeNothing_Mutant(t, blocking) ==
  /\ ConsumeTests(t, blocking) /\ (m_closed \/ ~blocking)
  /\ RegisterConsumer(t)
  /\ Enters(t, "idle")
  /\ m_size' = 0 /\ m_head' = m_tail
  /\ UNCHANGED <<m_buffer, m_tail, m_closed, sent, sleepVars>>
ConsumeNothing(t, blocking) ==
  /\ ConsumeTests(t, blocking) /\ Empty /\ (m_closed \/ ~blocking)
  /\ RegisterConsumer(t)
  /\ Enters(t, "idle")
  /\ UNCHANGED <<ringVars, m_closed, sent, sleepVars>>

ConsumeSleeps(t) ==
  /\ ConsumeTests(t, TRUE) /\ Empty /\ ~m_closed
  /\ RegisterConsumer(t)
  /\ Enters(t, "Consume")
  /\ not_empty_sleepers' = not_empty_sleepers \cup {t}
  /\ UNCHANGED <<ringVars, m_closed, sent, not_full_sleepers>>

(* A second producer or consumer is rejected with an exception.            *)
WrongThread(t) ==
  /\ call[t] = "idle"
  /\ ~MayProduce(t) \/ ~MayConsume(t)
  /\ UNCHANGED vars

-----------------------------------------------------------------------------
(* Notifications, sent without the mutex.                                  *)

NotifyOne_Mutant(t) == UNCHANGED sleepVars
NotifyOne(t) ==
  \/ /\ call[t] = "NotifyNotEmpty" /\ UNCHANGED not_full_sleepers
     /\ IF not_empty_sleepers = {} THEN UNCHANGED not_empty_sleepers
        ELSE \E u \in not_empty_sleepers :
               not_empty_sleepers' = not_empty_sleepers \ {u}
  \/ /\ call[t] = "NotifyNotFull" /\ UNCHANGED not_empty_sleepers
     /\ IF not_full_sleepers = {} THEN UNCHANGED not_full_sleepers
        ELSE \E u \in not_full_sleepers :
               not_full_sleepers' = not_full_sleepers \ {u}

Notifies(t) ==
  /\ call[t] \in {"NotifyNotEmpty", "NotifyNotFull"}
  /\ NotifyOne(t)
  /\ Enters(t, "idle")
  /\ UNCHANGED <<ringVars, m_closed, ownerVars, sent>>

Close(t) ==
  /\ call[t] = "idle"
  /\ m_closed' = TRUE
  /\ Enters(t, "Close")
  /\ UNCHANGED <<ringVars, ownerVars, sent, sleepVars>>

NotifyAll_Mutant == not_empty_sleepers' = {} /\ UNCHANGED not_full_sleepers
NotifyAll == not_empty_sleepers' = {} /\ not_full_sleepers' = {}

CloseNotifies(t) ==
  /\ call[t] = "Close"
  /\ NotifyAll
  /\ Enters(t, "idle")
  /\ UNCHANGED <<ringVars, m_closed, ownerVars, sent>>

SpuriousWakeUp(t) ==
  /\ t \in not_empty_sleepers \cup not_full_sleepers
  /\ not_empty_sleepers' = not_empty_sleepers \ {t}
  /\ not_full_sleepers' = not_full_sleepers \ {t}
  /\ UNCHANGED <<ringVars, m_closed, ownerVars, call, sent>>

-----------------------------------------------------------------------------

Init ==
  /\ m_buffer = [i \in Indices |-> NoPacket]
  /\ m_head = 0 /\ m_tail = 0 /\ m_size = 0
  /\ m_closed = FALSE
  /\ m_producer_thread = NoThread /\ m_consumer_thread = NoThread
  /\ call = [t \in Threads |-> "idle"]
  /\ sent = [t \in Threads |-> NoPacket]
  /\ not_empty_sleepers = {} /\ not_full_sleepers = {}

CallStep(t) ==
  \/ \E p \in Packets : \/ PublishSleeps(t, p)
                        \/ \E b \in BOOLEAN : \/ PublishAccepts(t, p, b)
                                              \/ PublishRefuses(t, p, b)
                                              \/ ConsumeReturns(t, p, b)
  \/ \E b \in BOOLEAN : ConsumeNothing(t, b)
  \/ ConsumeSleeps(t)
  \/ Notifies(t)
  \/ CloseNotifies(t)

Next == \E t \in Threads : \/ CallStep(t) \/ Close(t)
                           \/ WrongThread(t) \/ SpuriousWakeUp(t)

(* A thread inside a call gets the mutex again and carries on.             *)
Resumes(t) == call[t] # "idle" /\ CallStep(t)

SafetySpec == Init /\ [][Next]_vars
Spec == SafetySpec /\ \A t \in Threads : WF_vars(Resumes(t))

-----------------------------------------------------------------------------
(* Properties.                                                             *)

(* Each variable keeps the type of the member it models.                   *)
TypeOK ==
  /\ m_buffer \in [Indices -> Packets \cup {NoPacket}]
  /\ m_head \in Indices /\ m_tail \in Indices /\ m_size \in 0 .. Capacity
  /\ m_closed \in BOOLEAN
  /\ m_producer_thread \in Threads \cup {NoThread}
  /\ m_consumer_thread \in Threads \cup {NoThread}
  /\ call \in [Threads -> {"idle", "Publish", "Consume", "NotifyNotEmpty",
                           "NotifyNotFull", "Close"}]
  /\ sent \in [Threads -> Packets \cup {NoPacket}]
  /\ not_empty_sleepers \subseteq Threads
  /\ not_full_sleepers \subseteq Threads

(* The packets held, oldest first.                                         *)
Contents == [i \in 1 .. m_size |-> m_buffer[(m_head + i - 1) % Capacity]]

Fifo == INSTANCE BoundedFifo WITH fifo <- Contents, closed <- m_closed

(* The ring, with its wrapping indices, implements a bounded first-in      *)
(* first-out queue that drains after Close().                              *)
ImplementsFifo == Fifo!Spec

NotificationPending(name) == \E u \in Threads : call[u] \in {name, "Close"}

(* No wake-up is lost although notify_one comes after the unlock and wakes *)
(* a single thread: whoever sleeps on m_not_empty (m_not_full) while there *)
(* is something to do is about to be notified.                             *)
NoLostWakeUp ==
  /\ \A t \in not_empty_sleepers :
       /\ call[t] = "Consume"
       /\ m_closed \/ ~Empty => NotificationPending("NotifyNotEmpty")
  /\ \A t \in not_full_sleepers :
       /\ call[t] = "Publish"
       /\ m_closed \/ ~Full => NotificationPending("NotifyNotFull")

(* A call that can go ahead, or that the close has to refuse, returns: a   *)
(* Publish for which there is room keeps that room, because the channel    *)
(* has one producer, and a Consume its packet, because it has one consumer.*)
BlockedCallsReturn ==
  \A t \in Threads :
    /\ (call[t] = "Publish" /\ (m_closed \/ ~Full)) ~> call[t] = "idle"
    /\ (call[t] = "Consume" /\ (m_closed \/ ~Empty)) ~> call[t] = "idle"

=============================================================================
