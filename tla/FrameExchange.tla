----------------------------- MODULE FrameExchange -----------------------------
(***************************************************************************)
(* The frame exchange of src/stage3_multicore_integration.cpp: the main    *)
(* thread hands one frame record at a time to a producer thread, which     *)
(* writes it into a slot of the FrameSlotPool and sends the slot's token   *)
(* through the FramePacketChannel to a consumer thread.  The descriptor is *)
(* sent before the slot is published, so the consumer may find the slot    *)
(* still being written.  Main gives a frame FRAME_WAIT to arrive and stops *)
(* both threads at the end or when anything fails.                         *)
(*                                                                         *)
(* Slots and Channel are the two components with all their steps; this     *)
(* module adds the program each thread runs, its program counter, and the  *)
(* coordination record with its mutex and condition variable.              *)
(***************************************************************************)
EXTENDS Integers, Sequences, FiniteSets

CONSTANTS
  ExpectedFrames,   \* m_expected_frames; m_first_tick is 1
  SlotCount,        \* FRAME_SLOT_COUNT
  Capacity          \* FRAME_CHANNEL_CAPACITY

ASSUME ExchangeAssumption ==
  ExpectedFrames \in Nat \ {0} /\ SlotCount \in Nat \ {0}
  /\ Capacity \in Nat \ {0}

Threads  == {"main", "producer", "consumer"}
NoThread == "nobody"
Ticks    == 1 .. ExpectedFrames
NoTick   == 0
NoError  == "none"

(* A record fills the payload; generations cannot run out.                 *)
RecordSize    == 1
MaxGeneration == ExpectedFrames
Tokens   == [slot_id : 0 .. SlotCount - 1, generation : 0 .. MaxGeneration]
Packets  == [tick : Ticks, slot : Tokens]
NoPacket == [tick |-> NoTick, slot |-> [slot_id |-> 0, generation |-> 0]]

VARIABLES
  state, generation, payload_size, was_cancelled, slots_closed,
  slots_producer, slots_consumer, m_active_operations, write_leases,
  read_leases, slots_call, read_token, state_sleepers, idle_sleepers, lifetime

VARIABLES
  m_buffer, m_head, m_tail, m_size, channel_closed, channel_producer,
  channel_consumer, channel_call, sent, not_empty_sleepers, not_full_sleepers

VARIABLES
  pc,              \* where each thread is in its program
  failure,         \* the exception each thread is handling
  pending,         \* m_coordination.pending
  in_flight,       \* m_coordination.in_flight
  error,           \* m_coordination.error
  stop_requested,  \* m_coordination.stop_requested
  sleepers,        \* threads asleep on m_coordination.condition
  payload,         \* the tick of the record in each slot's bytes
  record,          \* ProduceFrames' record
  packet,          \* ConsumeFrames' packet
  expected_tick,   \* ConsumeFrames' expected_tick
  published,       \* how many Publish calls returned normally to main
  outcome,         \* how main's Stop or StopNoexcept ended
  disturbed        \* a frame timed out, or main failed on its own

Slots == INSTANCE FrameSlotPool WITH
  PayloadCapacity <- RecordSize, m_closed <- slots_closed,
  m_producer_thread <- slots_producer, m_consumer_thread <- slots_consumer,
  call <- slots_call

Channel == INSTANCE FramePacketChannel WITH
  m_closed <- channel_closed, m_producer_thread <- channel_producer,
  m_consumer_thread <- channel_consumer, call <- channel_call

slotVars    == <<state, generation, payload_size, was_cancelled, slots_closed,
                 slots_producer, slots_consumer, m_active_operations,
                 write_leases, read_leases, slots_call, read_token,
                 state_sleepers, idle_sleepers, lifetime>>
channelVars == <<m_buffer, m_head, m_tail, m_size, channel_closed,
                 channel_producer, channel_consumer, channel_call, sent,
                 not_empty_sleepers, not_full_sleepers>>
coordVars   == <<pending, in_flight, error, stop_requested>>
localVars   == <<payload, record, packet, expected_tick, published, outcome,
                 disturbed>>
vars == <<slotVars, channelVars, pc, failure, coordVars, sleepers, localVars>>

-----------------------------------------------------------------------------
(* The coordination mutex is held for one step at a time.                  *)

Goto(t, label) == pc' = [pc EXCEPT ![t] = label]

(* notify_all, after the mutex has been released.                          *)
WakeAll_Mutant == UNCHANGED sleepers
WakeAll == sleepers' = {}

NotifyAll(t, from, to) ==
  /\ pc[t] = from /\ Goto(t, to)
  /\ WakeAll
  /\ UNCHANGED <<slotVars, channelVars, failure, coordVars, localVars>>

Sleeps(t) ==
  /\ sleepers' = sleepers \cup {t}
  /\ UNCHANGED <<slotVars, channelVars, pc, failure, coordVars, localVars>>

(* A step of the slot pool or of the channel, taken by t.                  *)
SlotStep(t, A, to) ==
  A /\ Goto(t, to) /\ UNCHANGED <<channelVars, coordVars, sleepers>>
ChannelStep(t, A, to) ==
  A /\ Goto(t, to) /\ UNCHANGED <<slotVars, coordVars, sleepers>>

(* Throw: unwinding destroys an active lease before the handler runs.      *)
Throws(t, what) ==
  /\ failure' = [failure EXCEPT ![t] = what]
  /\ Goto(t, "unwind")

DropLease_Mutant(t) == UNCHANGED slotVars
DropLease(t) ==
  IF write_leases[t] \cup read_leases[t] = {}
  THEN UNCHANGED slotVars
  ELSE \E tok \in write_leases[t] \cup read_leases[t] :
         Slots!CancelWrite(t, tok) \/ Slots!ReleaseRead(t, tok)

Unwind(t) ==
  /\ pc[t] = "unwind"
  /\ DropLease(t)
  /\ Goto(t, IF t = "main" THEN "requestStop" ELSE "recordError")
  /\ UNCHANGED <<channelVars, failure, coordVars, sleepers, localVars>>

(* RecordError keeps the first error.                                      *)
KeepError(what) == IF error = NoError THEN what ELSE error

RecordError(t) ==
  /\ pc[t] = "recordError" /\ Goto(t, "notifyError")
  /\ error' = KeepError(failure[t])
  /\ stop_requested' = TRUE /\ pending' = NoTick /\ in_flight' = FALSE
  /\ UNCHANGED <<slotVars, channelVars, failure, sleepers, localVars>>

(* The handlers of both threads, main's timeout and RequestStop close the  *)
(* channel and then the slots; a producer that stops normally closes only  *)
(* the channel.                                                            *)
AfterChannel(t) ==
  IF t = "producer" /\ failure[t] = NoError THEN "done" ELSE "closeSlots"

CloseStep(t) ==
  /\ \/ /\ pc[t] = "closeChannel"
        /\ ChannelStep(t, Channel!Close(t), "channelClosed")
     \/ /\ pc[t] = "channelClosed"
        /\ ChannelStep(t, Channel!CloseNotifies(t), AfterChannel(t))
     \/ /\ pc[t] = "closeSlots"
        /\ SlotStep(t, Slots!Close(t), "slotsClosed")
     \/ /\ pc[t] = "slotsClosed"
        /\ SlotStep(t, Slots!CloseNotifies(t),
                    IF t = "main" THEN "notifyStop" ELSE "done")
  /\ UNCHANGED <<failure, localVars>>

-----------------------------------------------------------------------------
(* Main: Publish for every tick, then Stop; StopNoexcept after a failure.  *)

FramesLeft == published < ExpectedFrames

(* Overlap and a recorded error make Publish throw.                        *)
MainPublishes ==
  /\ pc["main"] = "ready" /\ FramesLeft
  /\ IF error # NoError \/ pending # NoTick \/ in_flight
     THEN /\ Throws("main", "publish")
          /\ UNCHANGED <<pending, in_flight>>
     ELSE /\ pending' = published + 1 /\ in_flight' = TRUE
          /\ Goto("main", "publishNotify")
          /\ UNCHANGED failure
  /\ UNCHANGED <<slotVars, channelVars, error, stop_requested, sleepers,
                 localVars>>

Arrived_Mutant == TRUE
Arrived == ~in_flight \/ error # NoError

MainWaits ==
  /\ pc["main"] = "publishWait" /\ "main" \notin sleepers
  /\ ~Arrived
  /\ Sleeps("main")

MainReturns ==
  /\ pc["main"] = "publishWait" /\ "main" \notin sleepers
  /\ Arrived
  /\ IF error # NoError
     THEN Throws("main", "publish") /\ UNCHANGED published
     ELSE /\ Goto("main", "ready") /\ published' = published + 1
          /\ UNCHANGED failure
  /\ UNCHANGED <<slotVars, channelVars, coordVars, sleepers, payload, record,
                 packet, expected_tick, outcome, disturbed>>

(* wait_for gives up before the frame arrives.                             *)
MainTimesOut ==
  /\ pc["main"] = "publishWait" /\ ~Arrived
  /\ error' = KeepError("timeout")
  /\ pending' = NoTick /\ in_flight' = FALSE /\ stop_requested' = TRUE
  /\ failure' = [failure EXCEPT !["main"] = "timeout"]
  /\ sleepers' = sleepers \ {"main"}
  /\ Goto("main", "closeChannel")
  /\ disturbed' = TRUE
  /\ UNCHANGED <<slotVars, channelVars, payload, record, packet,
                 expected_tick, published, outcome>>

(* Something other than the exchange fails between two frames.             *)
MainFails ==
  /\ pc["main"] = "ready" /\ FramesLeft
  /\ Throws("main", "tick")
  /\ disturbed' = TRUE
  /\ UNCHANGED <<slotVars, channelVars, coordVars, sleepers, payload, record,
                 packet, expected_tick, published, outcome>>

(* Stop and StopNoexcept run it.  After a timeout it is the second time    *)
(* main closes, and then the closing steps lead to the joins.              *)
MainRequestsStop ==
  /\ \/ pc["main"] = "ready" /\ ~FramesLeft
     \/ pc["main"] = "requestStop"
  /\ stop_requested' = TRUE /\ pending' = NoTick /\ in_flight' = FALSE
  /\ Goto("main", "closeChannel")
  /\ failure' = [failure EXCEPT !["main"] =
                   IF @ = "timeout" THEN "publish" ELSE @]
  /\ UNCHANGED <<slotVars, channelVars, error, sleepers, localVars>>

(* The timeout path rethrows out of Publish and reaches StopNoexcept; the  *)
(* other two go on to join the threads.                                    *)
MainNotifiesStop ==
  NotifyAll("main", "notifyStop",
            IF failure["main"] = "timeout" THEN "unwind" ELSE "join")

IsQuiescent ==
  /\ m_active_operations = 0
  /\ \A s \in 0 .. SlotCount - 1 : state[s] = "Free"

(* After both joins Stop requires the channel closed and empty and the     *)
(* slots quiescent, and rethrows a stored error; StopNoexcept terminates   *)
(* the process if the slots are not quiescent.                             *)
MainJoins ==
  /\ pc["main"] = "join"
  /\ pc["producer"] = "done" /\ pc["consumer"] = "done"
  /\ outcome' = IF failure["main"] = NoError
                THEN CASE ~(channel_closed /\ m_size = 0 /\ IsQuiescent)
                            -> "requirement failed"
                       [] error # NoError -> "error"
                       [] OTHER -> "stopped"
                ELSE IF IsQuiescent THEN "error" ELSE "terminated"
  /\ Goto("main", "done")
  /\ UNCHANGED <<slotVars, channelVars, failure, coordVars, sleepers, payload,
                 record, packet, expected_tick, published, disturbed>>

MainStep ==
  \/ MainPublishes \/ MainWaits \/ MainReturns \/ MainRequestsStop
  \/ MainNotifiesStop \/ MainJoins
  \/ NotifyAll("main", "publishNotify", "publishWait")

-----------------------------------------------------------------------------
(* ProduceFrames.                                                          *)

ProducerTakes ==
  /\ pc["producer"] = "wait" /\ "producer" \notin sleepers
  /\ pending # NoTick
  /\ record' = pending /\ pending' = NoTick
  /\ Goto("producer", "acquireWrite")
  /\ UNCHANGED <<slotVars, channelVars, failure, in_flight, error,
                 stop_requested, sleepers, payload, packet, expected_tick,
                 published, outcome, disturbed>>

ProducerWaits ==
  /\ pc["producer"] = "wait" /\ "producer" \notin sleepers
  /\ pending = NoTick /\ ~stop_requested
  /\ Sleeps("producer")

ProducerStops ==
  /\ pc["producer"] = "wait" /\ "producer" \notin sleepers
  /\ pending = NoTick /\ stop_requested
  /\ Goto("producer", "closeChannel")
  /\ UNCHANGED <<slotVars, channelVars, failure, coordVars, sleepers,
                 localVars>>

ProducerAcquires ==
  /\ pc["producer"] = "acquireWrite"
  /\ \/ /\ SlotStep("producer", Slots!AcquireWriteLease("producer", TRUE),
                    "fill")
        /\ UNCHANGED failure
     \/ /\ Slots!AcquireWriteNothing("producer", TRUE)
        /\ Throws("producer", "no slot")
        /\ UNCHANGED <<channelVars, coordVars, sleepers>>
  /\ UNCHANGED localVars

(* memcpy of the record into the payload, and SetPayloadSize.              *)
ProducerFills ==
  \E tok \in write_leases["producer"] :
    /\ pc["producer"] = "fill"
    /\ SlotStep("producer",
                Slots!SetPayloadSize("producer", tok, RecordSize), "send")
    /\ payload' = [payload EXCEPT ![tok.slot_id] = record]
    /\ UNCHANGED <<failure, record, packet, expected_tick, published, outcome,
                   disturbed>>

Descriptor_Mutant(tok) ==
  [tick |-> record, slot |-> [tok EXCEPT !.generation = @ - 1]]
Descriptor(tok) == [tick |-> record, slot |-> tok]

(* The descriptor goes out while the slot is still Writing; a closed       *)
(* channel throws.                                                         *)
ProducerSends ==
  \E tok \in write_leases["producer"] :
    /\ pc["producer"] = "send"
    /\ \/ /\ ChannelStep("producer",
                         Channel!PublishAccepts("producer", Descriptor(tok), TRUE),
                         "sendNotify")
          /\ UNCHANGED failure
       \/ /\ Channel!PublishRefuses("producer", Descriptor(tok), TRUE)
          /\ Throws("producer", "channel closed")
          /\ UNCHANGED <<slotVars, coordVars, sleepers>>
    /\ UNCHANGED localVars

ProducerNotifies ==
  /\ pc["producer"] = "sendNotify"
  /\ ChannelStep("producer", Channel!Notifies("producer"), "publish")
  /\ UNCHANGED <<failure, localVars>>

ProducerPublishes ==
  \E tok \in write_leases["producer"] :
    /\ pc["producer"] = "publish"
    /\ \/ /\ SlotStep("producer", Slots!PublishWrite("producer", tok), "wait")
          /\ UNCHANGED failure
       \/ /\ Slots!PublishWriteThrows("producer", tok)
          /\ Throws("producer", "slots closed")
          /\ UNCHANGED <<channelVars, coordVars, sleepers>>
    /\ UNCHANGED localVars

ProducerStep ==
  \/ ProducerTakes \/ ProducerWaits \/ ProducerStops \/ ProducerAcquires
  \/ ProducerFills \/ ProducerSends \/ ProducerNotifies \/ ProducerPublishes

-----------------------------------------------------------------------------
(* ConsumeFrames.                                                          *)

ConsumerConsumes ==
  /\ pc["consumer"] = "consume"
  /\ \/ \E p \in Packets :
          /\ ChannelStep("consumer", Channel!ConsumeReturns("consumer", p, TRUE),
                         "consumeNotify")
          /\ packet' = p
     \/ /\ ChannelStep("consumer", Channel!ConsumeNothing("consumer", TRUE),
                       "end")
        /\ UNCHANGED packet
     \/ /\ ChannelStep("consumer", Channel!ConsumeSleeps("consumer"), "consume")
        /\ UNCHANGED packet
  /\ UNCHANGED <<failure, payload, record, expected_tick, published, outcome,
                 disturbed>>

ConsumerNotifies ==
  /\ pc["consumer"] = "consumeNotify"
  /\ ChannelStep("consumer", Channel!Notifies("consumer"), "acquireRead")
  /\ UNCHANGED <<failure, localVars>>

ConsumerAcquires ==
  /\ pc["consumer"] = "acquireRead"
  /\ \/ /\ SlotStep("consumer",
                    Slots!AcquireReadLease("consumer", packet.slot, TRUE),
                    "check")
        /\ UNCHANGED failure
     \/ /\ SlotStep("consumer",
                    Slots!AcquireReadSleeps("consumer", packet.slot),
                    "acquireRead")
        /\ UNCHANGED failure
     \/ /\ Slots!AcquireReadNothing("consumer", packet.slot, TRUE)
        /\ Throws("consumer", "no lease")
        /\ UNCHANGED <<channelVars, coordVars, sleepers>>
  /\ UNCHANGED localVars

(* The Requires on the payload's size, order and agreement with the packet *)
ConsumerChecks ==
  /\ pc["consumer"] = "check"
  /\ LET s == packet.slot.slot_id IN
     IF /\ payload_size[s] = RecordSize
        /\ payload[s] = expected_tick
        /\ payload[s] = packet.tick
     THEN Goto("consumer", "release") /\ UNCHANGED failure
     ELSE Throws("consumer", "bad frame")
  /\ UNCHANGED <<slotVars, channelVars, coordVars, sleepers, localVars>>

ConsumerReleases ==
  /\ pc["consumer"] = "release"
  /\ SlotStep("consumer", Slots!ReleaseRead("consumer", packet.slot),
              "complete")
  /\ UNCHANGED <<failure, localVars>>

ConsumerCompletes ==
  /\ pc["consumer"] = "complete" /\ Goto("consumer", "completeNotify")
  /\ in_flight' = FALSE
  /\ expected_tick' = expected_tick + 1
  /\ UNCHANGED <<slotVars, channelVars, failure, pending, error,
                 stop_requested, sleepers, payload, record, packet, published,
                 outcome, disturbed>>

AllReceived_Mutant == expected_tick = ExpectedFrames
AllReceived == expected_tick = 1 + ExpectedFrames

ConsumerEnds ==
  /\ pc["consumer"] = "end"
  /\ IF AllReceived
     THEN Goto("consumer", "done") /\ UNCHANGED failure
     ELSE Throws("consumer", "missing frames")
  /\ UNCHANGED <<slotVars, channelVars, coordVars, sleepers, localVars>>

ConsumerStep ==
  \/ ConsumerConsumes \/ ConsumerNotifies \/ ConsumerAcquires
  \/ ConsumerChecks \/ ConsumerReleases \/ ConsumerCompletes \/ ConsumerEnds
  \/ NotifyAll("consumer", "completeNotify", "consume")

-----------------------------------------------------------------------------

Init ==
  /\ Slots!Init /\ Channel!Init
  /\ pc = [t \in Threads |-> CASE t = "main" -> "ready"
                               [] t = "producer" -> "wait"
                               [] t = "consumer" -> "consume"]
  /\ failure = [t \in Threads |-> NoError]
  /\ pending = NoTick /\ in_flight = FALSE
  /\ error = NoError /\ stop_requested = FALSE
  /\ sleepers = {}
  /\ payload = [s \in 0 .. SlotCount - 1 |-> NoTick]
  /\ record = NoTick /\ packet = NoPacket /\ expected_tick = 1
  /\ published = 0 /\ outcome = "running" /\ disturbed = FALSE

(* What a thread does by itself, without timeouts and failures.            *)
ThreadStep(t) ==
  \/ t = "main" /\ MainStep
  \/ t = "producer" /\ ProducerStep
  \/ t = "consumer" /\ ConsumerStep
  \/ t # "main" /\ (RecordError(t) \/ NotifyAll(t, "notifyError", "closeChannel"))
  \/ Unwind(t)
  \/ CloseStep(t)

SpuriousWakeUp(t) ==
  \/ /\ t \in sleepers /\ sleepers' = sleepers \ {t}
     /\ UNCHANGED <<slotVars, channelVars, pc, failure, coordVars, localVars>>
  \/ /\ Slots!SpuriousWakeUp(t)
     /\ UNCHANGED <<channelVars, pc, failure, coordVars, sleepers, localVars>>
  \/ /\ Channel!SpuriousWakeUp(t)
     /\ UNCHANGED <<slotVars, pc, failure, coordVars, sleepers, localVars>>

AllDone == \A t \in Threads : pc[t] = "done"

Finished == AllDone /\ UNCHANGED vars

Next ==
  \/ \E t \in Threads : ThreadStep(t) \/ SpuriousWakeUp(t)
  \/ MainTimesOut \/ MainFails
  \/ Finished

Fairness == \A t \in Threads : WF_vars(ThreadStep(t))

Spec == Init /\ [][Next]_vars /\ Fairness

-----------------------------------------------------------------------------
(* Properties.                                                             *)

Failures == {NoError, "publish", "timeout", "tick", "no slot", "channel closed",
             "slots closed", "no lease", "bad frame", "missing frames"}

MainLabels     == {"ready", "publishNotify", "publishWait", "unwind", "requestStop",
                   "closeChannel", "channelClosed", "closeSlots", "slotsClosed",
                   "notifyStop", "join", "done"}
HandlerLabels  == {"unwind", "recordError", "notifyError", "closeChannel",
                   "channelClosed", "closeSlots", "slotsClosed", "done"}
ProducerLabels == HandlerLabels \cup {"wait", "acquireWrite", "fill", "send",
                                      "sendNotify", "publish"}
ConsumerLabels == HandlerLabels \cup {"consume", "consumeNotify", "acquireRead",
                                      "check", "release", "complete",
                                      "completeNotify", "end"}

(* The program variables keep their types.                                 *)
TypeOK ==
  /\ pc \in [Threads -> MainLabels \cup ProducerLabels \cup ConsumerLabels]
  /\ pc["main"] \in MainLabels /\ pc["producer"] \in ProducerLabels
  /\ pc["consumer"] \in ConsumerLabels
  /\ failure \in [Threads -> Failures] /\ error \in Failures
  /\ pending \in Ticks \cup {NoTick} /\ record \in Ticks \cup {NoTick}
  /\ in_flight \in BOOLEAN /\ stop_requested \in BOOLEAN
  /\ sleepers \subseteq Threads
  /\ payload \in [0 .. SlotCount - 1 -> Ticks \cup {NoTick}]
  /\ packet \in Packets \cup {NoPacket}
  /\ expected_tick \in 1 .. ExpectedFrames + 1
  /\ published \in 0 .. ExpectedFrames
  /\ outcome \in {"running", "error", "stopped", "requirement failed", "terminated"}
  /\ disturbed \in BOOLEAN

(* However the exchange stops, after both joins the channel is closed and  *)
(* empty and every slot is free: Stop's requirements hold and StopNoexcept *)
(* never terminates the process.                                           *)
ShutdownIsQuiescent ==
  /\ outcome \notin {"requirement failed", "terminated"}
  /\ lifetime = "alive"

(* Publish returns normally only for a frame the consumer has checked and  *)
(* released.                                                               *)
PublishMeansConsumed == published < expected_tick

(* With no timeout and no failure of main itself the exchange never        *)
(* records an error: sending the descriptor before publishing the slot     *)
(* never makes the consumer or the producer fail.                          *)
NoSpontaneousError == error # NoError => disturbed

(* A descriptor in the channel or in the consumer's hands names the        *)
(* current use of its slot, whatever is closed in the meantime, so         *)
(* AcquireRead never sees a stale token.                                   *)
DescriptorsFresh ==
  /\ \A i \in 1 .. m_size :
       LET tok == Channel!Contents[i].slot IN
       generation[tok.slot_id] = tok.generation
  /\ pc["consumer"] \in {"consumeNotify", "acquireRead", "check", "release"}
       => generation[packet.slot.slot_id] = packet.slot.generation

(* Frames are delivered as sent although the descriptor travels ahead of   *)
(* its slot: whoever holds it finds the slot in the use it names, nobody   *)
(* fails on his own, and Publish reports only what was consumed.           *)
FramesDelivered == DescriptorsFresh /\ NoSpontaneousError /\ PublishMeansConsumed

(* Stop and StopNoexcept return: all three threads finish in every run,    *)
(* timeouts and failures included, and an undisturbed run delivers every   *)
(* frame and stops cleanly.                                                *)
ExchangeStops ==
  <>(AllDone /\ (disturbed \/ (outcome = "stopped"
                               /\ expected_tick = ExpectedFrames + 1)))

=============================================================================
