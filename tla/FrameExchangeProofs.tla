------------------------- MODULE FrameExchangeProofs -------------------------
(***************************************************************************)
(* The proofs of ShutdownIsQuiescent and FramesDelivered of the exchange,  *)
(* for any number of frames and slots and any capacity of the channel.     *)
(*                                                                         *)
(* Two facts carry the argument.  There is one frame at a time: it is      *)
(* pending, being written, described by a packet under way, or being       *)
(* checked.  And trouble starts with main: until main has left its loop    *)
(* over the frames nothing is closed and no thread has failed.             *)
(***************************************************************************)
EXTENDS FrameExchange, TLAPS

SlotIds == 0 .. SlotCount - 1
Indices == 0 .. Capacity - 1

-----------------------------------------------------------------------------
(* The inductive invariant.                                                *)

(* Main's loop over the frames, and the loops of the two threads.          *)
Frames      == {"ready", "publishNotify", "publishWait"}
ProduceLoop == {"wait", "acquireWrite", "fill", "send", "sendNotify", "publish"}
ConsumeLoop == {"consume", "consumeNotify", "acquireRead", "check", "release",
                "complete", "completeNotify"}

(* The types of the pool's variables, and the calls a thread is inside:    *)
(* only the consumer sleeps in one, for its descriptor's slot.             *)
PoolTypes ==
  /\ state \in [SlotIds -> {"Free", "Writing", "Published", "Reading"}]
  /\ generation \in [SlotIds -> 0 .. MaxGeneration]
  /\ payload_size \in [SlotIds -> 0 .. RecordSize]
  /\ slots_closed \in BOOLEAN
  /\ write_leases \in [Threads -> SUBSET Tokens]
  /\ read_leases \in [Threads -> SUBSET Tokens]
  /\ slots_call \in [Threads -> {"idle", "AcquireRead", "Close"}]
  /\ lifetime = "alive"
  /\ \A t \in Threads : slots_call[t] = "AcquireRead" =>
       t = "consumer" /\ pc["consumer"] = "acquireRead"
  /\ m_active_operations = IF slots_call["consumer"] = "AcquireRead" THEN 1 ELSE 0

(* The ring holds one packet at most.                                      *)
RingTypes ==
  /\ m_buffer \in [Indices -> Packets \cup {NoPacket}]
  /\ m_head \in Indices /\ m_tail \in Indices /\ m_size \in {0, 1}
  /\ channel_closed \in BOOLEAN
  /\ m_size = 0 => m_tail = m_head
  /\ m_size = 1 => m_tail = Channel!Advance(m_head)

(* Where the frame is.                                                     *)
Pending   == pending # NoTick
Producing == pc["producer"] \in {"acquireWrite", "fill", "send"}
UnderWay  == m_size = 1 \/ pc["consumer"] \in {"consumeNotify", "acquireRead"}
Checking  == pc["consumer"] \in {"check", "release", "complete"}
Sending   == pc["producer"] \in {"sendNotify", "publish"}

(* The packet that describes it.                                           *)
Description == IF m_size = 1 THEN m_buffer[m_head] ELSE packet

OneFrame ==
  /\ Pending => ~Producing /\ ~Sending /\ ~UnderWay /\ ~Checking
  /\ Producing => ~UnderWay /\ ~Checking
  /\ UnderWay => ~Checking
  /\ m_size = 1 => pc["consumer"] \in {"consume", "completeNotify"}

(* Every frame is the one the consumer expects.                            *)
FrameExpected ==
  /\ Pending => pending = expected_tick /\ pc["main"] \in Frames
  /\ Producing => record = expected_tick
  /\ UnderWay => Description \in Packets /\ Description.tick = expected_tick
  /\ Checking => packet \in Packets /\ packet.tick = expected_tick

(* Main's loop: nothing has been closed, nobody has failed, and main knows *)
(* of the frame that is out.                                               *)
MainLoop ==
  pc["main"] \in Frames =>
    /\ ~channel_closed /\ ~slots_closed
    /\ error = NoError /\ ~stop_requested /\ ~disturbed
    /\ \A t \in Threads : failure[t] = NoError
    /\ pc["producer"] \in ProduceLoop /\ pc["consumer"] \in ConsumeLoop
    /\ Pending \/ Producing \/ Sending \/ UnderWay \/ Checking => in_flight
    /\ in_flight => pc["main"] # "ready" /\ expected_tick = published + 1
    /\ ~in_flight => expected_tick = IF pc["main"] = "ready" THEN published + 1 ELSE published + 2
    /\ pc["main"] # "ready" => FramesLeft

(* Outside of it, without a timeout or a failure of main, all the frames   *)
(* have been received and nobody fails.                                    *)
CleanStop ==
  pc["main"] \notin Frames /\ ~disturbed =>
    /\ published = ExpectedFrames /\ expected_tick = ExpectedFrames + 1
    /\ error = NoError /\ \A t \in Threads : failure[t] = NoError
    /\ pc["producer"] \in {"wait", "closeChannel", "channelClosed", "done"}
    /\ m_size = 0
    /\ pc["consumer"] \in {"consume", "completeNotify", "end", "done"}

(* The channel is closed before the slots, and before anybody goes on.     *)
ClosedInOrder ==
  /\ slots_closed => channel_closed
  /\ \A t \in Threads :
       pc[t] \in {"channelClosed", "closeSlots", "slotsClosed"} => channel_closed
  /\ pc["main"] \in {"notifyStop", "join", "done"} => channel_closed
  /\ pc["consumer"] \notin ConsumeLoop => channel_closed /\ m_size = 0

(* The producer holds the lease of the frame it writes.                    *)
Writes(tok) ==
  /\ write_leases["producer"] = {tok} /\ slots_producer = "producer"
  /\ tok \in Tokens /\ Slots!AtGeneration(tok, "Writing")

WriteLease ==
  /\ write_leases["main"] = {} /\ write_leases["consumer"] = {}
  /\ IF pc["producer"] \in {"fill", "send", "sendNotify", "publish"}
     THEN \E tok \in Tokens : Writes(tok)
     ELSE \/ write_leases["producer"] = {}
          \/ pc["producer"] = "unwind" /\ \E tok \in Tokens : Writes(tok)
  /\ pc["producer"] = "send" =>
       \A tok \in write_leases["producer"] :
         payload[tok.slot_id] = record /\ payload_size[tok.slot_id] = RecordSize

(* The consumer holds the lease of the frame it checks.                    *)
ReadLease ==
  /\ read_leases["main"] = {} /\ read_leases["producer"] = {}
  /\ IF pc["consumer"] \in {"check", "release"}
     THEN /\ read_leases["consumer"] = {packet.slot} /\ slots_consumer = "consumer"
          /\ Slots!AtGeneration(packet.slot, "Reading")
          /\ payload[packet.slot.slot_id] = packet.tick
          /\ payload_size[packet.slot.slot_id] = RecordSize
     ELSE read_leases["consumer"] = {}

(* The slot of a frame under way is still being written, published, or     *)
(* given up because the slots are closed.                                  *)
SlotOf(d) == d.slot.slot_id
DescribedSlot ==
  UnderWay =>
    /\ Description.slot.generation # 0
    /\ generation[SlotOf(Description)] = Description.slot.generation
    /\ \/ Sending /\ write_leases["producer"] = {Description.slot}
       \/ pc["producer"] = "unwind" /\ write_leases["producer"] = {Description.slot}
       \/ state[SlotOf(Description)] = "Published"
       \/ state[SlotOf(Description)] = "Free" /\ slots_closed
    /\ state[SlotOf(Description)] # "Free" =>
         /\ payload[SlotOf(Description)] = Description.tick
         /\ payload_size[SlotOf(Description)] = RecordSize
    /\ pc["producer"] = "unwind" => slots_closed

SentSlot ==
  Sending => \/ UnderWay /\ write_leases["producer"] = {Description.slot}
             \/ slots_closed

(* Every slot in use has somebody who will free it.                        *)
SlotsInUse ==
  \A s \in SlotIds :
    /\ state[s] = "Writing" => \E tok \in write_leases["producer"] : tok.slot_id = s
    /\ state[s] = "Reading" => \E tok \in read_leases["consumer"] : tok.slot_id = s
    /\ state[s] = "Published" => UnderWay /\ SlotOf(Description) = s

IInv ==
  /\ TypeOK /\ PoolTypes /\ RingTypes
  /\ OneFrame /\ FrameExpected /\ MainLoop /\ CleanStop /\ ClosedInOrder
  /\ WriteLease /\ ReadLease /\ DescribedSlot /\ SentSlot /\ SlotsInUse
  /\ ShutdownIsQuiescent /\ PublishMeansConsumed

-----------------------------------------------------------------------------
(* Where the threads are after one of them has gone on.                    *)

ControlOK ==
  /\ pc \in [Threads -> MainLabels \cup ProducerLabels \cup ConsumerLabels]
  /\ pc["main"] \in MainLabels /\ pc["producer"] \in ProducerLabels
  /\ pc["consumer"] \in ConsumerLabels

(* Main goes on, and the others stay.                                      *)
LEMMA MainGoes ==
  ASSUME IInv, NEW l \in MainLabels, Goto("main", l)
  PROVE  /\ ControlOK' /\ pc'["main"] = l
         /\ pc'["producer"] = pc["producer"] /\ pc'["consumer"] = pc["consumer"]
BY DEF IInv, TypeOK, ControlOK, Goto, Threads

(* The producer goes on, and the others stay.                              *)
LEMMA ProducerGoes ==
  ASSUME IInv, NEW l \in ProducerLabels, Goto("producer", l)
  PROVE  /\ ControlOK' /\ pc'["producer"] = l
         /\ pc'["main"] = pc["main"] /\ pc'["consumer"] = pc["consumer"]
BY DEF IInv, TypeOK, ControlOK, Goto, Threads

(* The consumer goes on, and the others stay.                              *)
LEMMA ConsumerGoes ==
  ASSUME IInv, NEW l \in ConsumerLabels, Goto("consumer", l)
  PROVE  /\ ControlOK' /\ pc'["consumer"] = l
         /\ pc'["main"] = pc["main"] /\ pc'["producer"] = pc["producer"]
BY DEF IInv, TypeOK, ControlOK, Goto, Threads

(* The counters of main and of the consumer are numbers within the bounds. *)
LEMMA Counters ==
  ASSUME IInv
  PROVE  /\ ExpectedFrames \in Nat /\ 1 <= ExpectedFrames
         /\ published \in Nat /\ published <= ExpectedFrames
         /\ expected_tick \in Nat /\ 1 <= expected_tick
         /\ expected_tick <= ExpectedFrames + 1
<1>1. published \in 0 .. ExpectedFrames /\ expected_tick \in 1 .. ExpectedFrames + 1
  BY DEF IInv, TypeOK
<1> QED
  BY <1>1, ExchangeAssumption

(* The flags are Booleans.                                                 *)
LEMMA Flags ==
  ASSUME IInv
  PROVE  /\ disturbed \in BOOLEAN /\ stop_requested \in BOOLEAN /\ in_flight \in BOOLEAN
         /\ channel_closed \in BOOLEAN /\ slots_closed \in BOOLEAN
BY DEF IInv, TypeOK, PoolTypes, RingTypes

-----------------------------------------------------------------------------
(* Steps of main.                                                          *)

(* Main hands over the next frame: its loop knows that none is out.         *)
LEMMA PublishKeeps ==
  ASSUME IInv, MainPublishes
  PROVE  IInv'
<1>1. /\ pc["main"] = "ready" /\ FramesLeft /\ Goto("main", "publishNotify")
      /\ error = NoError /\ pending = NoTick /\ ~in_flight
      /\ pending' = published + 1 /\ in_flight' = TRUE
      /\ UNCHANGED <<slotVars, channelVars, failure, error, stop_requested, sleepers, localVars>>
  BY DEF IInv, MainPublishes, MainLoop, Frames, Pending
<1>2. /\ ControlOK' /\ pc'["main"] = "publishNotify"
      /\ pc'["producer"] = pc["producer"] /\ pc'["consumer"] = pc["consumer"]
  BY <1>1, MainGoes DEF MainLabels
<1>3. published + 1 \in Ticks
  BY <1>1, Counters DEF FramesLeft, Ticks
<1> USE DEF IInv, slotVars, channelVars, coordVars, localVars
<1>4. TypeOK'
  BY <1>1, <1>2, <1>3, ExchangeAssumption DEF TypeOK, ControlOK
<1>5. PoolTypes'
  BY <1>1, <1>2, <1>3 DEF PoolTypes, Threads
<1>6. RingTypes'
  BY <1>1, <1>2, <1>3 DEF RingTypes, Channel!Advance
<1>7. OneFrame'
  BY <1>1, <1>2, <1>3 DEF OneFrame, Pending, Producing, UnderWay, Checking, Sending,
       MainLoop, Frames
<1>8. FrameExpected'
  BY <1>1, <1>2, <1>3 DEF FrameExpected, Description, Frames, Pending, Producing,
       UnderWay, Checking, Sending, MainLoop
<1>9. MainLoop'
  BY <1>1, <1>2, <1>3 DEF MainLoop, Frames, FramesLeft, Threads, ProduceLoop,
       ConsumeLoop, Pending, Producing, UnderWay, Checking, Sending
<1>10. CleanStop'
  BY <1>1, <1>2, <1>3 DEF CleanStop, Frames, Threads
<1>11. ClosedInOrder'
  BY <1>1, <1>2, <1>3 DEF ClosedInOrder, Threads, ConsumeLoop
<1>12. WriteLease'
  BY <1>1, <1>2, <1>3 DEF WriteLease, Writes, Slots!AtGeneration
<1>13. ReadLease'
  BY <1>1, <1>2, <1>3 DEF ReadLease, Slots!AtGeneration
<1>14. DescribedSlot'
  BY <1>1, <1>2, <1>3 DEF DescribedSlot, UnderWay, Description, Sending, SlotOf
<1>15. SentSlot'
  BY <1>1, <1>2, <1>3 DEF SentSlot, UnderWay, Description, Sending
<1>16. SlotsInUse'
  BY <1>1, <1>2, <1>3 DEF SlotsInUse, UnderWay, Description, SlotOf
<1>17. ShutdownIsQuiescent'
  BY <1>1, <1>2, <1>3 DEF ShutdownIsQuiescent, PoolTypes
<1>18. PublishMeansConsumed'
  BY <1>1, <1>2, <1>3 DEF PublishMeansConsumed
<1> QED
  BY <1>4, <1>5, <1>6, <1>7, <1>8, <1>9, <1>10, <1>11, <1>12, <1>13, <1>14, <1>15,
       <1>16, <1>17, <1>18

(* Main has notified and waits.                                             *)
LEMMA PublishNotifyKeeps ==
  ASSUME IInv, NotifyAll("main", "publishNotify", "publishWait")
  PROVE  IInv'
<1>1. /\ pc["main"] = "publishNotify" /\ Goto("main", "publishWait") /\ sleepers' = {}
      /\ UNCHANGED <<slotVars, channelVars, failure, coordVars, localVars>>
  BY DEF NotifyAll, WakeAll
<1>2. /\ ControlOK' /\ pc'["main"] = "publishWait"
      /\ pc'["producer"] = pc["producer"] /\ pc'["consumer"] = pc["consumer"]
  BY <1>1, MainGoes DEF MainLabels
<1> USE DEF IInv, slotVars, channelVars, coordVars, localVars
<1>3. TypeOK'
  BY <1>1, <1>2, ExchangeAssumption DEF TypeOK, ControlOK
<1>4. PoolTypes'
  BY <1>1, <1>2 DEF PoolTypes, Threads
<1>5. RingTypes'
  BY <1>1, <1>2 DEF RingTypes, Channel!Advance
<1>6. OneFrame'
  BY <1>1, <1>2 DEF OneFrame, Pending, Producing, UnderWay, Checking, Sending
<1>7. FrameExpected'
  BY <1>1, <1>2 DEF FrameExpected, Description, Frames, Pending, Producing, UnderWay,
       Checking, Sending
<1>8. MainLoop'
  BY <1>1, <1>2 DEF MainLoop, Frames, FramesLeft, Threads, ProduceLoop, ConsumeLoop,
       Pending, Producing, UnderWay, Checking, Sending
<1>9. CleanStop'
  BY <1>1, <1>2 DEF CleanStop, Frames, Threads
<1>10. ClosedInOrder'
  BY <1>1, <1>2 DEF ClosedInOrder, Threads, ConsumeLoop
<1>11. WriteLease'
  BY <1>1, <1>2 DEF WriteLease, Writes, Slots!AtGeneration
<1>12. ReadLease'
  BY <1>1, <1>2 DEF ReadLease, Slots!AtGeneration
<1>13. DescribedSlot'
  BY <1>1, <1>2 DEF DescribedSlot, UnderWay, Description, Sending, SlotOf
<1>14. SentSlot'
  BY <1>1, <1>2 DEF SentSlot, UnderWay, Description, Sending
<1>15. SlotsInUse'
  BY <1>1, <1>2 DEF SlotsInUse, UnderWay, Description, SlotOf
<1>16. ShutdownIsQuiescent'
  BY <1>1, <1>2 DEF ShutdownIsQuiescent, PoolTypes
<1>17. PublishMeansConsumed'
  BY <1>1, <1>2 DEF PublishMeansConsumed
<1> QED
  BY <1>3, <1>4, <1>5, <1>6, <1>7, <1>8, <1>9, <1>10, <1>11, <1>12, <1>13, <1>14, <1>15,
       <1>16, <1>17

(* The frame has arrived: in its loop main finds no error.                  *)
LEMMA ReturnKeeps ==
  ASSUME IInv, MainReturns
  PROVE  IInv'
<1>1. /\ pc["main"] = "publishWait" /\ ~in_flight /\ error = NoError /\ FramesLeft
      /\ Goto("main", "ready") /\ published' = published + 1
      /\ UNCHANGED <<slotVars, channelVars, coordVars, sleepers, failure, payload, record, packet,
                     expected_tick, outcome, disturbed>>
  BY DEF IInv, MainReturns, MainLoop, Frames, Arrived
<1>2. /\ ControlOK' /\ pc'["main"] = "ready"
      /\ pc'["producer"] = pc["producer"] /\ pc'["consumer"] = pc["consumer"]
  BY <1>1, MainGoes DEF MainLabels
<1>3. /\ published + 1 \in 0 .. ExpectedFrames
      /\ expected_tick = (published + 1) + 1 /\ published + 1 < expected_tick
  <2>1. expected_tick = published + 2
    BY <1>1 DEF IInv, MainLoop, Frames
  <2> QED
    BY <1>1, <2>1, Counters DEF FramesLeft
<1> USE DEF IInv, slotVars, channelVars, coordVars, localVars
<1>4. TypeOK'
  BY <1>1, <1>2, <1>3, ExchangeAssumption DEF TypeOK, ControlOK
<1>5. PoolTypes'
  BY <1>1, <1>2, <1>3 DEF PoolTypes, Threads
<1>6. RingTypes'
  BY <1>1, <1>2, <1>3 DEF RingTypes, Channel!Advance
<1>7. OneFrame'
  BY <1>1, <1>2, <1>3 DEF OneFrame, Pending, Producing, UnderWay, Checking, Sending
<1>8. FrameExpected'
  BY <1>1, <1>2, <1>3 DEF FrameExpected, Description, Frames, Pending, Producing,
       UnderWay, Checking, Sending, MainLoop
<1>9. MainLoop'
  BY <1>1, <1>2, <1>3 DEF MainLoop, Frames, FramesLeft, Threads, ProduceLoop,
       ConsumeLoop, Pending, Producing, UnderWay, Checking, Sending
<1>10. CleanStop'
  BY <1>1, <1>2, <1>3 DEF CleanStop, Frames, Threads
<1>11. ClosedInOrder'
  BY <1>1, <1>2, <1>3 DEF ClosedInOrder, Threads, ConsumeLoop
<1>12. WriteLease'
  BY <1>1, <1>2, <1>3 DEF WriteLease, Writes, Slots!AtGeneration
<1>13. ReadLease'
  BY <1>1, <1>2, <1>3 DEF ReadLease, Slots!AtGeneration
<1>14. DescribedSlot'
  BY <1>1, <1>2, <1>3 DEF DescribedSlot, UnderWay, Description, Sending, SlotOf
<1>15. SentSlot'
  BY <1>1, <1>2, <1>3 DEF SentSlot, UnderWay, Description, Sending
<1>16. SlotsInUse'
  BY <1>1, <1>2, <1>3 DEF SlotsInUse, UnderWay, Description, SlotOf
<1>17. ShutdownIsQuiescent'
  BY <1>1, <1>2, <1>3 DEF ShutdownIsQuiescent, PoolTypes
<1>18. PublishMeansConsumed'
  BY <1>1, <1>2, <1>3 DEF PublishMeansConsumed
<1> QED
  BY <1>4, <1>5, <1>6, <1>7, <1>8, <1>9, <1>10, <1>11, <1>12, <1>13, <1>14, <1>15,
       <1>16, <1>17, <1>18

(* The frame does not arrive in time.                                       *)
LEMMA TimeOutKeeps ==
  ASSUME IInv, MainTimesOut
  PROVE  IInv'
<1>1. /\ pc["main"] = "publishWait" /\ Goto("main", "closeChannel") /\ disturbed' = TRUE
      /\ pending' = NoTick /\ in_flight' = FALSE /\ stop_requested' = TRUE
      /\ error' \in {error, "timeout"} /\ failure' = [failure EXCEPT !["main"] = "timeout"]
      /\ sleepers' \subseteq sleepers
      /\ UNCHANGED <<slotVars, channelVars, payload, record, packet, expected_tick, published, outcome>>
  BY DEF MainTimesOut, KeepError
<1>2. /\ ControlOK' /\ pc'["main"] = "closeChannel"
      /\ pc'["producer"] = pc["producer"] /\ pc'["consumer"] = pc["consumer"]
  BY <1>1, MainGoes DEF MainLabels
<1> USE DEF IInv, slotVars, channelVars, coordVars, localVars
<1>3. TypeOK'
  BY <1>1, <1>2, ExchangeAssumption DEF TypeOK, ControlOK, Failures, Threads
<1>4. PoolTypes'
  BY <1>1, <1>2 DEF PoolTypes, Threads
<1>5. RingTypes'
  BY <1>1, <1>2 DEF RingTypes, Channel!Advance
<1>6. OneFrame'
  BY <1>1, <1>2 DEF OneFrame, Pending, Producing, UnderWay, Checking, Sending
<1>7. FrameExpected'
  BY <1>1, <1>2 DEF FrameExpected, Description, Frames, Pending, Producing, UnderWay,
       Checking, Sending
<1>8. MainLoop'
  BY <1>1, <1>2 DEF MainLoop, Frames, FramesLeft, Threads, ProduceLoop, ConsumeLoop,
       Pending, Producing, UnderWay, Checking, Sending
<1>9. CleanStop'
  BY <1>1, <1>2 DEF CleanStop, Frames, Threads
<1>10. ClosedInOrder'
  BY <1>1, <1>2 DEF ClosedInOrder, Threads, ConsumeLoop
<1>11. WriteLease'
  BY <1>1, <1>2 DEF WriteLease, Writes, Slots!AtGeneration
<1>12. ReadLease'
  BY <1>1, <1>2 DEF ReadLease, Slots!AtGeneration
<1>13. DescribedSlot'
  BY <1>1, <1>2 DEF DescribedSlot, UnderWay, Description, Sending, SlotOf
<1>14. SentSlot'
  BY <1>1, <1>2 DEF SentSlot, UnderWay, Description, Sending
<1>15. SlotsInUse'
  BY <1>1, <1>2 DEF SlotsInUse, UnderWay, Description, SlotOf
<1>16. ShutdownIsQuiescent'
  BY <1>1, <1>2 DEF ShutdownIsQuiescent, PoolTypes
<1>17. PublishMeansConsumed'
  BY <1>1, <1>2 DEF PublishMeansConsumed
<1> QED
  BY <1>3, <1>4, <1>5, <1>6, <1>7, <1>8, <1>9, <1>10, <1>11, <1>12, <1>13, <1>14, <1>15,
       <1>16, <1>17

(* Main fails between two frames.                                           *)
LEMMA MainFailureKeeps ==
  ASSUME IInv, MainFails
  PROVE  IInv'
<1>1. /\ pc["main"] = "ready" /\ Goto("main", "unwind") /\ disturbed' = TRUE
      /\ failure' = [failure EXCEPT !["main"] = "tick"]
      /\ UNCHANGED <<slotVars, channelVars, coordVars, sleepers, payload, record, packet,
                     expected_tick, published, outcome>>
  BY DEF MainFails, Throws
<1>2. /\ ControlOK' /\ pc'["main"] = "unwind"
      /\ pc'["producer"] = pc["producer"] /\ pc'["consumer"] = pc["consumer"]
  BY <1>1, MainGoes DEF MainLabels
<1>3. failure' \in [Threads -> Failures]
  BY <1>1 DEF IInv, TypeOK, Failures, Threads
<1> USE DEF IInv, slotVars, channelVars, coordVars, localVars
<1>4. TypeOK'
  BY <1>1, <1>2, <1>3, ExchangeAssumption DEF TypeOK, ControlOK
<1>5. PoolTypes'
  BY <1>1, <1>2, <1>3 DEF PoolTypes, Threads
<1>6. RingTypes'
  BY <1>1, <1>2, <1>3 DEF RingTypes, Channel!Advance
<1>7. OneFrame'
  BY <1>1, <1>2, <1>3 DEF OneFrame, Pending, Producing, UnderWay, Checking, Sending
<1>8. FrameExpected'
  BY <1>1, <1>2, <1>3 DEF FrameExpected, Description, Frames, Pending, Producing,
       UnderWay, Checking, Sending, MainLoop
<1>9. MainLoop'
  BY <1>1, <1>2, <1>3 DEF MainLoop, Frames, FramesLeft, Threads, ProduceLoop,
       ConsumeLoop, Pending, Producing, UnderWay, Checking, Sending
<1>10. CleanStop'
  BY <1>1, <1>2, <1>3 DEF CleanStop, Frames, Threads
<1>11. ClosedInOrder'
  BY <1>1, <1>2, <1>3 DEF ClosedInOrder, Threads, ConsumeLoop
<1>12. WriteLease'
  BY <1>1, <1>2, <1>3 DEF WriteLease, Writes, Slots!AtGeneration
<1>13. ReadLease'
  BY <1>1, <1>2, <1>3 DEF ReadLease, Slots!AtGeneration
<1>14. DescribedSlot'
  BY <1>1, <1>2, <1>3 DEF DescribedSlot, UnderWay, Description, Sending, SlotOf
<1>15. SentSlot'
  BY <1>1, <1>2, <1>3 DEF SentSlot, UnderWay, Description, Sending
<1>16. SlotsInUse'
  BY <1>1, <1>2, <1>3 DEF SlotsInUse, UnderWay, Description, SlotOf
<1>17. ShutdownIsQuiescent'
  BY <1>1, <1>2, <1>3 DEF ShutdownIsQuiescent, PoolTypes
<1>18. PublishMeansConsumed'
  BY <1>1, <1>2, <1>3 DEF PublishMeansConsumed
<1> QED
  BY <1>4, <1>5, <1>6, <1>7, <1>8, <1>9, <1>10, <1>11, <1>12, <1>13, <1>14, <1>15,
       <1>16, <1>17, <1>18

(* Main stops: from its loop only when all the frames have been received.   *)
LEMMA RequestStopKeeps ==
  ASSUME IInv, MainRequestsStop
  PROVE  IInv'
<1>1. /\ (pc["main"] = "ready" /\ ~FramesLeft) \/ pc["main"] = "requestStop"
      /\ Goto("main", "closeChannel")
      /\ pending' = NoTick /\ in_flight' = FALSE /\ stop_requested' = TRUE
      /\ failure' = [failure EXCEPT !["main"] = IF @ = "timeout" THEN "publish" ELSE @]
      /\ UNCHANGED <<slotVars, channelVars, error, sleepers, localVars>>
  BY DEF MainRequestsStop
<1>2. /\ ControlOK' /\ pc'["main"] = "closeChannel"
      /\ pc'["producer"] = pc["producer"] /\ pc'["consumer"] = pc["consumer"]
  BY <1>1, MainGoes DEF MainLabels
<1> USE DEF IInv, slotVars, channelVars, coordVars, localVars
<1>3. TypeOK'
  BY <1>1, <1>2, ExchangeAssumption DEF TypeOK, ControlOK, Failures, Threads
<1>4. PoolTypes'
  BY <1>1, <1>2 DEF PoolTypes, Threads
<1>5. RingTypes'
  BY <1>1, <1>2 DEF RingTypes, Channel!Advance
<1>6. OneFrame'
  BY <1>1, <1>2 DEF OneFrame, Pending, Producing, UnderWay, Checking, Sending
<1>7. FrameExpected'
  BY <1>1, <1>2 DEF FrameExpected, Description, Frames, Pending, Producing, UnderWay,
       Checking, Sending
<1>8. MainLoop'
  BY <1>1, <1>2 DEF MainLoop, Frames, FramesLeft, Threads, ProduceLoop, ConsumeLoop,
       Pending, Producing, UnderWay, Checking, Sending
<1>9. CleanStop'
  <2>1. CASE pc["main"] = "requestStop"
    BY <1>1, <1>2, <2>1 DEF CleanStop, Frames, Threads, NoError, TypeOK
  <2>2. CASE pc["main"] = "ready" /\ ~FramesLeft
    <3>1. published = ExpectedFrames /\ expected_tick = ExpectedFrames + 1 /\ ~in_flight
      <4>1. expected_tick = published + 1 /\ ~in_flight
        BY <2>2 DEF MainLoop, Frames
      <4> QED
        BY <2>2, <4>1, Counters DEF FramesLeft
    <3>2. /\ pc["producer"] = "wait" /\ m_size = 0
          /\ pc["consumer"] \in {"consume", "completeNotify"}
      BY <2>2, <3>1 DEF MainLoop, Frames, ProduceLoop, ConsumeLoop, RingTypes, Pending, Producing, UnderWay, Checking, Sending
    <3>3. error = NoError /\ \A t \in Threads : failure[t] = NoError
      BY <2>2 DEF MainLoop, Frames
    <3>4. \A t \in Threads : failure'[t] = NoError
      BY <1>1, <3>3 DEF TypeOK, Threads, NoError
    <3> QED
      BY <1>1, <1>2, <3>1, <3>2, <3>3, <3>4 DEF CleanStop
  <2> QED
    BY <1>1, <2>1, <2>2
<1>10. ClosedInOrder'
  BY <1>1, <1>2 DEF ClosedInOrder, Threads, ConsumeLoop
<1>11. WriteLease'
  BY <1>1, <1>2 DEF WriteLease, Writes, Slots!AtGeneration
<1>12. ReadLease'
  BY <1>1, <1>2 DEF ReadLease, Slots!AtGeneration
<1>13. DescribedSlot'
  BY <1>1, <1>2 DEF DescribedSlot, UnderWay, Description, Sending, SlotOf
<1>14. SentSlot'
  BY <1>1, <1>2 DEF SentSlot, UnderWay, Description, Sending
<1>15. SlotsInUse'
  BY <1>1, <1>2 DEF SlotsInUse, UnderWay, Description, SlotOf
<1>16. ShutdownIsQuiescent'
  BY <1>1, <1>2 DEF ShutdownIsQuiescent, PoolTypes
<1>17. PublishMeansConsumed'
  BY <1>1, <1>2 DEF PublishMeansConsumed
<1> QED
  BY <1>3, <1>4, <1>5, <1>6, <1>7, <1>8, <1>9, <1>10, <1>11, <1>12, <1>13, <1>14, <1>15,
       <1>16, <1>17

(* Main has closed everything.                                              *)
LEMMA NotifyStopKeeps ==
  ASSUME IInv, MainNotifiesStop
  PROVE  IInv'
<1>1. /\ pc["main"] = "notifyStop" /\ (Goto("main", "unwind") \/ Goto("main", "join"))
      /\ UNCHANGED <<slotVars, channelVars, failure, coordVars, localVars>> /\ sleepers' = {}
  BY DEF MainNotifiesStop, NotifyAll, WakeAll
<1>2. /\ pc["main"] = "notifyStop" /\ ControlOK' /\ pc'["main"] \in {"unwind", "join"}
      /\ pc'["producer"] = pc["producer"] /\ pc'["consumer"] = pc["consumer"]
  BY <1>1, MainGoes DEF MainLabels, MainNotifiesStop, NotifyAll
<1> USE DEF IInv, slotVars, channelVars, coordVars, localVars
<1>3. TypeOK'
  BY <1>1, <1>2, ExchangeAssumption DEF TypeOK, ControlOK
<1>4. PoolTypes'
  BY <1>1, <1>2 DEF PoolTypes, Threads
<1>5. RingTypes'
  BY <1>1, <1>2 DEF RingTypes, Channel!Advance
<1>6. OneFrame'
  BY <1>1, <1>2 DEF OneFrame, Pending, Producing, UnderWay, Checking, Sending
<1>7. FrameExpected'
  BY <1>1, <1>2 DEF FrameExpected, Description, Frames, Pending, Producing, UnderWay,
       Checking, Sending
<1>8. MainLoop'
  BY <1>1, <1>2 DEF MainLoop, Frames, FramesLeft, Threads, ProduceLoop, ConsumeLoop,
       Pending, Producing, UnderWay, Checking, Sending
<1>9. CleanStop'
  BY <1>1, <1>2 DEF CleanStop, Frames, Threads
<1>10. ClosedInOrder'
  BY <1>1, <1>2 DEF ClosedInOrder, Threads, ConsumeLoop
<1>11. WriteLease'
  BY <1>1, <1>2 DEF WriteLease, Writes, Slots!AtGeneration
<1>12. ReadLease'
  BY <1>1, <1>2 DEF ReadLease, Slots!AtGeneration
<1>13. DescribedSlot'
  BY <1>1, <1>2 DEF DescribedSlot, UnderWay, Description, Sending, SlotOf
<1>14. SentSlot'
  BY <1>1, <1>2 DEF SentSlot, UnderWay, Description, Sending
<1>15. SlotsInUse'
  BY <1>1, <1>2 DEF SlotsInUse, UnderWay, Description, SlotOf
<1>16. ShutdownIsQuiescent'
  BY <1>1, <1>2 DEF ShutdownIsQuiescent, PoolTypes
<1>17. PublishMeansConsumed'
  BY <1>1, <1>2 DEF PublishMeansConsumed
<1> QED
  BY <1>3, <1>4, <1>5, <1>6, <1>7, <1>8, <1>9, <1>10, <1>11, <1>12, <1>13, <1>14, <1>15,
       <1>16, <1>17

(* Both threads are done: the slots are free and the channel is empty.      *)
LEMMA JoinKeeps ==
  ASSUME IInv, MainJoins
  PROVE  IInv'
<1>1. /\ pc["main"] = "join" /\ pc["producer"] = "done" /\ pc["consumer"] = "done"
      /\ Goto("main", "done")
      /\ UNCHANGED <<slotVars, channelVars, failure, coordVars, sleepers, payload, record, packet,
                     expected_tick, published, disturbed>>
  BY DEF MainJoins
<1>2. /\ ControlOK' /\ pc'["main"] = "done"
      /\ pc'["producer"] = pc["producer"] /\ pc'["consumer"] = pc["consumer"]
  BY <1>1, MainGoes DEF MainLabels
<1>3. IsQuiescent /\ channel_closed /\ m_size = 0
  <2>1. channel_closed /\ m_size = 0 /\ ~UnderWay
    BY <1>1 DEF IInv, ClosedInOrder, ConsumeLoop, UnderWay
  <2>2. write_leases["producer"] = {} /\ read_leases["consumer"] = {}
    BY <1>1 DEF IInv, WriteLease, ReadLease
  <2>3. m_active_operations = 0
    BY <1>1 DEF IInv, PoolTypes, Threads
  <2>4. \A s \in 0 .. SlotCount - 1 : state[s] = "Free"
    BY <2>1, <2>2 DEF IInv, PoolTypes, SlotsInUse, SlotIds
  <2> QED
    BY <2>1, <2>3, <2>4 DEF IsQuiescent
<1>4. outcome' \in {"error", "stopped"}
  BY <1>3 DEF MainJoins
<1> USE DEF IInv, slotVars, channelVars, coordVars, localVars
<1>5. TypeOK'
  BY <1>1, <1>2, <1>3, <1>4, ExchangeAssumption DEF TypeOK, ControlOK
<1>6. PoolTypes'
  BY <1>1, <1>2, <1>3, <1>4 DEF PoolTypes, Threads
<1>7. RingTypes'
  BY <1>1, <1>2, <1>3, <1>4 DEF RingTypes, Channel!Advance
<1>8. OneFrame'
  BY <1>1, <1>2, <1>3, <1>4 DEF OneFrame, Pending, Producing, UnderWay, Checking,
       Sending
<1>9. FrameExpected'
  BY <1>1, <1>2, <1>3, <1>4 DEF FrameExpected, Description, Frames, Pending, Producing,
       UnderWay, Checking, Sending
<1>10. MainLoop'
  BY <1>1, <1>2, <1>3, <1>4 DEF MainLoop, Frames, FramesLeft, Threads, ProduceLoop,
       ConsumeLoop, Pending, Producing, UnderWay, Checking, Sending
<1>11. CleanStop'
  BY <1>1, <1>2, <1>3, <1>4 DEF CleanStop, Frames, Threads
<1>12. ClosedInOrder'
  BY <1>1, <1>2, <1>3, <1>4 DEF ClosedInOrder, Threads, ConsumeLoop
<1>13. WriteLease'
  BY <1>1, <1>2, <1>3, <1>4 DEF WriteLease, Writes, Slots!AtGeneration
<1>14. ReadLease'
  BY <1>1, <1>2, <1>3, <1>4 DEF ReadLease, Slots!AtGeneration
<1>15. DescribedSlot'
  BY <1>1, <1>2, <1>3, <1>4 DEF DescribedSlot, UnderWay, Description, Sending, SlotOf
<1>16. SentSlot'
  BY <1>1, <1>2, <1>3, <1>4 DEF SentSlot, UnderWay, Description, Sending
<1>17. SlotsInUse'
  BY <1>1, <1>2, <1>3, <1>4 DEF SlotsInUse, UnderWay, Description, SlotOf
<1>18. ShutdownIsQuiescent'
  BY <1>1, <1>2, <1>3, <1>4 DEF ShutdownIsQuiescent, PoolTypes
<1>19. PublishMeansConsumed'
  BY <1>1, <1>2, <1>3, <1>4 DEF PublishMeansConsumed
<1> QED
  BY <1>5, <1>6, <1>7, <1>8, <1>9, <1>10, <1>11, <1>12, <1>13, <1>14, <1>15, <1>16,
       <1>17, <1>18, <1>19

(* Main holds no lease.                                                     *)
LEMMA MainUnwindKeeps ==
  ASSUME IInv, Unwind("main")
  PROVE  IInv'
<1>1. /\ pc["main"] = "unwind" /\ Goto("main", "requestStop")
      /\ UNCHANGED <<slotVars, channelVars, failure, coordVars, sleepers, localVars>>
  BY DEF Unwind, DropLease, IInv, WriteLease, ReadLease
<1>2. /\ ControlOK' /\ pc'["main"] = "requestStop"
      /\ pc'["producer"] = pc["producer"] /\ pc'["consumer"] = pc["consumer"]
  BY <1>1, MainGoes DEF MainLabels
<1> USE DEF IInv, slotVars, channelVars, coordVars, localVars
<1>3. TypeOK'
  BY <1>1, <1>2, ExchangeAssumption DEF TypeOK, ControlOK
<1>4. PoolTypes'
  BY <1>1, <1>2 DEF PoolTypes, Threads
<1>5. RingTypes'
  BY <1>1, <1>2 DEF RingTypes, Channel!Advance
<1>6. OneFrame'
  BY <1>1, <1>2 DEF OneFrame, Pending, Producing, UnderWay, Checking, Sending
<1>7. FrameExpected'
  BY <1>1, <1>2 DEF FrameExpected, Description, Frames, Pending, Producing, UnderWay,
       Checking, Sending
<1>8. MainLoop'
  BY <1>1, <1>2 DEF MainLoop, Frames, FramesLeft, Threads, ProduceLoop, ConsumeLoop,
       Pending, Producing, UnderWay, Checking, Sending
<1>9. CleanStop'
  BY <1>1, <1>2 DEF CleanStop, Frames, Threads
<1>10. ClosedInOrder'
  BY <1>1, <1>2 DEF ClosedInOrder, Threads, ConsumeLoop
<1>11. WriteLease'
  BY <1>1, <1>2 DEF WriteLease, Writes, Slots!AtGeneration
<1>12. ReadLease'
  BY <1>1, <1>2 DEF ReadLease, Slots!AtGeneration
<1>13. DescribedSlot'
  BY <1>1, <1>2 DEF DescribedSlot, UnderWay, Description, Sending, SlotOf
<1>14. SentSlot'
  BY <1>1, <1>2 DEF SentSlot, UnderWay, Description, Sending
<1>15. SlotsInUse'
  BY <1>1, <1>2 DEF SlotsInUse, UnderWay, Description, SlotOf
<1>16. ShutdownIsQuiescent'
  BY <1>1, <1>2 DEF ShutdownIsQuiescent, PoolTypes
<1>17. PublishMeansConsumed'
  BY <1>1, <1>2 DEF PublishMeansConsumed
<1> QED
  BY <1>3, <1>4, <1>5, <1>6, <1>7, <1>8, <1>9, <1>10, <1>11, <1>12, <1>13, <1>14, <1>15,
       <1>16, <1>17

-----------------------------------------------------------------------------
(* Steps in which nothing the invariant speaks of changes.                 *)

(* The variables the invariant depends on, but for the sleepers.           *)
relevantVars == <<state, generation, payload_size, slots_closed, slots_producer, slots_consumer,
                  m_active_operations, write_leases, read_leases, slots_call, lifetime,
                  m_buffer, m_head, m_tail, m_size, channel_closed,
                  pc, failure, pending, in_flight, error, stop_requested, localVars>>

(* Who sleeps, and on what, does not matter.                                *)
LEMMA IdleKeeps ==
  ASSUME IInv, UNCHANGED relevantVars, sleepers' \subseteq Threads
  PROVE  IInv'
<1> USE DEF IInv, relevantVars, localVars
<1>1. TypeOK'
  BY ExchangeAssumption DEF TypeOK, ControlOK
<1>2. PoolTypes'
  BY DEF PoolTypes, Threads
<1>3. RingTypes'
  BY DEF RingTypes, Channel!Advance
<1>4. OneFrame'
  BY DEF OneFrame, Pending, Producing, UnderWay, Checking, Sending
<1>5. FrameExpected'
  BY DEF FrameExpected, Description, Frames, Pending, Producing, UnderWay, Checking,
       Sending
<1>6. MainLoop'
  BY DEF MainLoop, Frames, FramesLeft, Threads, ProduceLoop, ConsumeLoop, Pending,
       Producing, UnderWay, Checking, Sending
<1>7. CleanStop'
  BY DEF CleanStop, Frames, Threads
<1>8. ClosedInOrder'
  BY DEF ClosedInOrder, Threads, ConsumeLoop
<1>9. WriteLease'
  BY DEF WriteLease, Writes, Slots!AtGeneration
<1>10. ReadLease'
  BY DEF ReadLease, Slots!AtGeneration
<1>11. DescribedSlot'
  BY DEF DescribedSlot, UnderWay, Description, Sending, SlotOf
<1>12. SentSlot'
  BY DEF SentSlot, UnderWay, Description, Sending
<1>13. SlotsInUse'
  BY DEF SlotsInUse, UnderWay, Description, SlotOf
<1>14. ShutdownIsQuiescent'
  BY DEF ShutdownIsQuiescent, PoolTypes
<1>15. PublishMeansConsumed'
  BY DEF PublishMeansConsumed
<1> QED
  BY <1>1, <1>2, <1>3, <1>4, <1>5, <1>6, <1>7, <1>8, <1>9, <1>10, <1>11, <1>12, <1>13,
       <1>14, <1>15

(* Going to sleep, and waking up for no reason.                            *)
LEMMA SleepKeeps ==
  ASSUME IInv, MainWaits \/ ProducerWaits \/ (\E t \in Threads : SpuriousWakeUp(t)) \/ UNCHANGED vars
  PROVE  IInv'
<1>1. sleepers \subseteq Threads
  BY DEF IInv, TypeOK
<1> USE DEF slotVars, channelVars, coordVars, localVars, relevantVars
<1>2. CASE MainWaits \/ ProducerWaits
  BY <1>1, <1>2, IdleKeeps DEF MainWaits, ProducerWaits, Sleeps, Threads
<1>3. ASSUME NEW t \in Threads, SpuriousWakeUp(t)
      PROVE  IInv'
  <2>1. CASE sleepers' = sleepers \ {t} /\ UNCHANGED <<slotVars, channelVars, pc, failure, coordVars, localVars>>
    BY <1>1, <2>1, IdleKeeps
  <2>2. CASE Slots!SpuriousWakeUp(t) /\ UNCHANGED <<channelVars, pc, failure, coordVars, sleepers, localVars>>
    BY <1>1, <2>2, IdleKeeps DEF Slots!SpuriousWakeUp, Slots!slotVars, Slots!ownerVars, Slots!leaseVars
  <2>3. CASE Channel!SpuriousWakeUp(t) /\ UNCHANGED <<slotVars, pc, failure, coordVars, sleepers, localVars>>
    BY <1>1, <2>3, IdleKeeps DEF Channel!SpuriousWakeUp, Channel!ringVars
  <2> QED
    BY <1>3, <2>1, <2>2, <2>3 DEF SpuriousWakeUp
<1>4. CASE UNCHANGED vars
  BY <1>1, <1>4, IdleKeeps DEF vars
<1> QED
  BY <1>2, <1>3, <1>4

-----------------------------------------------------------------------------
(* Closing, and the handlers of the two threads.                           *)

(* One thread goes on.                                                     *)
LabelsOf(t) == IF t = "main" THEN MainLabels
               ELSE IF t = "producer" THEN ProducerLabels ELSE ConsumerLabels

LEMMA ThreadGoes ==
  ASSUME IInv, NEW t \in Threads, NEW l \in LabelsOf(t), Goto(t, l)
  PROVE  /\ ControlOK' /\ pc'[t] = l
         /\ pc'["main"] = IF t = "main" THEN l ELSE pc["main"]
         /\ pc'["producer"] = IF t = "producer" THEN l ELSE pc["producer"]
         /\ pc'["consumer"] = IF t = "consumer" THEN l ELSE pc["consumer"]
BY DEF IInv, TypeOK, ControlOK, Goto, Threads, LabelsOf

(* A thread that has left its loop finds main outside of its own.          *)
LEMMA OutOfLoop ==
  ASSUME IInv, NEW t \in Threads,
         pc[t] \in HandlerLabels \cup {"end", "requestStop", "notifyStop", "join"}
  PROVE  pc["main"] \notin Frames
BY DEF IInv, MainLoop, Frames, ProduceLoop, ConsumeLoop, HandlerLabels, Threads

(* The channel is closed.                                                   *)
LEMMA CloseChannelKeeps ==
  ASSUME IInv, NEW t \in Threads, pc[t] = "closeChannel", UNCHANGED <<failure, localVars>>,
         ChannelStep(t, Channel!Close(t), "channelClosed")
  PROVE  IInv'
<1>1. /\ pc[t] = "closeChannel" /\ Goto(t, "channelClosed") /\ channel_closed' = TRUE
      /\ UNCHANGED <<slotVars, m_buffer, m_head, m_tail, m_size, failure, coordVars, sleepers, localVars>>
  BY DEF ChannelStep, Channel!Close, Channel!ringVars
<1>2. /\ ControlOK' /\ pc'[t] = "channelClosed"
      /\ pc'["main"] = IF t = "main" THEN "channelClosed" ELSE pc["main"]
      /\ pc'["producer"] = IF t = "producer" THEN "channelClosed" ELSE pc["producer"]
      /\ pc'["consumer"] = IF t = "consumer" THEN "channelClosed" ELSE pc["consumer"]
  BY <1>1, ThreadGoes DEF LabelsOf, Threads, MainLabels, ProducerLabels, ConsumerLabels, HandlerLabels
<1>3. pc["main"] \notin Frames /\ pc'["main"] \notin Frames
  BY <1>1, <1>2, OutOfLoop DEF HandlerLabels, Frames
<1> USE DEF IInv, slotVars, channelVars, coordVars, localVars
<1>4. TypeOK'
  BY <1>1, <1>2, <1>3, ExchangeAssumption DEF TypeOK, ControlOK
<1>5. PoolTypes'
  BY <1>1, <1>2, <1>3 DEF PoolTypes, Threads
<1>6. RingTypes'
  BY <1>1, <1>2, <1>3 DEF RingTypes, Channel!Advance
<1>7. OneFrame'
  BY <1>1, <1>2, <1>3 DEF OneFrame, Pending, Producing, UnderWay, Checking, Sending
<1>8. FrameExpected'
  BY <1>1, <1>2, <1>3 DEF FrameExpected, Description, Frames, Pending, Producing,
       UnderWay, Checking, Sending
<1>9. MainLoop'
  BY <1>1, <1>2, <1>3 DEF MainLoop, Frames, FramesLeft, Threads, ProduceLoop,
       ConsumeLoop, Pending, Producing, UnderWay, Checking, Sending
<1>10. CleanStop'
  BY <1>1, <1>2, <1>3 DEF CleanStop, Frames, Threads
<1>11. ClosedInOrder'
  BY <1>1, <1>2, <1>3 DEF ClosedInOrder, Threads, ConsumeLoop
<1>12. WriteLease'
  BY <1>1, <1>2, <1>3 DEF WriteLease, Writes, Slots!AtGeneration
<1>13. ReadLease'
  BY <1>1, <1>2, <1>3 DEF ReadLease, Slots!AtGeneration
<1>14. DescribedSlot'
  BY <1>1, <1>2, <1>3 DEF DescribedSlot, UnderWay, Description, Sending, SlotOf
<1>15. SentSlot'
  BY <1>1, <1>2, <1>3 DEF SentSlot, UnderWay, Description, Sending
<1>16. SlotsInUse'
  BY <1>1, <1>2, <1>3 DEF SlotsInUse, UnderWay, Description, SlotOf
<1>17. ShutdownIsQuiescent'
  BY <1>1, <1>2, <1>3 DEF ShutdownIsQuiescent, PoolTypes
<1>18. PublishMeansConsumed'
  BY <1>1, <1>2, <1>3 DEF PublishMeansConsumed
<1> QED
  BY <1>4, <1>5, <1>6, <1>7, <1>8, <1>9, <1>10, <1>11, <1>12, <1>13, <1>14, <1>15,
       <1>16, <1>17, <1>18

(* The channel's threads have been woken.                                   *)
LEMMA ChannelClosedKeeps ==
  ASSUME IInv, NEW t \in Threads, pc[t] = "channelClosed", UNCHANGED <<failure, localVars>>,
         ChannelStep(t, Channel!CloseNotifies(t), AfterChannel(t))
  PROVE  IInv'
<1>1. /\ pc[t] = "channelClosed" /\ Goto(t, AfterChannel(t))
      /\ AfterChannel(t) \in (IF t = "main" THEN {"closeSlots"} ELSE {"closeSlots", "done"})
      /\ AfterChannel(t) = "done" => t = "producer" /\ failure[t] = NoError
      /\ t = "producer" /\ failure[t] = NoError => AfterChannel(t) = "done"
      /\ UNCHANGED <<slotVars, m_buffer, m_head, m_tail, m_size, channel_closed, failure, coordVars, sleepers, localVars>>
  BY DEF ChannelStep, Channel!CloseNotifies, Channel!ringVars, AfterChannel
<1>2. /\ ControlOK' /\ pc'[t] = AfterChannel(t)
      /\ pc'["main"] = IF t = "main" THEN AfterChannel(t) ELSE pc["main"]
      /\ pc'["producer"] = IF t = "producer" THEN AfterChannel(t) ELSE pc["producer"]
      /\ pc'["consumer"] = IF t = "consumer" THEN AfterChannel(t) ELSE pc["consumer"]
  BY <1>1, ThreadGoes DEF LabelsOf, Threads, MainLabels, ProducerLabels, ConsumerLabels, HandlerLabels
<1>3. pc["main"] \notin Frames /\ pc'["main"] \notin Frames
  BY <1>1, <1>2, OutOfLoop DEF HandlerLabels, Frames
<1> USE DEF IInv, slotVars, channelVars, coordVars, localVars
<1>4. TypeOK'
  BY <1>1, <1>2, <1>3, ExchangeAssumption DEF TypeOK, ControlOK
<1>5. PoolTypes'
  BY <1>1, <1>2, <1>3 DEF PoolTypes, Threads
<1>6. RingTypes'
  BY <1>1, <1>2, <1>3 DEF RingTypes, Channel!Advance
<1>7. OneFrame'
  BY <1>1, <1>2, <1>3 DEF OneFrame, Pending, Producing, UnderWay, Checking, Sending
<1>8. FrameExpected'
  BY <1>1, <1>2, <1>3 DEF FrameExpected, Description, Frames, Pending, Producing,
       UnderWay, Checking, Sending
<1>9. MainLoop'
  BY <1>1, <1>2, <1>3 DEF MainLoop, Frames, FramesLeft, Threads, ProduceLoop,
       ConsumeLoop, Pending, Producing, UnderWay, Checking, Sending
<1>10. CleanStop'
  BY <1>1, <1>2, <1>3 DEF CleanStop, Frames, Threads
<1>11. ClosedInOrder'
  BY <1>1, <1>2, <1>3 DEF ClosedInOrder, Threads, ConsumeLoop
<1>12. WriteLease'
  BY <1>1, <1>2, <1>3 DEF WriteLease, Writes, Slots!AtGeneration
<1>13. ReadLease'
  BY <1>1, <1>2, <1>3 DEF ReadLease, Slots!AtGeneration
<1>14. DescribedSlot'
  BY <1>1, <1>2, <1>3 DEF DescribedSlot, UnderWay, Description, Sending, SlotOf
<1>15. SentSlot'
  BY <1>1, <1>2, <1>3 DEF SentSlot, UnderWay, Description, Sending
<1>16. SlotsInUse'
  BY <1>1, <1>2, <1>3 DEF SlotsInUse, UnderWay, Description, SlotOf
<1>17. ShutdownIsQuiescent'
  BY <1>1, <1>2, <1>3 DEF ShutdownIsQuiescent, PoolTypes
<1>18. PublishMeansConsumed'
  BY <1>1, <1>2, <1>3 DEF PublishMeansConsumed
<1> QED
  BY <1>4, <1>5, <1>6, <1>7, <1>8, <1>9, <1>10, <1>11, <1>12, <1>13, <1>14, <1>15,
       <1>16, <1>17, <1>18

(* The slots are closed.                                                    *)
LEMMA CloseSlotsKeeps ==
  ASSUME IInv, NEW t \in Threads, pc[t] = "closeSlots", UNCHANGED <<failure, localVars>>,
         SlotStep(t, Slots!Close(t), "slotsClosed")
  PROVE  IInv'
<1>1. /\ pc[t] = "closeSlots" /\ Goto(t, "slotsClosed") /\ slots_closed' = TRUE
      /\ slots_call[t] = "idle" /\ slots_call' = [slots_call EXCEPT ![t] = "Close"]
      /\ UNCHANGED <<state, generation, payload_size, slots_producer, slots_consumer, m_active_operations,
                     write_leases, read_leases, lifetime, channelVars, failure, coordVars, sleepers, localVars>>
  BY DEF SlotStep, Slots!Close, Slots!Entering, Slots!slotVars, Slots!ownerVars, Slots!leaseVars
<1>2. /\ ControlOK' /\ pc'[t] = "slotsClosed"
      /\ pc'["main"] = IF t = "main" THEN "slotsClosed" ELSE pc["main"]
      /\ pc'["producer"] = IF t = "producer" THEN "slotsClosed" ELSE pc["producer"]
      /\ pc'["consumer"] = IF t = "consumer" THEN "slotsClosed" ELSE pc["consumer"]
  BY <1>1, ThreadGoes DEF LabelsOf, Threads, MainLabels, ProducerLabels, ConsumerLabels, HandlerLabels
<1>3. pc["main"] \notin Frames /\ pc'["main"] \notin Frames
  BY <1>1, <1>2, OutOfLoop DEF HandlerLabels, Frames
<1> USE DEF IInv, slotVars, channelVars, coordVars, localVars
<1>4. TypeOK'
  BY <1>1, <1>2, <1>3, ExchangeAssumption DEF TypeOK, ControlOK
<1>5. PoolTypes'
  BY <1>1, <1>2, <1>3 DEF PoolTypes, Threads
<1>6. RingTypes'
  BY <1>1, <1>2, <1>3 DEF RingTypes, Channel!Advance
<1>7. OneFrame'
  BY <1>1, <1>2, <1>3 DEF OneFrame, Pending, Producing, UnderWay, Checking, Sending
<1>8. FrameExpected'
  BY <1>1, <1>2, <1>3 DEF FrameExpected, Description, Frames, Pending, Producing,
       UnderWay, Checking, Sending
<1>9. MainLoop'
  BY <1>1, <1>2, <1>3 DEF MainLoop, Frames, FramesLeft, Threads, ProduceLoop,
       ConsumeLoop, Pending, Producing, UnderWay, Checking, Sending
<1>10. CleanStop'
  BY <1>1, <1>2, <1>3 DEF CleanStop, Frames, Threads
<1>11. ClosedInOrder'
  BY <1>1, <1>2, <1>3 DEF ClosedInOrder, Threads, ConsumeLoop
<1>12. WriteLease'
  BY <1>1, <1>2, <1>3 DEF WriteLease, Writes, Slots!AtGeneration
<1>13. ReadLease'
  BY <1>1, <1>2, <1>3 DEF ReadLease, Slots!AtGeneration
<1>14. DescribedSlot'
  BY <1>1, <1>2, <1>3 DEF DescribedSlot, UnderWay, Description, Sending, SlotOf
<1>15. SentSlot'
  BY <1>1, <1>2, <1>3 DEF SentSlot, UnderWay, Description, Sending
<1>16. SlotsInUse'
  BY <1>1, <1>2, <1>3 DEF SlotsInUse, UnderWay, Description, SlotOf
<1>17. ShutdownIsQuiescent'
  BY <1>1, <1>2, <1>3 DEF ShutdownIsQuiescent, PoolTypes
<1>18. PublishMeansConsumed'
  BY <1>1, <1>2, <1>3 DEF PublishMeansConsumed
<1> QED
  BY <1>4, <1>5, <1>6, <1>7, <1>8, <1>9, <1>10, <1>11, <1>12, <1>13, <1>14, <1>15,
       <1>16, <1>17, <1>18

(* The slots' threads have been woken.                                      *)
LEMMA SlotsClosedKeeps ==
  ASSUME IInv, NEW t \in Threads, pc[t] = "slotsClosed", UNCHANGED <<failure, localVars>>,
         SlotStep(t, Slots!CloseNotifies(t), IF t = "main" THEN "notifyStop" ELSE "done")
  PROVE  IInv'
<1>1. /\ pc[t] = "slotsClosed" /\ Goto(t, IF t = "main" THEN "notifyStop" ELSE "done")
      /\ slots_call[t] = "Close" /\ slots_call' = [slots_call EXCEPT ![t] = "idle"]
      /\ UNCHANGED <<state, generation, payload_size, slots_closed, slots_producer, slots_consumer, m_active_operations,
                     write_leases, read_leases, lifetime, channelVars, failure, coordVars, sleepers, localVars>>
  BY DEF SlotStep, Slots!CloseNotifies, Slots!slotVars, Slots!ownerVars, Slots!leaseVars, IInv, PoolTypes
<1>2. /\ ControlOK' /\ pc'[t] = (IF t = "main" THEN "notifyStop" ELSE "done")
      /\ pc'["main"] = IF t = "main" THEN (IF t = "main" THEN "notifyStop" ELSE "done") ELSE pc["main"]
      /\ pc'["producer"] = IF t = "producer" THEN (IF t = "main" THEN "notifyStop" ELSE "done") ELSE pc["producer"]
      /\ pc'["consumer"] = IF t = "consumer" THEN (IF t = "main" THEN "notifyStop" ELSE "done") ELSE pc["consumer"]
  BY <1>1, ThreadGoes DEF LabelsOf, Threads, MainLabels, ProducerLabels, ConsumerLabels, HandlerLabels
<1>3. pc["main"] \notin Frames /\ pc'["main"] \notin Frames
  BY <1>1, <1>2, OutOfLoop DEF HandlerLabels, Frames
<1> USE DEF IInv, slotVars, channelVars, coordVars, localVars
<1>4. TypeOK'
  BY <1>1, <1>2, <1>3, ExchangeAssumption DEF TypeOK, ControlOK
<1>5. PoolTypes'
  BY <1>1, <1>2, <1>3 DEF PoolTypes, Threads
<1>6. RingTypes'
  BY <1>1, <1>2, <1>3 DEF RingTypes, Channel!Advance
<1>7. OneFrame'
  BY <1>1, <1>2, <1>3 DEF OneFrame, Pending, Producing, UnderWay, Checking, Sending
<1>8. FrameExpected'
  BY <1>1, <1>2, <1>3 DEF FrameExpected, Description, Frames, Pending, Producing,
       UnderWay, Checking, Sending
<1>9. MainLoop'
  BY <1>1, <1>2, <1>3 DEF MainLoop, Frames, FramesLeft, Threads, ProduceLoop,
       ConsumeLoop, Pending, Producing, UnderWay, Checking, Sending
<1>10. CleanStop'
  BY <1>1, <1>2, <1>3 DEF CleanStop, Frames, Threads
<1>11. ClosedInOrder'
  BY <1>1, <1>2, <1>3 DEF ClosedInOrder, Threads, ConsumeLoop
<1>12. WriteLease'
  BY <1>1, <1>2, <1>3 DEF WriteLease, Writes, Slots!AtGeneration
<1>13. ReadLease'
  BY <1>1, <1>2, <1>3 DEF ReadLease, Slots!AtGeneration
<1>14. DescribedSlot'
  BY <1>1, <1>2, <1>3 DEF DescribedSlot, UnderWay, Description, Sending, SlotOf
<1>15. SentSlot'
  BY <1>1, <1>2, <1>3 DEF SentSlot, UnderWay, Description, Sending
<1>16. SlotsInUse'
  BY <1>1, <1>2, <1>3 DEF SlotsInUse, UnderWay, Description, SlotOf
<1>17. ShutdownIsQuiescent'
  BY <1>1, <1>2, <1>3 DEF ShutdownIsQuiescent, PoolTypes
<1>18. PublishMeansConsumed'
  BY <1>1, <1>2, <1>3 DEF PublishMeansConsumed
<1> QED
  BY <1>4, <1>5, <1>6, <1>7, <1>8, <1>9, <1>10, <1>11, <1>12, <1>13, <1>14, <1>15,
       <1>16, <1>17, <1>18

(* A thread records its failure: main has left its loop, and not to stop normally. *)
LEMMA RecordErrorKeeps ==
  ASSUME IInv, NEW t \in Threads \ {"main"}, RecordError(t)
  PROVE  IInv'
<1>1. /\ pc[t] = "recordError" /\ Goto(t, "notifyError")
      /\ error' \in {error, failure[t]} /\ stop_requested' = TRUE /\ pending' = NoTick /\ in_flight' = FALSE
      /\ UNCHANGED <<slotVars, channelVars, failure, sleepers, localVars>>
  BY DEF RecordError, KeepError
<1>2. /\ ControlOK' /\ pc'[t] = "notifyError"
      /\ pc'["main"] = IF t = "main" THEN "notifyError" ELSE pc["main"]
      /\ pc'["producer"] = IF t = "producer" THEN "notifyError" ELSE pc["producer"]
      /\ pc'["consumer"] = IF t = "consumer" THEN "notifyError" ELSE pc["consumer"]
  BY <1>1, ThreadGoes DEF LabelsOf, Threads, MainLabels, ProducerLabels, ConsumerLabels, HandlerLabels
<1>3. pc["main"] \notin Frames /\ pc'["main"] \notin Frames
  BY <1>1, <1>2, OutOfLoop DEF HandlerLabels, Frames
<1>4. error' \in Failures
  BY <1>1 DEF IInv, TypeOK, Failures, Threads
<1> USE DEF IInv, slotVars, channelVars, coordVars, localVars
<1>5. TypeOK'
  BY <1>1, <1>2, <1>3, <1>4, ExchangeAssumption DEF TypeOK, ControlOK
<1>6. PoolTypes'
  BY <1>1, <1>2, <1>3, <1>4 DEF PoolTypes, Threads
<1>7. RingTypes'
  BY <1>1, <1>2, <1>3, <1>4 DEF RingTypes, Channel!Advance
<1>8. OneFrame'
  BY <1>1, <1>2, <1>3, <1>4 DEF OneFrame, Pending, Producing, UnderWay, Checking,
       Sending
<1>9. FrameExpected'
  BY <1>1, <1>2, <1>3, <1>4 DEF FrameExpected, Description, Frames, Pending, Producing,
       UnderWay, Checking, Sending
<1>10. MainLoop'
  BY <1>1, <1>2, <1>3, <1>4 DEF MainLoop, Frames, FramesLeft, Threads, ProduceLoop,
       ConsumeLoop, Pending, Producing, UnderWay, Checking, Sending
<1>11. CleanStop'
  BY <1>1, <1>2, <1>3, <1>4 DEF CleanStop, Frames, Threads
<1>12. ClosedInOrder'
  BY <1>1, <1>2, <1>3, <1>4 DEF ClosedInOrder, Threads, ConsumeLoop
<1>13. WriteLease'
  BY <1>1, <1>2, <1>3, <1>4 DEF WriteLease, Writes, Slots!AtGeneration
<1>14. ReadLease'
  BY <1>1, <1>2, <1>3, <1>4 DEF ReadLease, Slots!AtGeneration
<1>15. DescribedSlot'
  BY <1>1, <1>2, <1>3, <1>4 DEF DescribedSlot, UnderWay, Description, Sending, SlotOf
<1>16. SentSlot'
  BY <1>1, <1>2, <1>3, <1>4 DEF SentSlot, UnderWay, Description, Sending
<1>17. SlotsInUse'
  BY <1>1, <1>2, <1>3, <1>4 DEF SlotsInUse, UnderWay, Description, SlotOf
<1>18. ShutdownIsQuiescent'
  BY <1>1, <1>2, <1>3, <1>4 DEF ShutdownIsQuiescent, PoolTypes
<1>19. PublishMeansConsumed'
  BY <1>1, <1>2, <1>3, <1>4 DEF PublishMeansConsumed
<1> QED
  BY <1>5, <1>6, <1>7, <1>8, <1>9, <1>10, <1>11, <1>12, <1>13, <1>14, <1>15, <1>16,
       <1>17, <1>18, <1>19

(* Main has been told.                                                      *)
LEMMA NotifyErrorKeeps ==
  ASSUME IInv, NEW t \in Threads \ {"main"}, NotifyAll(t, "notifyError", "closeChannel")
  PROVE  IInv'
<1>1. /\ pc[t] = "notifyError" /\ Goto(t, "closeChannel") /\ sleepers' = {}
      /\ UNCHANGED <<slotVars, channelVars, failure, coordVars, localVars>>
  BY DEF NotifyAll, WakeAll
<1>2. /\ ControlOK' /\ pc'[t] = "closeChannel"
      /\ pc'["main"] = IF t = "main" THEN "closeChannel" ELSE pc["main"]
      /\ pc'["producer"] = IF t = "producer" THEN "closeChannel" ELSE pc["producer"]
      /\ pc'["consumer"] = IF t = "consumer" THEN "closeChannel" ELSE pc["consumer"]
  BY <1>1, ThreadGoes DEF LabelsOf, Threads, MainLabels, ProducerLabels, ConsumerLabels, HandlerLabels
<1>3. pc["main"] \notin Frames /\ pc'["main"] \notin Frames
  BY <1>1, <1>2, OutOfLoop DEF HandlerLabels, Frames
<1> USE DEF IInv, slotVars, channelVars, coordVars, localVars
<1>4. TypeOK'
  BY <1>1, <1>2, <1>3, ExchangeAssumption DEF TypeOK, ControlOK
<1>5. PoolTypes'
  BY <1>1, <1>2, <1>3 DEF PoolTypes, Threads
<1>6. RingTypes'
  BY <1>1, <1>2, <1>3 DEF RingTypes, Channel!Advance
<1>7. OneFrame'
  BY <1>1, <1>2, <1>3 DEF OneFrame, Pending, Producing, UnderWay, Checking, Sending
<1>8. FrameExpected'
  BY <1>1, <1>2, <1>3 DEF FrameExpected, Description, Frames, Pending, Producing,
       UnderWay, Checking, Sending
<1>9. MainLoop'
  BY <1>1, <1>2, <1>3 DEF MainLoop, Frames, FramesLeft, Threads, ProduceLoop,
       ConsumeLoop, Pending, Producing, UnderWay, Checking, Sending
<1>10. CleanStop'
  BY <1>1, <1>2, <1>3 DEF CleanStop, Frames, Threads
<1>11. ClosedInOrder'
  BY <1>1, <1>2, <1>3 DEF ClosedInOrder, Threads, ConsumeLoop
<1>12. WriteLease'
  BY <1>1, <1>2, <1>3 DEF WriteLease, Writes, Slots!AtGeneration
<1>13. ReadLease'
  BY <1>1, <1>2, <1>3 DEF ReadLease, Slots!AtGeneration
<1>14. DescribedSlot'
  BY <1>1, <1>2, <1>3 DEF DescribedSlot, UnderWay, Description, Sending, SlotOf
<1>15. SentSlot'
  BY <1>1, <1>2, <1>3 DEF SentSlot, UnderWay, Description, Sending
<1>16. SlotsInUse'
  BY <1>1, <1>2, <1>3 DEF SlotsInUse, UnderWay, Description, SlotOf
<1>17. ShutdownIsQuiescent'
  BY <1>1, <1>2, <1>3 DEF ShutdownIsQuiescent, PoolTypes
<1>18. PublishMeansConsumed'
  BY <1>1, <1>2, <1>3 DEF PublishMeansConsumed
<1> QED
  BY <1>4, <1>5, <1>6, <1>7, <1>8, <1>9, <1>10, <1>11, <1>12, <1>13, <1>14, <1>15,
       <1>16, <1>17, <1>18

-----------------------------------------------------------------------------
(* Steps of the producer.                                                  *)

(* A call of the producer returns: it is in no other, so the count of      *)
(* operations is as before.                                                *)
LEMMA ProducerReturns ==
  ASSUME IInv, Slots!AcquireWriteTests("producer", TRUE), Slots!EndOperation("producer")
  PROVE  UNCHANGED <<slots_call, m_active_operations, lifetime>>
<1>1. slots_call["producer"] = "idle" /\ slots_call \in [Threads -> {"idle", "AcquireRead", "Close"}]
  BY DEF IInv, PoolTypes, Slots!AcquireWriteTests, Slots!Entering, Slots!Woken, Threads
<1>2. m_active_operations \in {0, 1}
  BY DEF IInv, PoolTypes
<1>3. Slots!Operations("producer") = m_active_operations + 1
  BY <1>1 DEF Slots!Operations
<1> QED
  BY <1>1, <1>2, <1>3 DEF Slots!EndOperation

(* The producer takes the pending frame.                                    *)
LEMMA TakeKeeps ==
  ASSUME IInv, ProducerTakes
  PROVE  IInv'
<1>1. /\ pc["producer"] = "wait" /\ pending # NoTick /\ Goto("producer", "acquireWrite")
      /\ record' = pending /\ pending' = NoTick
      /\ UNCHANGED <<slotVars, channelVars, failure, in_flight, error, stop_requested, sleepers, payload,
                     packet, expected_tick, published, outcome, disturbed>>
  BY DEF ProducerTakes
<1>2. /\ ControlOK' /\ pc'["producer"] = "acquireWrite"
      /\ pc'["main"] = pc["main"] /\ pc'["consumer"] = pc["consumer"]
  BY <1>1, ProducerGoes DEF ProducerLabels, HandlerLabels
<1> USE DEF IInv, slotVars, channelVars, coordVars, localVars
<1>3. TypeOK'
  BY <1>1, <1>2, ExchangeAssumption DEF TypeOK, ControlOK
<1>4. PoolTypes'
  BY <1>1, <1>2 DEF PoolTypes, Threads
<1>5. RingTypes'
  BY <1>1, <1>2 DEF RingTypes, Channel!Advance
<1>6. OneFrame'
  BY <1>1, <1>2 DEF OneFrame, Pending, Producing, UnderWay, Checking, Sending
<1>7. FrameExpected'
  BY <1>1, <1>2 DEF FrameExpected, Description, Frames, Pending, Producing, UnderWay,
       Checking, Sending
<1>8. MainLoop'
  BY <1>1, <1>2 DEF MainLoop, Frames, FramesLeft, Threads, ProduceLoop, ConsumeLoop,
       Pending, Producing, UnderWay, Checking, Sending
<1>9. CleanStop'
  BY <1>1, <1>2 DEF CleanStop, Frames, Threads, FrameExpected, Pending
<1>10. ClosedInOrder'
  BY <1>1, <1>2 DEF ClosedInOrder, Threads, ConsumeLoop
<1>11. WriteLease'
  BY <1>1, <1>2 DEF WriteLease, Writes, Slots!AtGeneration
<1>12. ReadLease'
  BY <1>1, <1>2 DEF ReadLease, Slots!AtGeneration
<1>13. DescribedSlot'
  BY <1>1, <1>2 DEF DescribedSlot, UnderWay, Description, Sending, SlotOf
<1>14. SentSlot'
  BY <1>1, <1>2 DEF SentSlot, UnderWay, Description, Sending
<1>15. SlotsInUse'
  BY <1>1, <1>2 DEF SlotsInUse, UnderWay, Description, SlotOf
<1>16. ShutdownIsQuiescent'
  BY <1>1, <1>2 DEF ShutdownIsQuiescent, PoolTypes
<1>17. PublishMeansConsumed'
  BY <1>1, <1>2 DEF PublishMeansConsumed
<1> QED
  BY <1>3, <1>4, <1>5, <1>6, <1>7, <1>8, <1>9, <1>10, <1>11, <1>12, <1>13, <1>14, <1>15,
       <1>16, <1>17

(* The producer stops: main has asked it to.                                *)
LEMMA ProducerStopKeeps ==
  ASSUME IInv, ProducerStops
  PROVE  IInv'
<1>1. /\ pc["producer"] = "wait" /\ pending = NoTick /\ stop_requested /\ Goto("producer", "closeChannel")
      /\ UNCHANGED <<slotVars, channelVars, failure, coordVars, sleepers, localVars>>
  BY DEF ProducerStops
<1>2. /\ ControlOK' /\ pc'["producer"] = "closeChannel"
      /\ pc'["main"] = pc["main"] /\ pc'["consumer"] = pc["consumer"]
  BY <1>1, ProducerGoes DEF ProducerLabels, HandlerLabels
<1>3. pc["main"] \notin Frames /\ pc'["main"] \notin Frames
  BY <1>1, <1>2 DEF IInv, MainLoop, ProduceLoop, ConsumeLoop
<1> USE DEF IInv, slotVars, channelVars, coordVars, localVars
<1>4. TypeOK'
  BY <1>1, <1>2, <1>3, ExchangeAssumption DEF TypeOK, ControlOK
<1>5. PoolTypes'
  BY <1>1, <1>2, <1>3 DEF PoolTypes, Threads
<1>6. RingTypes'
  BY <1>1, <1>2, <1>3 DEF RingTypes, Channel!Advance
<1>7. OneFrame'
  BY <1>1, <1>2, <1>3 DEF OneFrame, Pending, Producing, UnderWay, Checking, Sending
<1>8. FrameExpected'
  BY <1>1, <1>2, <1>3 DEF FrameExpected, Description, Frames, Pending, Producing,
       UnderWay, Checking, Sending
<1>9. MainLoop'
  BY <1>1, <1>2, <1>3 DEF MainLoop, Frames, FramesLeft, Threads, ProduceLoop,
       ConsumeLoop, Pending, Producing, UnderWay, Checking, Sending
<1>10. CleanStop'
  BY <1>1, <1>2, <1>3 DEF CleanStop, Frames, Threads
<1>11. ClosedInOrder'
  BY <1>1, <1>2, <1>3 DEF ClosedInOrder, Threads, ConsumeLoop
<1>12. WriteLease'
  BY <1>1, <1>2, <1>3 DEF WriteLease, Writes, Slots!AtGeneration
<1>13. ReadLease'
  BY <1>1, <1>2, <1>3 DEF ReadLease, Slots!AtGeneration
<1>14. DescribedSlot'
  BY <1>1, <1>2, <1>3 DEF DescribedSlot, UnderWay, Description, Sending, SlotOf
<1>15. SentSlot'
  BY <1>1, <1>2, <1>3 DEF SentSlot, UnderWay, Description, Sending
<1>16. SlotsInUse'
  BY <1>1, <1>2, <1>3 DEF SlotsInUse, UnderWay, Description, SlotOf
<1>17. ShutdownIsQuiescent'
  BY <1>1, <1>2, <1>3 DEF ShutdownIsQuiescent, PoolTypes
<1>18. PublishMeansConsumed'
  BY <1>1, <1>2, <1>3 DEF PublishMeansConsumed
<1> QED
  BY <1>4, <1>5, <1>6, <1>7, <1>8, <1>9, <1>10, <1>11, <1>12, <1>13, <1>14, <1>15,
       <1>16, <1>17, <1>18

(* The producer acquires a free slot for a new generation.                  *)
LEMMA AcquireWriteKeeps ==
  ASSUME IInv, pc["producer"] = "acquireWrite", UNCHANGED <<failure, localVars>>,
         SlotStep("producer", Slots!AcquireWriteLease("producer", TRUE), "fill")
  PROVE  IInv'
<1>1. /\ Goto("producer", "fill") /\ slots_producer' = "producer" /\ ~slots_closed
      /\ UNCHANGED <<slots_consumer, slots_closed, read_leases, slots_call, m_active_operations, lifetime,
                     channelVars, failure, coordVars, sleepers, localVars>>
  BY ProducerReturns
     DEF SlotStep, Slots!AcquireWriteLease, Slots!RegisterProducer
<1>2. /\ ControlOK' /\ pc'["producer"] = "fill"
      /\ pc'["main"] = pc["main"] /\ pc'["consumer"] = pc["consumer"]
  BY <1>1, ProducerGoes DEF ProducerLabels, HandlerLabels
<1>3. PICK s \in SlotIds :
      /\ state[s] = "Free" /\ generation[s] < MaxGeneration
      /\ generation' = [generation EXCEPT ![s] = generation[s] + 1]
      /\ payload_size' = [payload_size EXCEPT ![s] = 0]
      /\ state' = [state EXCEPT ![s] = "Writing"]
      /\ write_leases' = [write_leases EXCEPT !["producer"] = @ \cup {[slot_id |-> s, generation |-> generation[s] + 1]}]
  BY DEF SlotStep, Slots!AcquireWriteLease, Slots!TakeFreeSlot, Slots!FindFreeSlot, Slots!IsFreeSlot,
         Slots!Unexhausted, Slots!NextGeneration, Slots!SlotIds, SlotIds
<1>4. /\ generation[s] + 1 \in 0 .. MaxGeneration /\ generation[s] + 1 # 0
      /\ 0 \in 0 .. RecordSize
  BY <1>3, ExchangeAssumption DEF IInv, PoolTypes, MaxGeneration, RecordSize
<1>5. LET tok == [slot_id |-> s, generation |-> generation[s] + 1] IN
      /\ tok \in Tokens /\ tok.slot_id = s /\ tok.generation = generation[s] + 1
      /\ write_leases' = [write_leases EXCEPT !["producer"] = {tok}]
  <2>1. write_leases["producer"] = {}
    BY DEF IInv, WriteLease
  <2>2. [slot_id |-> s, generation |-> generation[s] + 1] \in Tokens
    BY <1>4 DEF Tokens, SlotIds
  <2> QED
    BY <1>3, <2>1, <2>2
<1>6. pc["producer"] = "acquireWrite" /\ ~UnderWay /\ ~UnderWay' /\ ~Checking /\ pending = NoTick
  BY <1>1, <1>2 DEF IInv, OneFrame, Producing, UnderWay, Pending, channelVars
<1> USE DEF IInv, slotVars, channelVars, coordVars, localVars
<1>7. TypeOK'
  BY <1>1, <1>2, <1>3, <1>4, <1>5, <1>6, ExchangeAssumption
     DEF TypeOK, ControlOK
<1>8. PoolTypes'
  BY <1>1, <1>2, <1>3, <1>4, <1>5, <1>6 DEF PoolTypes, Threads
<1>9. RingTypes'
  BY <1>1, <1>2, <1>3, <1>4, <1>5, <1>6 DEF RingTypes, Channel!Advance
<1>10. OneFrame'
  BY <1>1, <1>2, <1>3, <1>4, <1>5, <1>6 DEF OneFrame, Pending, Producing, UnderWay,
       Checking, Sending
<1>11. FrameExpected'
  BY <1>1, <1>2, <1>3, <1>4, <1>5, <1>6 DEF FrameExpected, Description, Frames, Pending,
       Producing, UnderWay, Checking, Sending
<1>12. MainLoop'
  BY <1>1, <1>2, <1>3, <1>4, <1>5, <1>6 DEF MainLoop, Frames, FramesLeft, Threads,
       ProduceLoop, ConsumeLoop, Pending, Producing, UnderWay, Checking, Sending
<1>13. CleanStop'
  BY <1>1, <1>2, <1>3, <1>4, <1>5, <1>6 DEF CleanStop, Frames, Threads
<1>14. ClosedInOrder'
  BY <1>1, <1>2, <1>3, <1>4, <1>5, <1>6 DEF ClosedInOrder, Threads, ConsumeLoop
<1>15. WriteLease'
  BY <1>1, <1>2, <1>3, <1>4, <1>5, <1>6 DEF WriteLease, Writes, Slots!AtGeneration,
       PoolTypes, Threads
<1>16. ReadLease'
  BY <1>1, <1>2, <1>3, <1>4, <1>5, <1>6 DEF ReadLease, Slots!AtGeneration, Checking
<1>17. DescribedSlot'
  BY <1>1, <1>2, <1>3, <1>4, <1>5, <1>6 DEF DescribedSlot, UnderWay, Description,
       Sending, SlotOf
<1>18. SentSlot'
  BY <1>1, <1>2, <1>3, <1>4, <1>5, <1>6 DEF SentSlot, UnderWay, Description, Sending
<1>19. SlotsInUse'
  <2>1. /\ state' \in [SlotIds -> {"Free", "Writing", "Published", "Reading"}]
        /\ \A r \in SlotIds : r # s => state'[r] = state[r]
        /\ state'[s] = "Writing" /\ UNCHANGED read_leases
    BY <1>1, <1>3 DEF PoolTypes
  <2>2. write_leases["producer"] = {} /\ \E tok \in write_leases'["producer"] : tok.slot_id = s
    BY <1>5 DEF WriteLease, PoolTypes, Threads
  <2> QED
    BY <1>3, <1>6, <2>1, <2>2 DEF SlotsInUse
<1>20. ShutdownIsQuiescent'
  BY <1>1, <1>2, <1>3, <1>4, <1>5, <1>6 DEF ShutdownIsQuiescent, PoolTypes
<1>21. PublishMeansConsumed'
  BY <1>1, <1>2, <1>3, <1>4, <1>5, <1>6 DEF PublishMeansConsumed
<1> QED
  BY <1>7, <1>8, <1>9, <1>10, <1>11, <1>12, <1>13, <1>14, <1>15, <1>16, <1>17, <1>18,
       <1>19, <1>20, <1>21

(* No slot for the producer: the slots have been closed.                    *)
LEMMA NoSlotKeeps ==
  ASSUME IInv, pc["producer"] = "acquireWrite", UNCHANGED localVars,
         Slots!AcquireWriteNothing("producer", TRUE), Throws("producer", "no slot"),
         UNCHANGED <<channelVars, coordVars, sleepers>>
  PROVE  IInv'
<1>1. /\ Goto("producer", "unwind") /\ failure' = [failure EXCEPT !["producer"] = "no slot"]
      /\ slots_producer' = "producer" /\ slots_closed
      /\ UNCHANGED <<state, generation, payload_size, slots_consumer, slots_closed, write_leases, read_leases,
                     slots_call, m_active_operations, lifetime, channelVars, coordVars, sleepers, localVars>>
  BY ProducerReturns
     DEF Throws, Slots!AcquireWriteNothing, Slots!RegisterProducer, Slots!slotVars, Slots!leaseVars
<1>2. /\ ControlOK' /\ pc'["producer"] = "unwind"
      /\ pc'["main"] = pc["main"] /\ pc'["consumer"] = pc["consumer"]
  BY <1>1, ProducerGoes DEF ProducerLabels, HandlerLabels
<1>3. pc["producer"] = "acquireWrite" /\ ~UnderWay /\ ~UnderWay' /\ ~Checking /\ pending = NoTick
  BY <1>1, <1>2 DEF IInv, OneFrame, Producing, UnderWay, Pending, channelVars
<1>4. pc["main"] \notin Frames /\ pc'["main"] \notin Frames
  BY <1>1, <1>2 DEF IInv, MainLoop, ProduceLoop, ConsumeLoop
<1>5. disturbed' = TRUE /\ channel_closed = TRUE
  BY Flags, <1>1, <1>2, <1>3, <1>4 DEF IInv, CleanStop, ClosedInOrder, localVars
<1> USE DEF IInv, slotVars, channelVars, coordVars, localVars
<1>6. TypeOK'
  BY <1>1, <1>2, <1>3, <1>4, <1>5, ExchangeAssumption
     DEF TypeOK, ControlOK, Failures, Threads
<1>7. PoolTypes'
  BY <1>1, <1>2, <1>3, <1>4, <1>5 DEF PoolTypes, Threads
<1>8. RingTypes'
  BY <1>1, <1>2, <1>3, <1>4, <1>5 DEF RingTypes, Channel!Advance
<1>9. OneFrame'
  BY <1>1, <1>2, <1>3, <1>4, <1>5 DEF OneFrame, Pending, Producing, UnderWay, Checking,
       Sending
<1>10. FrameExpected'
  BY <1>1, <1>2, <1>3, <1>4, <1>5 DEF FrameExpected, Description, Frames, Pending,
       Producing, UnderWay, Checking, Sending
<1>11. MainLoop'
  BY <1>1, <1>2, <1>3, <1>4, <1>5 DEF MainLoop, Frames, FramesLeft, Threads,
       ProduceLoop, ConsumeLoop, Pending, Producing, UnderWay, Checking, Sending
<1>12. CleanStop'
  BY <1>5 DEF CleanStop
<1>13. ClosedInOrder'
  BY <1>1, <1>2, <1>3, <1>4, <1>5 DEF ClosedInOrder, Threads, ConsumeLoop
<1>14. WriteLease'
  BY <1>1, <1>2, <1>3, <1>4, <1>5 DEF WriteLease, Writes, Slots!AtGeneration
<1>15. ReadLease'
  BY <1>1, <1>2, <1>3, <1>4, <1>5 DEF ReadLease, Slots!AtGeneration
<1>16. DescribedSlot'
  BY <1>1, <1>2, <1>3, <1>4, <1>5 DEF DescribedSlot, UnderWay, Description, Sending,
       SlotOf
<1>17. SentSlot'
  BY <1>1, <1>2, <1>3, <1>4, <1>5 DEF SentSlot, UnderWay, Description, Sending
<1>18. SlotsInUse'
  BY <1>1, <1>2, <1>3, <1>4, <1>5 DEF SlotsInUse, UnderWay, Description, SlotOf
<1>19. ShutdownIsQuiescent'
  BY <1>1, <1>2, <1>3, <1>4, <1>5 DEF ShutdownIsQuiescent, PoolTypes
<1>20. PublishMeansConsumed'
  BY <1>1, <1>2, <1>3, <1>4, <1>5 DEF PublishMeansConsumed
<1> QED
  BY <1>6, <1>7, <1>8, <1>9, <1>10, <1>11, <1>12, <1>13, <1>14, <1>15, <1>16, <1>17,
       <1>18, <1>19, <1>20

(* The record is copied into the slot.                                      *)
LEMMA FillKeeps ==
  ASSUME IInv, ProducerFills
  PROVE  IInv'
<1>1. PICK tok \in write_leases["producer"] :
      /\ pc["producer"] = "fill" /\ Goto("producer", "send")
      /\ payload_size' = [payload_size EXCEPT ![tok.slot_id] = RecordSize]
      /\ payload' = [payload EXCEPT ![tok.slot_id] = record]
      /\ UNCHANGED <<state, generation, slots_producer, slots_consumer, slots_closed, write_leases, read_leases,
                     slots_call, m_active_operations, lifetime, channelVars, coordVars, sleepers, failure,
                     record, packet, expected_tick, published, outcome, disturbed>>
  BY DEF ProducerFills, SlotStep, Slots!SetPayloadSize, Slots!ownerVars, Slots!leaseVars, Slots!callVars
<1>2. /\ ControlOK' /\ pc'["producer"] = "send"
      /\ pc'["main"] = pc["main"] /\ pc'["consumer"] = pc["consumer"]
  BY <1>1, ProducerGoes DEF ProducerLabels, HandlerLabels
<1>3. pc["producer"] = "fill" /\ ~UnderWay /\ ~UnderWay' /\ ~Checking /\ pending = NoTick
  BY <1>1, <1>2 DEF IInv, OneFrame, Producing, UnderWay, Pending, channelVars
<1>4. write_leases["producer"] = {tok} /\ tok \in Tokens /\ tok.slot_id \in 0 .. SlotCount - 1
  BY <1>3, <1>1 DEF IInv, WriteLease, Writes, Tokens
<1> USE DEF IInv, slotVars, channelVars, coordVars, localVars
<1>5. TypeOK'
  BY <1>1, <1>2, <1>3, <1>4, ExchangeAssumption DEF TypeOK, ControlOK
<1>6. PoolTypes'
  BY <1>1, <1>2, <1>3, <1>4 DEF PoolTypes, Threads, RecordSize, SlotIds
<1>7. RingTypes'
  BY <1>1, <1>2, <1>3, <1>4 DEF RingTypes, Channel!Advance
<1>8. OneFrame'
  BY <1>1, <1>2, <1>3, <1>4 DEF OneFrame, Pending, Producing, UnderWay, Checking,
       Sending
<1>9. FrameExpected'
  BY <1>1, <1>2, <1>3, <1>4 DEF FrameExpected, Description, Frames, Pending, Producing,
       UnderWay, Checking, Sending
<1>10. MainLoop'
  BY <1>1, <1>2, <1>3, <1>4 DEF MainLoop, Frames, FramesLeft, Threads, ProduceLoop,
       ConsumeLoop, Pending, Producing, UnderWay, Checking, Sending
<1>11. CleanStop'
  BY <1>1, <1>2, <1>3, <1>4 DEF CleanStop, Frames, Threads
<1>12. ClosedInOrder'
  BY <1>1, <1>2, <1>3, <1>4 DEF ClosedInOrder, Threads, ConsumeLoop
<1>13. WriteLease'
  BY <1>1, <1>2, <1>3, <1>4 DEF WriteLease, Writes, Slots!AtGeneration, PoolTypes,
       TypeOK, SlotIds
<1>14. ReadLease'
  BY <1>1, <1>2, <1>3, <1>4 DEF ReadLease, Slots!AtGeneration, Checking
<1>15. DescribedSlot'
  BY <1>1, <1>2, <1>3, <1>4 DEF DescribedSlot, UnderWay, Description, Sending, SlotOf
<1>16. SentSlot'
  BY <1>1, <1>2, <1>3, <1>4 DEF SentSlot, UnderWay, Description, Sending
<1>17. SlotsInUse'
  BY <1>1, <1>2, <1>3, <1>4 DEF SlotsInUse, UnderWay, Description, SlotOf
<1>18. ShutdownIsQuiescent'
  BY <1>1, <1>2, <1>3, <1>4 DEF ShutdownIsQuiescent, PoolTypes
<1>19. PublishMeansConsumed'
  BY <1>1, <1>2, <1>3, <1>4 DEF PublishMeansConsumed
<1> QED
  BY <1>5, <1>6, <1>7, <1>8, <1>9, <1>10, <1>11, <1>12, <1>13, <1>14, <1>15, <1>16,
       <1>17, <1>18, <1>19

(* The descriptor goes out: it describes the frame and is alone in the ring. *)
LEMMA SendKeeps ==
  ASSUME IInv, NEW tok \in write_leases["producer"], pc["producer"] = "send", UNCHANGED <<failure, localVars>>,
         ChannelStep("producer", Channel!PublishAccepts("producer", Descriptor(tok), TRUE), "sendNotify")
  PROVE  IInv'
<1>1. /\ Goto("producer", "sendNotify") /\ ~channel_closed
      /\ m_buffer' = [m_buffer EXCEPT ![m_tail] = [tick |-> record, slot |-> tok]]
      /\ m_tail' = Channel!Advance(m_tail) /\ m_size' = m_size + 1
      /\ UNCHANGED <<m_head, channel_closed, slotVars, failure, coordVars, sleepers, localVars>>
  BY DEF ChannelStep, Channel!PublishAccepts, Channel!PublishAllowed, Channel!PushTail, Descriptor
<1>2. /\ ControlOK' /\ pc'["producer"] = "sendNotify"
      /\ pc'["main"] = pc["main"] /\ pc'["consumer"] = pc["consumer"]
  BY <1>1, ProducerGoes DEF ProducerLabels, HandlerLabels
<1>3. pc["producer"] = "send" /\ ~UnderWay /\ ~Checking /\ pending = NoTick /\ m_size = 0 /\ m_tail = m_head
  BY DEF IInv, OneFrame, Producing, UnderWay, Pending, RingTypes
<1>4. m_size' = 1 /\ UnderWay' /\ pc["consumer"] \in {"consume", "completeNotify"}
  BY <1>1, <1>2, <1>3 DEF IInv, UnderWay, Checking, ClosedInOrder, ConsumeLoop
<1>5. /\ write_leases["producer"] = {tok} /\ tok \in Tokens /\ Writes(tok)
      /\ payload[tok.slot_id] = record /\ payload_size[tok.slot_id] = RecordSize
  BY DEF IInv, WriteLease, Writes
<1>6. record = expected_tick /\ record \in Ticks
  <2>1. record = expected_tick /\ record \in Ticks \cup {NoTick}
    BY DEF IInv, FrameExpected, Producing, TypeOK
  <2> QED
    BY <2>1, Counters DEF NoTick
<1>7. /\ m_buffer' \in [Indices -> Packets \cup {NoPacket}] /\ m_tail' \in Indices
      /\ Description' = [tick |-> record, slot |-> tok] /\ Description' \in Packets
  <2>1. [tick |-> record, slot |-> tok] \in Packets
    BY <1>5, <1>6 DEF Packets
  <2>2. m_buffer \in [Indices -> Packets \cup {NoPacket}] /\ m_head \in Indices
    BY DEF IInv, RingTypes
  <2>3. m_tail' \in Indices
    BY <1>1, <1>3, <2>2, ExchangeAssumption DEF Channel!Advance, Indices
  <2> QED
    BY <1>1, <1>3, <1>4, <2>1, <2>2, <2>3 DEF Description
<1> USE DEF IInv, slotVars, channelVars, coordVars, localVars
<1>8. TypeOK'
  BY <1>1, <1>2, <1>3, <1>4, <1>5, <1>6, <1>7, ExchangeAssumption
     DEF TypeOK, ControlOK
<1>9. PoolTypes'
  BY <1>1, <1>2, <1>3, <1>4, <1>5, <1>6, <1>7 DEF PoolTypes, Threads
<1>10. RingTypes'
  BY <1>1, <1>2, <1>3, <1>4, <1>5, <1>6, <1>7 DEF RingTypes, Channel!Advance
<1>11. OneFrame'
  BY <1>1, <1>2, <1>3, <1>4, <1>5, <1>6, <1>7 DEF OneFrame, Pending, Producing,
       UnderWay, Checking, Sending
<1>12. FrameExpected'
  BY <1>1, <1>2, <1>3, <1>4, <1>5, <1>6, <1>7 DEF FrameExpected, Description, Frames,
       Pending, Producing, UnderWay, Checking, Sending
<1>13. MainLoop'
  BY <1>1, <1>2, <1>3, <1>4, <1>5, <1>6, <1>7 DEF MainLoop, Frames, FramesLeft, Threads,
       ProduceLoop, ConsumeLoop, Pending, Producing, UnderWay, Checking, Sending
<1>14. CleanStop'
  BY <1>1, <1>2, <1>3, <1>4, <1>5, <1>6, <1>7 DEF CleanStop, Frames, Threads
<1>15. ClosedInOrder'
  BY <1>1, <1>2, <1>3, <1>4, <1>5, <1>6, <1>7 DEF ClosedInOrder, Threads, ConsumeLoop
<1>16. WriteLease'
  BY <1>1, <1>2, <1>3, <1>4, <1>5, <1>6, <1>7 DEF WriteLease, Writes, Slots!AtGeneration
<1>17. ReadLease'
  BY <1>1, <1>2, <1>3, <1>4, <1>5, <1>6, <1>7 DEF ReadLease, Slots!AtGeneration
<1>18. DescribedSlot'
  BY <1>1, <1>2, <1>3, <1>4, <1>5, <1>6, <1>7 DEF DescribedSlot, UnderWay, Description,
       Sending, SlotOf, Writes, Slots!AtGeneration
<1>19. SentSlot'
  BY <1>1, <1>2, <1>3, <1>4, <1>5, <1>6, <1>7 DEF SentSlot, UnderWay, Description,
       Sending
<1>20. SlotsInUse'
  BY <1>1, <1>2, <1>3, <1>4, <1>5, <1>6, <1>7 DEF SlotsInUse, UnderWay, Description,
       SlotOf, WriteLease
<1>21. ShutdownIsQuiescent'
  BY <1>1, <1>2, <1>3, <1>4, <1>5, <1>6, <1>7 DEF ShutdownIsQuiescent, PoolTypes
<1>22. PublishMeansConsumed'
  BY <1>1, <1>2, <1>3, <1>4, <1>5, <1>6, <1>7 DEF PublishMeansConsumed
<1> QED
  BY <1>8, <1>9, <1>10, <1>11, <1>12, <1>13, <1>14, <1>15, <1>16, <1>17, <1>18, <1>19,
       <1>20, <1>21, <1>22

(* The channel has been closed.                                             *)
LEMMA SendRefusedKeeps ==
  ASSUME IInv, NEW tok \in write_leases["producer"], pc["producer"] = "send", UNCHANGED localVars,
         Channel!PublishRefuses("producer", Descriptor(tok), TRUE), Throws("producer", "channel closed"),
         UNCHANGED <<slotVars, coordVars, sleepers>>
  PROVE  IInv'
<1>1. /\ Goto("producer", "unwind") /\ failure' = [failure EXCEPT !["producer"] = "channel closed"]
      /\ channel_closed
      /\ UNCHANGED <<m_buffer, m_head, m_tail, m_size, channel_closed, slotVars, coordVars, sleepers, localVars>>
  BY DEF Throws, Channel!PublishRefuses, Channel!ringVars
<1>2. /\ ControlOK' /\ pc'["producer"] = "unwind"
      /\ pc'["main"] = pc["main"] /\ pc'["consumer"] = pc["consumer"]
  BY <1>1, ProducerGoes DEF ProducerLabels, HandlerLabels
<1>3. pc["producer"] = "send" /\ ~UnderWay /\ ~UnderWay' /\ ~Checking /\ pending = NoTick
  BY <1>1, <1>2 DEF IInv, OneFrame, Producing, UnderWay, Pending
<1>4. pc["main"] \notin Frames /\ pc'["main"] \notin Frames
  BY <1>1, <1>2 DEF IInv, MainLoop, ProduceLoop, ConsumeLoop
<1>5. disturbed' = TRUE /\ channel_closed = TRUE
  BY Flags, <1>1, <1>2, <1>3, <1>4 DEF IInv, CleanStop, ClosedInOrder, localVars
<1> USE DEF IInv, slotVars, channelVars, coordVars, localVars
<1>6. TypeOK'
  BY <1>1, <1>2, <1>3, <1>4, <1>5, ExchangeAssumption
     DEF TypeOK, ControlOK, Failures, Threads
<1>7. PoolTypes'
  BY <1>1, <1>2, <1>3, <1>4, <1>5 DEF PoolTypes, Threads
<1>8. RingTypes'
  BY <1>1, <1>2, <1>3, <1>4, <1>5 DEF RingTypes, Channel!Advance
<1>9. OneFrame'
  BY <1>1, <1>2, <1>3, <1>4, <1>5 DEF OneFrame, Pending, Producing, UnderWay, Checking,
       Sending
<1>10. FrameExpected'
  BY <1>1, <1>2, <1>3, <1>4, <1>5 DEF FrameExpected, Description, Frames, Pending,
       Producing, UnderWay, Checking, Sending
<1>11. MainLoop'
  BY <1>1, <1>2, <1>3, <1>4, <1>5 DEF MainLoop, Frames, FramesLeft, Threads,
       ProduceLoop, ConsumeLoop, Pending, Producing, UnderWay, Checking, Sending
<1>12. CleanStop'
  BY <1>5 DEF CleanStop
<1>13. ClosedInOrder'
  BY <1>1, <1>2, <1>3, <1>4, <1>5 DEF ClosedInOrder, Threads, ConsumeLoop
<1>14. WriteLease'
  BY <1>1, <1>2, <1>3, <1>4, <1>5 DEF WriteLease, Writes, Slots!AtGeneration
<1>15. ReadLease'
  BY <1>1, <1>2, <1>3, <1>4, <1>5 DEF ReadLease, Slots!AtGeneration
<1>16. DescribedSlot'
  BY <1>1, <1>2, <1>3, <1>4, <1>5 DEF DescribedSlot, UnderWay, Description, Sending,
       SlotOf
<1>17. SentSlot'
  BY <1>1, <1>2, <1>3, <1>4, <1>5 DEF SentSlot, UnderWay, Description, Sending
<1>18. SlotsInUse'
  BY <1>1, <1>2, <1>3, <1>4, <1>5 DEF SlotsInUse, UnderWay, Description, SlotOf
<1>19. ShutdownIsQuiescent'
  BY <1>1, <1>2, <1>3, <1>4, <1>5 DEF ShutdownIsQuiescent, PoolTypes
<1>20. PublishMeansConsumed'
  BY <1>1, <1>2, <1>3, <1>4, <1>5 DEF PublishMeansConsumed
<1> QED
  BY <1>6, <1>7, <1>8, <1>9, <1>10, <1>11, <1>12, <1>13, <1>14, <1>15, <1>16, <1>17,
       <1>18, <1>19, <1>20

(* The consumer has been notified.                                          *)
LEMMA SendNotifyKeeps ==
  ASSUME IInv, ProducerNotifies
  PROVE  IInv'
<1>1. /\ pc["producer"] = "sendNotify" /\ Goto("producer", "publish")
      /\ UNCHANGED <<m_buffer, m_head, m_tail, m_size, channel_closed, slotVars, failure, coordVars, sleepers, localVars>>
  BY DEF ProducerNotifies, ChannelStep, Channel!Notifies, Channel!ringVars
<1>2. /\ ControlOK' /\ pc'["producer"] = "publish"
      /\ pc'["main"] = pc["main"] /\ pc'["consumer"] = pc["consumer"]
  BY <1>1, ProducerGoes DEF ProducerLabels, HandlerLabels
<1> USE DEF IInv, slotVars, channelVars, coordVars, localVars
<1>3. TypeOK'
  BY <1>1, <1>2, ExchangeAssumption DEF TypeOK, ControlOK
<1>4. PoolTypes'
  BY <1>1, <1>2 DEF PoolTypes, Threads
<1>5. RingTypes'
  BY <1>1, <1>2 DEF RingTypes, Channel!Advance
<1>6. OneFrame'
  BY <1>1, <1>2 DEF OneFrame, Pending, Producing, UnderWay, Checking, Sending
<1>7. FrameExpected'
  BY <1>1, <1>2 DEF FrameExpected, Description, Frames, Pending, Producing, UnderWay,
       Checking, Sending
<1>8. MainLoop'
  BY <1>1, <1>2 DEF MainLoop, Frames, FramesLeft, Threads, ProduceLoop, ConsumeLoop,
       Pending, Producing, UnderWay, Checking, Sending
<1>9. CleanStop'
  BY <1>1, <1>2 DEF CleanStop, Frames, Threads
<1>10. ClosedInOrder'
  BY <1>1, <1>2 DEF ClosedInOrder, Threads, ConsumeLoop
<1>11. WriteLease'
  BY <1>1, <1>2 DEF WriteLease, Writes, Slots!AtGeneration
<1>12. ReadLease'
  BY <1>1, <1>2 DEF ReadLease, Slots!AtGeneration
<1>13. DescribedSlot'
  BY <1>1, <1>2 DEF DescribedSlot, UnderWay, Description, Sending, SlotOf
<1>14. SentSlot'
  BY <1>1, <1>2 DEF SentSlot, UnderWay, Description, Sending
<1>15. SlotsInUse'
  BY <1>1, <1>2 DEF SlotsInUse, UnderWay, Description, SlotOf
<1>16. ShutdownIsQuiescent'
  BY <1>1, <1>2 DEF ShutdownIsQuiescent, PoolTypes
<1>17. PublishMeansConsumed'
  BY <1>1, <1>2 DEF PublishMeansConsumed
<1> QED
  BY <1>3, <1>4, <1>5, <1>6, <1>7, <1>8, <1>9, <1>10, <1>11, <1>12, <1>13, <1>14, <1>15,
       <1>16, <1>17

(* The slot is published: its descriptor is under way.                      *)
LEMMA PublishWriteKeeps ==
  ASSUME IInv, NEW tok \in write_leases["producer"], pc["producer"] = "publish", UNCHANGED <<failure, localVars>>,
         SlotStep("producer", Slots!PublishWrite("producer", tok), "wait")
  PROVE  IInv'
<1>1. /\ Goto("producer", "wait") /\ ~slots_closed /\ pc["producer"] = "publish"
      /\ state' = [state EXCEPT ![tok.slot_id] = "Published"]
      /\ write_leases' = [write_leases EXCEPT !["producer"] = @ \ {tok}]
      /\ UNCHANGED <<generation, payload_size, slots_closed, slots_producer, slots_consumer, read_leases,
                     slots_call, m_active_operations, lifetime, channelVars, failure, coordVars, sleepers, localVars>>
  BY DEF SlotStep, Slots!PublishWrite, Slots!Publishable, Slots!EndLease, Slots!ownerVars, Slots!callVars
<1>2. /\ ControlOK' /\ pc'["producer"] = "wait"
      /\ pc'["main"] = pc["main"] /\ pc'["consumer"] = pc["consumer"]
  BY <1>1, ProducerGoes DEF ProducerLabels, HandlerLabels
<1>3. write_leases["producer"] = {tok} /\ tok \in Tokens /\ Writes(tok) /\ tok.slot_id \in SlotIds
  BY <1>1 DEF IInv, WriteLease, Writes, Tokens, SlotIds
<1>4. UnderWay /\ UnderWay' /\ Description' = Description /\ Description.slot = tok
  BY <1>1, <1>2, <1>3 DEF IInv, SentSlot, Sending, UnderWay, Description, channelVars, localVars
<1>5. write_leases' \in [Threads -> SUBSET Tokens] /\ write_leases'["producer"] = {}
      /\ write_leases'["main"] = write_leases["main"] /\ write_leases'["consumer"] = write_leases["consumer"]
  BY <1>1, <1>3 DEF IInv, PoolTypes, Threads
<1> USE DEF IInv, slotVars, channelVars, coordVars, localVars
<1>6. TypeOK'
  BY <1>1, <1>2, <1>3, <1>4, <1>5, ExchangeAssumption
     DEF TypeOK, ControlOK
<1>7. PoolTypes'
  BY <1>1, <1>2, <1>3, <1>4, <1>5 DEF PoolTypes, Threads
<1>8. RingTypes'
  BY <1>1, <1>2, <1>3, <1>4, <1>5 DEF RingTypes, Channel!Advance
<1>9. OneFrame'
  BY <1>1, <1>2, <1>3, <1>4, <1>5 DEF OneFrame, Pending, Producing, UnderWay, Checking,
       Sending
<1>10. FrameExpected'
  BY <1>1, <1>2, <1>3, <1>4, <1>5 DEF FrameExpected, Description, Frames, Pending,
       Producing, UnderWay, Checking, Sending
<1>11. MainLoop'
  BY <1>1, <1>2, <1>3, <1>4, <1>5 DEF MainLoop, Frames, FramesLeft, Threads,
       ProduceLoop, ConsumeLoop, Pending, Producing, UnderWay, Checking, Sending
<1>12. CleanStop'
  BY <1>1, <1>2, <1>3, <1>4, <1>5 DEF CleanStop, Frames, Threads
<1>13. ClosedInOrder'
  BY <1>1, <1>2, <1>3, <1>4, <1>5 DEF ClosedInOrder, Threads, ConsumeLoop
<1>14. WriteLease'
  BY <1>1, <1>2, <1>3, <1>4, <1>5 DEF WriteLease, Writes, Slots!AtGeneration
<1>15. ReadLease'
  BY <1>1, <1>2, <1>3, <1>4, <1>5 DEF ReadLease, Slots!AtGeneration, PoolTypes,
       OneFrame, Checking
<1>16. DescribedSlot'
  <2>1. state'[tok.slot_id] = "Published"
    BY <1>1, <1>3 DEF PoolTypes
  <2>2. /\ Description.slot.generation # 0
        /\ generation[tok.slot_id] = Description.slot.generation
        /\ payload[tok.slot_id] = Description.tick /\ payload_size[tok.slot_id] = RecordSize
    BY <1>3, <1>4 DEF DescribedSlot, SlotOf, Writes, Slots!AtGeneration
  <2> QED
    BY <1>1, <1>2, <1>4, <2>1, <2>2 DEF DescribedSlot, SlotOf
<1>17. SentSlot'
  BY <1>1, <1>2, <1>3, <1>4, <1>5 DEF SentSlot, UnderWay, Description, Sending
<1>18. SlotsInUse'
  BY <1>1, <1>2, <1>3, <1>4, <1>5 DEF SlotsInUse, UnderWay, Description, SlotOf,
       PoolTypes, Writes
<1>19. ShutdownIsQuiescent'
  BY <1>1, <1>2, <1>3, <1>4, <1>5 DEF ShutdownIsQuiescent, PoolTypes
<1>20. PublishMeansConsumed'
  BY <1>1, <1>2, <1>3, <1>4, <1>5 DEF PublishMeansConsumed
<1> QED
  BY <1>6, <1>7, <1>8, <1>9, <1>10, <1>11, <1>12, <1>13, <1>14, <1>15, <1>16, <1>17,
       <1>18, <1>19, <1>20

(* Publishing fails: the slots have been closed.                            *)
LEMMA PublishThrowsKeeps ==
  ASSUME IInv, NEW tok \in write_leases["producer"], pc["producer"] = "publish", UNCHANGED localVars,
         Slots!PublishWriteThrows("producer", tok), Throws("producer", "slots closed"),
         UNCHANGED <<channelVars, coordVars, sleepers>>
  PROVE  IInv'
<1>1. /\ Goto("producer", "unwind") /\ failure' = [failure EXCEPT !["producer"] = "slots closed"]
      /\ UNCHANGED <<slotVars, channelVars, coordVars, sleepers, localVars>> /\ slots_closed
  <2>1. Slots!Writable("producer", tok)
    BY DEF IInv, WriteLease, Writes, Slots!AtGeneration, Slots!Writable, Slots!SlotForToken
  <2> QED
    BY <2>1 DEF Throws, Slots!PublishWriteThrows, Slots!Publishable, Slots!LeaseKept, Slots!slotVars,
                Slots!ownerVars, Slots!callVars, slotVars
<1>2. /\ ControlOK' /\ pc'["producer"] = "unwind"
      /\ pc'["main"] = pc["main"] /\ pc'["consumer"] = pc["consumer"]
  BY <1>1, ProducerGoes DEF ProducerLabels, HandlerLabels
<1>3. pc["main"] \notin Frames /\ pc'["main"] \notin Frames
  BY <1>1, <1>2 DEF IInv, MainLoop, ProduceLoop, ConsumeLoop
<1>4. disturbed' = TRUE /\ channel_closed = TRUE
  BY Flags, <1>1, <1>2, <1>3 DEF IInv, CleanStop, ClosedInOrder, localVars
<1> USE DEF IInv, slotVars, channelVars, coordVars, localVars
<1>5. TypeOK'
  BY <1>1, <1>2, <1>3, <1>4, ExchangeAssumption DEF TypeOK, ControlOK, Failures, Threads
<1>6. PoolTypes'
  BY <1>1, <1>2, <1>3, <1>4 DEF PoolTypes, Threads
<1>7. RingTypes'
  BY <1>1, <1>2, <1>3, <1>4 DEF RingTypes, Channel!Advance
<1>8. OneFrame'
  BY <1>1, <1>2, <1>3, <1>4 DEF OneFrame, Pending, Producing, UnderWay, Checking,
       Sending
<1>9. FrameExpected'
  BY <1>1, <1>2, <1>3, <1>4 DEF FrameExpected, Description, Frames, Pending, Producing,
       UnderWay, Checking, Sending
<1>10. MainLoop'
  BY <1>1, <1>2, <1>3, <1>4 DEF MainLoop, Frames, FramesLeft, Threads, ProduceLoop,
       ConsumeLoop, Pending, Producing, UnderWay, Checking, Sending
<1>11. CleanStop'
  BY <1>4 DEF CleanStop
<1>12. ClosedInOrder'
  BY <1>1, <1>2, <1>3, <1>4 DEF ClosedInOrder, Threads, ConsumeLoop
<1>13. WriteLease'
  BY <1>1, <1>2, <1>3, <1>4 DEF WriteLease, Writes, Slots!AtGeneration
<1>14. ReadLease'
  BY <1>1, <1>2, <1>3, <1>4 DEF ReadLease, Slots!AtGeneration
<1>15. DescribedSlot'
  BY <1>1, <1>2, <1>3, <1>4 DEF DescribedSlot, UnderWay, Description, Sending, SlotOf
<1>16. SentSlot'
  BY <1>1, <1>2, <1>3, <1>4 DEF SentSlot, UnderWay, Description, Sending
<1>17. SlotsInUse'
  BY <1>1, <1>2, <1>3, <1>4 DEF SlotsInUse, UnderWay, Description, SlotOf
<1>18. ShutdownIsQuiescent'
  BY <1>1, <1>2, <1>3, <1>4 DEF ShutdownIsQuiescent, PoolTypes
<1>19. PublishMeansConsumed'
  BY <1>1, <1>2, <1>3, <1>4 DEF PublishMeansConsumed
<1> QED
  BY <1>5, <1>6, <1>7, <1>8, <1>9, <1>10, <1>11, <1>12, <1>13, <1>14, <1>15, <1>16,
       <1>17, <1>18, <1>19

(* The producer drops its lease; a frame that is described already was caught by closed slots. *)
LEMMA ProducerUnwindKeeps ==
  ASSUME IInv, Unwind("producer")
  PROVE  IInv'
<1>1. /\ pc["producer"] = "unwind" /\ Goto("producer", "recordError") /\ DropLease("producer")
      /\ UNCHANGED <<channelVars, failure, coordVars, sleepers, localVars>>
  BY DEF Unwind
<1>2. /\ ControlOK' /\ pc'["producer"] = "recordError"
      /\ pc'["main"] = pc["main"] /\ pc'["consumer"] = pc["consumer"]
  BY <1>1, ProducerGoes DEF ProducerLabels, HandlerLabels
<1>3. pc["main"] \notin Frames /\ pc'["main"] \notin Frames
  BY <1>1, <1>2 DEF IInv, MainLoop, ProduceLoop
<1>4. disturbed = TRUE
  BY Flags, <1>1, <1>3 DEF IInv, CleanStop
<1>5. /\ write_leases' \in [Threads -> SUBSET Tokens] /\ write_leases'["producer"] = {}
      /\ write_leases'["main"] = {} /\ write_leases'["consumer"] = {}
      /\ UNCHANGED <<generation, slots_closed, slots_producer, slots_consumer, read_leases,
                     slots_call, m_active_operations, lifetime>>
  <2>1. CASE write_leases["producer"] = {}
    BY <1>1, <2>1 DEF DropLease, slotVars, IInv, PoolTypes, WriteLease, ReadLease
  <2>2. CASE write_leases["producer"] # {}
    <3>1. PICK tok \in write_leases["producer"] : Slots!CancelWrite("producer", tok) \/ Slots!ReleaseRead("producer", tok)
      BY <1>1, <2>2 DEF DropLease, IInv, ReadLease
    <3>2. write_leases["producer"] = {tok} /\ Slots!Writable("producer", tok) /\ Slots!CancelWrite("producer", tok)
      BY <1>1, <3>1 DEF IInv, WriteLease, ReadLease, Writes, Slots!AtGeneration, Slots!Writable,
                        Slots!SlotForToken, Slots!ReleaseRead
    <3> QED
      BY <3>2 DEF Slots!CancelWrite, Slots!FreeSlot, Slots!ownerVars, Slots!callVars, IInv, PoolTypes,
                  WriteLease, Threads
  <2> QED
    BY <2>1, <2>2
<1>6. /\ state' \in [SlotIds -> {"Free", "Writing", "Published", "Reading"}]
      /\ payload_size' \in [SlotIds -> 0 .. RecordSize]
      /\ \A s \in SlotIds : IF \E tok \in write_leases["producer"] : tok.slot_id = s
                            THEN state[s] = "Writing" /\ state'[s] = "Free"
                            ELSE state'[s] = state[s] /\ payload_size'[s] = payload_size[s]
  <2>1. CASE write_leases["producer"] = {}
    BY <1>1, <2>1 DEF DropLease, slotVars, IInv, PoolTypes, WriteLease, ReadLease
  <2>2. CASE write_leases["producer"] # {}
    <3>1. PICK tok \in write_leases["producer"] : Slots!CancelWrite("producer", tok) \/ Slots!ReleaseRead("producer", tok)
      BY <1>1, <2>2 DEF DropLease, IInv, ReadLease
    <3>2. /\ write_leases["producer"] = {tok} /\ Slots!Writable("producer", tok) /\ Slots!CancelWrite("producer", tok)
          /\ tok.slot_id \in SlotIds /\ state[tok.slot_id] = "Writing"
      BY <1>1, <3>1 DEF IInv, WriteLease, ReadLease, Writes, Slots!AtGeneration, Slots!Writable,
                        Slots!SlotForToken, Slots!ReleaseRead, Tokens, SlotIds
    <3>3. /\ state' = [state EXCEPT ![tok.slot_id] = "Free"]
          /\ payload_size' = [payload_size EXCEPT ![tok.slot_id] = 0]
      BY <3>2 DEF Slots!CancelWrite, Slots!FreeSlot
    <3> QED
      BY <3>2, <3>3 DEF IInv, PoolTypes, RecordSize
  <2> QED
    BY <2>1, <2>2
<1> USE DEF IInv, slotVars, channelVars, coordVars, localVars
<1>7. TypeOK'
  BY <1>1, <1>2, <1>3, <1>4, <1>5, <1>6, ExchangeAssumption
     DEF TypeOK, ControlOK
<1>8. PoolTypes'
  BY <1>1, <1>2, <1>3, <1>4, <1>5, <1>6 DEF PoolTypes, Threads
<1>9. RingTypes'
  BY <1>1, <1>2, <1>3, <1>4, <1>5, <1>6 DEF RingTypes, Channel!Advance
<1>10. OneFrame'
  BY <1>1, <1>2, <1>3, <1>4, <1>5, <1>6 DEF OneFrame, Pending, Producing, UnderWay,
       Checking, Sending
<1>11. FrameExpected'
  BY <1>1, <1>2, <1>3, <1>4, <1>5, <1>6 DEF FrameExpected, Description, Frames, Pending,
       Producing, UnderWay, Checking, Sending
<1>12. MainLoop'
  BY <1>1, <1>2, <1>3, <1>4, <1>5, <1>6 DEF MainLoop, Frames, FramesLeft, Threads,
       ProduceLoop, ConsumeLoop, Pending, Producing, UnderWay, Checking, Sending
<1>13. CleanStop'
  BY <1>1, <1>4 DEF CleanStop
<1>14. ClosedInOrder'
  BY <1>1, <1>2, <1>3, <1>4, <1>5, <1>6 DEF ClosedInOrder, Threads, ConsumeLoop
<1>15. WriteLease'
  BY <1>1, <1>2, <1>3, <1>4, <1>5, <1>6 DEF WriteLease, Writes, Slots!AtGeneration
<1>16. ReadLease'
  <2>1. pc["consumer"] \in {"check", "release"} =>
          /\ packet.slot.slot_id \in SlotIds /\ state[packet.slot.slot_id] = "Reading"
    BY DEF FrameExpected, Checking, Packets, Tokens, SlotIds, ReadLease, Slots!AtGeneration
  <2> QED
    BY <1>1, <1>2, <1>5, <1>6, <2>1 DEF ReadLease, Slots!AtGeneration
<1>17. DescribedSlot'
  <2> SUFFICES ASSUME UnderWay'
               PROVE  DescribedSlot'
    BY DEF DescribedSlot
  <2>1. UnderWay /\ Description' = Description /\ slots_closed = TRUE
    BY <1>1, <1>2, <1>5, Flags DEF UnderWay, Description, DescribedSlot
  <2>2. Description \in Packets /\ Description.slot.slot_id \in SlotIds
    BY <2>1 DEF FrameExpected, Packets, Tokens, SlotIds
  <2>3. CASE \E tok \in write_leases["producer"] : tok.slot_id = Description.slot.slot_id
    BY <1>1, <1>2, <1>5, <1>6, <2>1, <2>2, <2>3 DEF DescribedSlot, SlotOf
  <2>4. CASE ~ \E tok \in write_leases["producer"] : tok.slot_id = Description.slot.slot_id
    BY <1>1, <1>2, <1>5, <1>6, <2>1, <2>2, <2>4 DEF DescribedSlot, SlotOf, Sending
  <2> QED
    BY <2>3, <2>4
<1>18. SentSlot'
  BY <1>1, <1>2, <1>3, <1>4, <1>5, <1>6 DEF SentSlot, UnderWay, Description, Sending
<1>19. SlotsInUse'
  <2>1. UnderWay' = UnderWay /\ Description' = Description
    BY <1>1, <1>2 DEF UnderWay, Description
  <2> QED
    BY <1>1, <1>2, <1>5, <1>6, <2>1 DEF SlotsInUse, SlotOf
<1>20. ShutdownIsQuiescent'
  BY <1>1, <1>2, <1>3, <1>4, <1>5, <1>6 DEF ShutdownIsQuiescent, PoolTypes
<1>21. PublishMeansConsumed'
  BY <1>1, <1>2, <1>3, <1>4, <1>5, <1>6 DEF PublishMeansConsumed
<1> QED
  BY <1>7, <1>8, <1>9, <1>10, <1>11, <1>12, <1>13, <1>14, <1>15, <1>16, <1>17, <1>18,
       <1>19, <1>20, <1>21

-----------------------------------------------------------------------------
(* Steps of the consumer.                                                  *)

(* A call of the consumer returns, the one it slept in included: none is   *)
(* in flight.                                                              *)
LEMMA ConsumerReturns ==
  ASSUME IInv, NEW tok, Slots!AcquireReadTests("consumer", tok, TRUE), Slots!EndOperation("consumer")
  PROVE  /\ slots_call' = [slots_call EXCEPT !["consumer"] = "idle"]
         /\ m_active_operations' = 0 /\ UNCHANGED lifetime
<1>1. slots_call["consumer"] \in {"idle", "AcquireRead"}
  BY DEF Slots!AcquireReadTests, Slots!Entering, Slots!Woken
<1>2. m_active_operations = IF slots_call["consumer"] = "AcquireRead" THEN 1 ELSE 0
  BY DEF IInv, PoolTypes
<1>3. Slots!Operations("consumer") = 1
  BY <1>1, <1>2 DEF Slots!Operations
<1> QED
  BY <1>3 DEF Slots!EndOperation

(* While the consumer handles a descriptor the ring is empty.              *)
LEMMA PacketInHand ==
  ASSUME IInv, pc["consumer"] \in {"consumeNotify", "acquireRead"}
  PROVE  m_size = 0 /\ m_size # 1 /\ UnderWay /\ Description = packet /\ packet \in Packets
BY DEF IInv, OneFrame, UnderWay, Description, FrameExpected, RingTypes

(* The consumer takes the descriptor out of the ring.                       *)
LEMMA ConsumeKeeps ==
  ASSUME IInv, NEW p \in Packets, pc["consumer"] = "consume", packet' = p,
         ChannelStep("consumer", Channel!ConsumeReturns("consumer", p, TRUE), "consumeNotify"),
         UNCHANGED <<failure, payload, record, expected_tick, published, outcome, disturbed>>
  PROVE  IInv'
<1>1. /\ Goto("consumer", "consumeNotify") /\ pc["consumer"] = "consume"
      /\ p = m_buffer[m_head] /\ m_size # 0 /\ packet' = p
      /\ m_head' = Channel!Advance(m_head) /\ m_size' = m_size - 1
      /\ UNCHANGED <<m_buffer, m_tail, channel_closed, slotVars, failure, coordVars, sleepers, payload, record,
                     expected_tick, published, outcome, disturbed>>
  BY DEF ChannelStep, Channel!ConsumeReturns, Channel!Empty, Channel!PopHead
<1>2. /\ ControlOK' /\ pc'["consumer"] = "consumeNotify"
      /\ pc'["main"] = pc["main"] /\ pc'["producer"] = pc["producer"]
  BY <1>1, ConsumerGoes DEF ConsumerLabels, HandlerLabels
<1>3. m_size = 1 /\ m_size' = 0 /\ m_head' = m_tail /\ UnderWay /\ UnderWay' /\ Description' = Description
  BY <1>1, <1>2 DEF IInv, RingTypes, UnderWay, Description
<1> USE DEF IInv, slotVars, channelVars, coordVars, localVars
<1>4. TypeOK'
  BY <1>1, <1>2, <1>3, ExchangeAssumption DEF TypeOK, ControlOK
<1>5. PoolTypes'
  BY <1>1, <1>2, <1>3 DEF PoolTypes, Threads
<1>6. RingTypes'
  BY <1>1, <1>2, <1>3 DEF RingTypes, Channel!Advance
<1>7. OneFrame'
  BY <1>1, <1>2, <1>3 DEF OneFrame, Pending, Producing, UnderWay, Checking, Sending
<1>8. FrameExpected'
  BY <1>1, <1>2, <1>3 DEF FrameExpected, Description, Frames, Pending, Producing,
       UnderWay, Checking, Sending
<1>9. MainLoop'
  BY <1>1, <1>2, <1>3 DEF MainLoop, Frames, FramesLeft, Threads, ProduceLoop,
       ConsumeLoop, Pending, Producing, UnderWay, Checking, Sending
<1>10. CleanStop'
  BY <1>1, <1>2, <1>3 DEF CleanStop, Frames, Threads
<1>11. ClosedInOrder'
  BY <1>1, <1>2, <1>3 DEF ClosedInOrder, Threads, ConsumeLoop
<1>12. WriteLease'
  BY <1>1, <1>2, <1>3 DEF WriteLease, Writes, Slots!AtGeneration
<1>13. ReadLease'
  BY <1>1, <1>2, <1>3 DEF ReadLease, Slots!AtGeneration
<1>14. DescribedSlot'
  <2>1. Sending' = Sending
    BY <1>2 DEF Sending
  <2> QED
    BY <1>1, <1>2, <1>3, <2>1 DEF DescribedSlot, SlotOf
<1>15. SentSlot'
  <2>1. Sending' = Sending
    BY <1>2 DEF Sending
  <2> QED
    BY <1>1, <1>3, <2>1 DEF SentSlot
<1>16. SlotsInUse'
  BY <1>1, <1>3 DEF SlotsInUse, SlotOf
<1>17. ShutdownIsQuiescent'
  BY <1>1, <1>2, <1>3 DEF ShutdownIsQuiescent, PoolTypes
<1>18. PublishMeansConsumed'
  BY <1>1, <1>2, <1>3 DEF PublishMeansConsumed
<1> QED
  BY <1>4, <1>5, <1>6, <1>7, <1>8, <1>9, <1>10, <1>11, <1>12, <1>13, <1>14, <1>15,
       <1>16, <1>17, <1>18

(* The channel is closed and empty.                                         *)
LEMMA NothingKeeps ==
  ASSUME IInv, pc["consumer"] = "consume", UNCHANGED localVars,
         ChannelStep("consumer", Channel!ConsumeNothing("consumer", TRUE), "end"), UNCHANGED failure
  PROVE  IInv'
<1>1. /\ Goto("consumer", "end") /\ pc["consumer"] = "consume" /\ m_size = 0 /\ channel_closed
      /\ UNCHANGED <<m_buffer, m_head, m_tail, m_size, channel_closed, slotVars, failure, coordVars, sleepers, localVars>>
  BY DEF ChannelStep, Channel!ConsumeNothing, Channel!Empty, Channel!ringVars
<1>2. /\ ControlOK' /\ pc'["consumer"] = "end"
      /\ pc'["main"] = pc["main"] /\ pc'["producer"] = pc["producer"]
  BY <1>1, ConsumerGoes DEF ConsumerLabels, HandlerLabels
<1>3. pc["main"] \notin Frames /\ pc'["main"] \notin Frames /\ channel_closed = TRUE
  BY Flags, <1>1, <1>2 DEF IInv, MainLoop
<1> USE DEF IInv, slotVars, channelVars, coordVars, localVars
<1>4. TypeOK'
  BY <1>1, <1>2, <1>3, ExchangeAssumption DEF TypeOK, ControlOK
<1>5. PoolTypes'
  BY <1>1, <1>2, <1>3 DEF PoolTypes, Threads
<1>6. RingTypes'
  BY <1>1, <1>2, <1>3 DEF RingTypes, Channel!Advance
<1>7. OneFrame'
  BY <1>1, <1>2, <1>3 DEF OneFrame, Pending, Producing, UnderWay, Checking, Sending
<1>8. FrameExpected'
  BY <1>1, <1>2, <1>3 DEF FrameExpected, Description, Frames, Pending, Producing,
       UnderWay, Checking, Sending
<1>9. MainLoop'
  BY <1>1, <1>2, <1>3 DEF MainLoop, Frames, FramesLeft, Threads, ProduceLoop,
       ConsumeLoop, Pending, Producing, UnderWay, Checking, Sending
<1>10. CleanStop'
  BY <1>1, <1>2, <1>3 DEF CleanStop, Frames, Threads
<1>11. ClosedInOrder'
  BY <1>1, <1>2, <1>3 DEF ClosedInOrder, Threads, ConsumeLoop
<1>12. WriteLease'
  BY <1>1, <1>2, <1>3 DEF WriteLease, Writes, Slots!AtGeneration
<1>13. ReadLease'
  BY <1>1, <1>2, <1>3 DEF ReadLease, Slots!AtGeneration
<1>14. DescribedSlot'
  BY <1>1, <1>2, <1>3 DEF DescribedSlot, UnderWay, Description, Sending, SlotOf
<1>15. SentSlot'
  BY <1>1, <1>2, <1>3 DEF SentSlot, UnderWay, Description, Sending
<1>16. SlotsInUse'
  BY <1>1, <1>2, <1>3 DEF SlotsInUse, UnderWay, Description, SlotOf
<1>17. ShutdownIsQuiescent'
  BY <1>1, <1>2, <1>3 DEF ShutdownIsQuiescent, PoolTypes
<1>18. PublishMeansConsumed'
  BY <1>1, <1>2, <1>3 DEF PublishMeansConsumed
<1> QED
  BY <1>4, <1>5, <1>6, <1>7, <1>8, <1>9, <1>10, <1>11, <1>12, <1>13, <1>14, <1>15,
       <1>16, <1>17, <1>18

(* The ring is empty and open: the consumer sleeps.                        *)
LEMMA ConsumeSleepKeeps ==
  ASSUME IInv, pc["consumer"] = "consume", UNCHANGED <<failure, localVars>>,
         ChannelStep("consumer", Channel!ConsumeSleeps("consumer"), "consume")
  PROVE  IInv'
<1>1. pc' = pc /\ sleepers' \subseteq Threads
  BY DEF ChannelStep, Goto, IInv, TypeOK
<1> QED
  BY <1>1, IdleKeeps
     DEF ChannelStep, Channel!ConsumeSleeps, Channel!ringVars, slotVars, coordVars, localVars, relevantVars

(* The producer has been notified.                                          *)
LEMMA ConsumeNotifyKeeps ==
  ASSUME IInv, ConsumerNotifies
  PROVE  IInv'
<1>1. /\ pc["consumer"] = "consumeNotify" /\ Goto("consumer", "acquireRead")
      /\ UNCHANGED <<m_buffer, m_head, m_tail, m_size, channel_closed, slotVars, failure, coordVars, sleepers, localVars>>
  BY DEF ConsumerNotifies, ChannelStep, Channel!Notifies, Channel!ringVars
<1>2. /\ ControlOK' /\ pc'["consumer"] = "acquireRead"
      /\ pc'["main"] = pc["main"] /\ pc'["producer"] = pc["producer"]
  BY <1>1, ConsumerGoes DEF ConsumerLabels, HandlerLabels
<1> USE DEF IInv, slotVars, channelVars, coordVars, localVars
<1>3. TypeOK'
  BY <1>1, <1>2, ExchangeAssumption DEF TypeOK, ControlOK
<1>4. PoolTypes'
  BY <1>1, <1>2 DEF PoolTypes, Threads
<1>5. RingTypes'
  BY <1>1, <1>2 DEF RingTypes, Channel!Advance
<1>6. OneFrame'
  BY <1>1, <1>2 DEF OneFrame, Pending, Producing, UnderWay, Checking, Sending
<1>7. FrameExpected'
  BY <1>1, <1>2 DEF FrameExpected, Description, Frames, Pending, Producing, UnderWay,
       Checking, Sending
<1>8. MainLoop'
  BY <1>1, <1>2 DEF MainLoop, Frames, FramesLeft, Threads, ProduceLoop, ConsumeLoop,
       Pending, Producing, UnderWay, Checking, Sending
<1>9. CleanStop'
  BY <1>1, <1>2 DEF CleanStop, Frames, Threads
<1>10. ClosedInOrder'
  BY <1>1, <1>2 DEF ClosedInOrder, Threads, ConsumeLoop
<1>11. WriteLease'
  BY <1>1, <1>2 DEF WriteLease, Writes, Slots!AtGeneration
<1>12. ReadLease'
  BY <1>1, <1>2 DEF ReadLease, Slots!AtGeneration
<1>13. DescribedSlot'
  BY <1>1, <1>2 DEF DescribedSlot, UnderWay, Description, Sending, SlotOf
<1>14. SentSlot'
  BY <1>1, <1>2 DEF SentSlot, UnderWay, Description, Sending
<1>15. SlotsInUse'
  BY <1>1, <1>2 DEF SlotsInUse, UnderWay, Description, SlotOf
<1>16. ShutdownIsQuiescent'
  BY <1>1, <1>2 DEF ShutdownIsQuiescent, PoolTypes
<1>17. PublishMeansConsumed'
  BY <1>1, <1>2 DEF PublishMeansConsumed
<1> QED
  BY <1>3, <1>4, <1>5, <1>6, <1>7, <1>8, <1>9, <1>10, <1>11, <1>12, <1>13, <1>14, <1>15,
       <1>16, <1>17

(* The slot is published: the consumer gets the lease its descriptor names. *)
LEMMA AcquireReadKeeps ==
  ASSUME IInv, pc["consumer"] = "acquireRead", UNCHANGED <<failure, localVars>>,
         SlotStep("consumer", Slots!AcquireReadLease("consumer", packet.slot, TRUE), "check")
  PROVE  IInv'
<1>1. /\ Goto("consumer", "check") /\ state[packet.slot.slot_id] = "Published"
      /\ slots_consumer' = "consumer" /\ state' = [state EXCEPT ![packet.slot.slot_id] = "Reading"]
      /\ read_leases' = [read_leases EXCEPT !["consumer"] = @ \cup {packet.slot}]
      /\ slots_call' = [slots_call EXCEPT !["consumer"] = "idle"]
      /\ m_active_operations' = 0
      /\ UNCHANGED <<generation, payload_size, slots_closed, slots_producer, write_leases, lifetime,
                     channelVars, failure, coordVars, sleepers, localVars>>
  BY ConsumerReturns
     DEF SlotStep, Slots!AcquireReadLease, Slots!RegisterConsumer, Slots!StartReading
<1>2. /\ ControlOK' /\ pc'["consumer"] = "check"
      /\ pc'["main"] = pc["main"] /\ pc'["producer"] = pc["producer"]
  BY <1>1, ConsumerGoes DEF ConsumerLabels, HandlerLabels
<1>3. pc["consumer"] = "acquireRead" /\ m_size = 0 /\ UnderWay /\ Description = packet /\ packet \in Packets
  BY PacketInHand
<1>4. ~UnderWay' /\ packet.slot \in Tokens /\ packet.slot.slot_id \in SlotIds
  BY <1>1, <1>2, <1>3 DEF UnderWay, Packets, Tokens, SlotIds, channelVars
<1>5. read_leases["consumer"] = {} /\ read_leases' = [read_leases EXCEPT !["consumer"] = {packet.slot}]
  BY <1>1, <1>3 DEF IInv, ReadLease
<1>6. /\ packet.slot.generation # 0 /\ generation[packet.slot.slot_id] = packet.slot.generation
      /\ payload[packet.slot.slot_id] = packet.tick /\ payload_size[packet.slot.slot_id] = RecordSize
      /\ packet.tick = expected_tick
  BY <1>1, <1>3 DEF IInv, DescribedSlot, SlotOf, FrameExpected
<1>7. /\ state' \in [SlotIds -> {"Free", "Writing", "Published", "Reading"}]
      /\ state'[packet.slot.slot_id] = "Reading"
      /\ \A s \in SlotIds : s # packet.slot.slot_id => state'[s] = state[s]
  BY <1>1, <1>4 DEF IInv, PoolTypes
<1>8. Sending => slots_closed
  <2>1. Sending /\ ~slots_closed => state[packet.slot.slot_id] = "Writing"
    BY <1>3 DEF IInv, SentSlot, Sending, WriteLease, Writes, Slots!AtGeneration
  <2> QED
    BY <1>1, <2>1
<1> USE DEF IInv, slotVars, channelVars, coordVars, localVars
<1>9. TypeOK'
  BY <1>1, <1>2, <1>3, <1>4, <1>5, <1>6, <1>7, <1>8, ExchangeAssumption
     DEF TypeOK, ControlOK
<1>10. PoolTypes'
  BY <1>1, <1>2, <1>3, <1>4, <1>5, <1>6, <1>7, <1>8
     DEF PoolTypes, Threads
<1>11. RingTypes'
  BY <1>1, <1>2, <1>3, <1>4, <1>5, <1>6, <1>7, <1>8
     DEF RingTypes, Channel!Advance
<1>12. OneFrame'
  BY <1>1, <1>2, <1>3, <1>4, <1>5, <1>6, <1>7, <1>8
     DEF OneFrame, Pending, Producing, UnderWay, Checking, Sending
<1>13. FrameExpected'
  BY <1>1, <1>2, <1>3, <1>4, <1>5, <1>6, <1>7, <1>8
     DEF FrameExpected, Description, Frames, Pending, Producing, UnderWay, Checking,
       Sending
<1>14. MainLoop'
  BY <1>1, <1>2, <1>3, <1>4, <1>5, <1>6, <1>7, <1>8
     DEF MainLoop, Frames, FramesLeft, Threads, ProduceLoop, ConsumeLoop, Pending,
       Producing, UnderWay, Checking, Sending
<1>15. CleanStop'
  BY <1>1, <1>2, <1>3, <1>4, <1>5, <1>6, <1>7, <1>8
     DEF CleanStop, Frames, Threads
<1>16. ClosedInOrder'
  BY <1>1, <1>2, <1>3, <1>4, <1>5, <1>6, <1>7, <1>8
     DEF ClosedInOrder, Threads, ConsumeLoop
<1>17. WriteLease'
  <2>1. \A tok \in Tokens : state[tok.slot_id] = "Writing" => state'[tok.slot_id] = "Writing"
    BY <1>1, <1>7 DEF Tokens, SlotIds
  <2> QED
    BY <1>1, <1>2, <2>1 DEF WriteLease, Writes, Slots!AtGeneration
<1>18. ReadLease'
  <2>1. /\ read_leases'["consumer"] = {packet.slot} /\ read_leases'["main"] = read_leases["main"]
        /\ read_leases'["producer"] = read_leases["producer"]
    BY <1>5 DEF PoolTypes, Threads
  <2> QED
    BY <1>1, <1>2, <1>6, <1>7, <2>1 DEF ReadLease, Slots!AtGeneration
<1>19. DescribedSlot'
  BY <1>4 DEF DescribedSlot
<1>20. SentSlot'
  BY <1>1, <1>2, <1>8 DEF SentSlot, Sending
<1>21. SlotsInUse'
  <2>1. \E tok \in read_leases'["consumer"] : tok.slot_id = packet.slot.slot_id
    BY <1>5 DEF PoolTypes, Threads
  <2> QED
    BY <1>1, <1>3, <1>5, <1>7, <2>1 DEF SlotsInUse, SlotOf
<1>22. ShutdownIsQuiescent'
  BY <1>1, <1>2, <1>3, <1>4, <1>5, <1>6, <1>7, <1>8
     DEF ShutdownIsQuiescent, PoolTypes
<1>23. PublishMeansConsumed'
  BY <1>1, <1>2, <1>3, <1>4, <1>5, <1>6, <1>7, <1>8
     DEF PublishMeansConsumed
<1> QED
  BY <1>9, <1>10, <1>11, <1>12, <1>13, <1>14, <1>15, <1>16, <1>17, <1>18, <1>19, <1>20,
       <1>21, <1>22, <1>23

(* The slot is still being written: the consumer sleeps in its call.        *)
LEMMA AcquireReadSleepKeeps ==
  ASSUME IInv, pc["consumer"] = "acquireRead", UNCHANGED <<failure, localVars>>,
         SlotStep("consumer", Slots!AcquireReadSleeps("consumer", packet.slot), "acquireRead")
  PROVE  IInv'
<1>1. /\ pc["consumer"] = "acquireRead" /\ Goto("consumer", "acquireRead") /\ slots_consumer' = "consumer"
      /\ slots_call' = [slots_call EXCEPT !["consumer"] = "AcquireRead"] /\ m_active_operations' = 1
      /\ UNCHANGED <<state, generation, payload_size, slots_closed, slots_producer, write_leases, read_leases,
                     lifetime, channelVars, failure, coordVars, sleepers, localVars>>
  <2>1. slots_call["consumer"] \in {"idle", "AcquireRead"}
    BY DEF SlotStep, Slots!AcquireReadSleeps, Slots!AcquireReadTests, Slots!Entering, Slots!Woken
  <2>2. m_active_operations = IF slots_call["consumer"] = "AcquireRead" THEN 1 ELSE 0
    BY DEF IInv, PoolTypes
  <2>3. Slots!Operations("consumer") = 1
    BY <2>1, <2>2 DEF Slots!Operations
  <2> QED
    BY <2>3 DEF SlotStep, Slots!AcquireReadSleeps, Slots!RegisterConsumer, Slots!SleepInOperation,
                Slots!slotVars, Slots!leaseVars
<1>2. /\ ControlOK' /\ pc'["consumer"] = "acquireRead"
      /\ pc'["main"] = pc["main"] /\ pc'["producer"] = pc["producer"]
  BY <1>1, ConsumerGoes DEF ConsumerLabels, HandlerLabels
<1> USE DEF IInv, slotVars, channelVars, coordVars, localVars
<1>3. TypeOK'
  BY <1>1, <1>2, ExchangeAssumption DEF TypeOK, ControlOK
<1>4. PoolTypes'
  BY <1>1, <1>2 DEF PoolTypes, Threads
<1>5. RingTypes'
  BY <1>1, <1>2 DEF RingTypes, Channel!Advance
<1>6. OneFrame'
  BY <1>1, <1>2 DEF OneFrame, Pending, Producing, UnderWay, Checking, Sending
<1>7. FrameExpected'
  BY <1>1, <1>2 DEF FrameExpected, Description, Frames, Pending, Producing, UnderWay,
       Checking, Sending
<1>8. MainLoop'
  BY <1>1, <1>2 DEF MainLoop, Frames, FramesLeft, Threads, ProduceLoop, ConsumeLoop,
       Pending, Producing, UnderWay, Checking, Sending
<1>9. CleanStop'
  BY <1>1, <1>2 DEF CleanStop, Frames, Threads
<1>10. ClosedInOrder'
  BY <1>1, <1>2 DEF ClosedInOrder, Threads, ConsumeLoop
<1>11. WriteLease'
  BY <1>1, <1>2 DEF WriteLease, Writes, Slots!AtGeneration
<1>12. ReadLease'
  BY <1>1, <1>2 DEF ReadLease, Slots!AtGeneration
<1>13. DescribedSlot'
  BY <1>1, <1>2 DEF DescribedSlot, UnderWay, Description, Sending, SlotOf
<1>14. SentSlot'
  BY <1>1, <1>2 DEF SentSlot, UnderWay, Description, Sending
<1>15. SlotsInUse'
  BY <1>1, <1>2 DEF SlotsInUse, UnderWay, Description, SlotOf
<1>16. ShutdownIsQuiescent'
  BY <1>1, <1>2 DEF ShutdownIsQuiescent, PoolTypes
<1>17. PublishMeansConsumed'
  BY <1>1, <1>2 DEF PublishMeansConsumed
<1> QED
  BY <1>3, <1>4, <1>5, <1>6, <1>7, <1>8, <1>9, <1>10, <1>11, <1>12, <1>13, <1>14, <1>15,
       <1>16, <1>17

(* No lease for the consumer: the slots have been closed.                   *)
LEMMA NoLeaseKeeps ==
  ASSUME IInv, pc["consumer"] = "acquireRead", UNCHANGED localVars,
         Slots!AcquireReadNothing("consumer", packet.slot, TRUE), Throws("consumer", "no lease"),
         UNCHANGED <<channelVars, coordVars, sleepers>>
  PROVE  IInv'
<1>1. /\ Goto("consumer", "unwind") /\ failure' = [failure EXCEPT !["consumer"] = "no lease"]
      /\ slots_consumer' = "consumer" /\ state[packet.slot.slot_id] # "Published"
      /\ slots_call' = [slots_call EXCEPT !["consumer"] = "idle"] /\ m_active_operations' = 0
      /\ UNCHANGED <<state, generation, payload_size, slots_closed, slots_producer, write_leases, read_leases,
                     lifetime, channelVars, coordVars, sleepers, localVars>>
  BY ConsumerReturns
     DEF Throws, Slots!AcquireReadNothing, Slots!RegisterConsumer, Slots!slotVars, Slots!leaseVars
<1>2. /\ ControlOK' /\ pc'["consumer"] = "unwind"
      /\ pc'["main"] = pc["main"] /\ pc'["producer"] = pc["producer"]
  BY <1>1, ConsumerGoes DEF ConsumerLabels, HandlerLabels
<1>3. pc["consumer"] = "acquireRead" /\ m_size = 0 /\ UnderWay /\ Description = packet /\ packet \in Packets
  BY PacketInHand
<1>4. ~UnderWay'
  <2>1. m_size' # 1
    BY <1>1, PacketInHand DEF channelVars
  <2>2. pc'["consumer"] \notin {"consumeNotify", "acquireRead"}
    BY <1>2
  <2> QED
    BY <2>1, <2>2 DEF UnderWay
<1>5. slots_closed = TRUE
  <2>1. \/ state[packet.slot.slot_id] = "Writing" /\ slots_closed
        \/ state[packet.slot.slot_id] \in {"Free", "Reading"}
    BY DEF Slots!AcquireReadNothing
  <2>2. \/ state[packet.slot.slot_id] \in {"Writing", "Published"}
        \/ state[packet.slot.slot_id] = "Free" /\ slots_closed
    BY <1>3 DEF IInv, DescribedSlot, SlotOf, Sending, WriteLease, Writes, Slots!AtGeneration
  <2> QED
    BY <2>1, <2>2, Flags
<1>6. pc["main"] \notin Frames /\ pc'["main"] \notin Frames
  BY <1>2, <1>5 DEF IInv, MainLoop
<1>7. disturbed = TRUE /\ channel_closed = TRUE
  BY Flags, <1>3, <1>5, <1>6 DEF IInv, CleanStop, ClosedInOrder
<1> USE DEF IInv, slotVars, channelVars, coordVars, localVars
<1>8. TypeOK'
  BY <1>1, <1>2, <1>3, <1>4, <1>5, <1>6, <1>7, ExchangeAssumption
     DEF TypeOK, ControlOK, Failures, Threads
<1>9. PoolTypes'
  BY <1>1, <1>2, <1>3, <1>4, <1>5, <1>6, <1>7 DEF PoolTypes, Threads
<1>10. RingTypes'
  BY <1>1, <1>2, <1>3, <1>4, <1>5, <1>6, <1>7 DEF RingTypes, Channel!Advance
<1>11. OneFrame'
  BY <1>1, <1>2, <1>3, <1>4, <1>5, <1>6, <1>7 DEF OneFrame, Pending, Producing,
       UnderWay, Checking, Sending
<1>12. FrameExpected'
  BY <1>1, <1>2, <1>3, <1>4, <1>5, <1>6, <1>7 DEF FrameExpected, Description, Frames,
       Pending, Producing, UnderWay, Checking, Sending
<1>13. MainLoop'
  BY <1>1, <1>2, <1>3, <1>4, <1>5, <1>6, <1>7 DEF MainLoop, Frames, FramesLeft, Threads,
       ProduceLoop, ConsumeLoop, Pending, Producing, UnderWay, Checking, Sending
<1>14. CleanStop'
  BY <1>1, <1>7 DEF CleanStop
<1>15. ClosedInOrder'
  BY <1>1, <1>2, <1>3, <1>4, <1>5, <1>6, <1>7 DEF ClosedInOrder, Threads, ConsumeLoop
<1>16. WriteLease'
  BY <1>1, <1>2, <1>3, <1>4, <1>5, <1>6, <1>7 DEF WriteLease, Writes, Slots!AtGeneration
<1>17. ReadLease'
  BY <1>1, <1>2, <1>3, <1>4, <1>5, <1>6, <1>7 DEF ReadLease, Slots!AtGeneration
<1>18. DescribedSlot'
  BY <1>4 DEF DescribedSlot
<1>19. SentSlot'
  BY <1>1, <1>5 DEF SentSlot
<1>20. SlotsInUse'
  BY <1>1, <1>3 DEF SlotsInUse, SlotOf
<1>21. ShutdownIsQuiescent'
  BY <1>1, <1>2, <1>3, <1>4, <1>5, <1>6, <1>7 DEF ShutdownIsQuiescent, PoolTypes
<1>22. PublishMeansConsumed'
  BY <1>1, <1>2, <1>3, <1>4, <1>5, <1>6, <1>7 DEF PublishMeansConsumed
<1> QED
  BY <1>8, <1>9, <1>10, <1>11, <1>12, <1>13, <1>14, <1>15, <1>16, <1>17, <1>18, <1>19,
       <1>20, <1>21, <1>22

(* The checks of the frame pass.                                            *)
LEMMA CheckKeeps ==
  ASSUME IInv, ConsumerChecks
  PROVE  IInv'
<1>1. /\ pc["consumer"] = "check" /\ Goto("consumer", "release")
      /\ UNCHANGED <<slotVars, channelVars, failure, coordVars, sleepers, localVars>>
  <2>1. pc["consumer"] = "check" /\ UNCHANGED <<slotVars, channelVars, coordVars, sleepers, localVars>>
    BY DEF ConsumerChecks
  <2>2. /\ payload_size[packet.slot.slot_id] = RecordSize
        /\ payload[packet.slot.slot_id] = packet.tick /\ packet.tick = expected_tick
    BY <2>1 DEF IInv, ReadLease, FrameExpected, Checking
  <2> QED
    BY <2>1, <2>2 DEF ConsumerChecks
<1>2. /\ ControlOK' /\ pc'["consumer"] = "release"
      /\ pc'["main"] = pc["main"] /\ pc'["producer"] = pc["producer"]
  BY <1>1, ConsumerGoes DEF ConsumerLabels, HandlerLabels
<1> USE DEF IInv, slotVars, channelVars, coordVars, localVars
<1>3. TypeOK'
  BY <1>1, <1>2, ExchangeAssumption DEF TypeOK, ControlOK
<1>4. PoolTypes'
  BY <1>1, <1>2 DEF PoolTypes, Threads
<1>5. RingTypes'
  BY <1>1, <1>2 DEF RingTypes, Channel!Advance
<1>6. OneFrame'
  BY <1>1, <1>2 DEF OneFrame, Pending, Producing, UnderWay, Checking, Sending
<1>7. FrameExpected'
  BY <1>1, <1>2 DEF FrameExpected, Description, Frames, Pending, Producing, UnderWay,
       Checking, Sending
<1>8. MainLoop'
  BY <1>1, <1>2 DEF MainLoop, Frames, FramesLeft, Threads, ProduceLoop, ConsumeLoop,
       Pending, Producing, UnderWay, Checking, Sending
<1>9. CleanStop'
  BY <1>1, <1>2 DEF CleanStop, Frames, Threads
<1>10. ClosedInOrder'
  BY <1>1, <1>2 DEF ClosedInOrder, Threads, ConsumeLoop
<1>11. WriteLease'
  BY <1>1, <1>2 DEF WriteLease, Writes, Slots!AtGeneration
<1>12. ReadLease'
  BY <1>1, <1>2 DEF ReadLease, Slots!AtGeneration
<1>13. DescribedSlot'
  BY <1>1, <1>2 DEF DescribedSlot, UnderWay, Description, Sending, SlotOf
<1>14. SentSlot'
  BY <1>1, <1>2 DEF SentSlot, UnderWay, Description, Sending
<1>15. SlotsInUse'
  BY <1>1, <1>2 DEF SlotsInUse, UnderWay, Description, SlotOf
<1>16. ShutdownIsQuiescent'
  BY <1>1, <1>2 DEF ShutdownIsQuiescent, PoolTypes
<1>17. PublishMeansConsumed'
  BY <1>1, <1>2 DEF PublishMeansConsumed
<1> QED
  BY <1>3, <1>4, <1>5, <1>6, <1>7, <1>8, <1>9, <1>10, <1>11, <1>12, <1>13, <1>14, <1>15,
       <1>16, <1>17

(* The consumer releases its slot.                                          *)
LEMMA ReleaseKeeps ==
  ASSUME IInv, ConsumerReleases
  PROVE  IInv'
<1>1. /\ pc["consumer"] = "release" /\ Goto("consumer", "complete")
      /\ UNCHANGED <<channelVars, failure, coordVars, sleepers, localVars>>
  BY DEF ConsumerReleases, SlotStep
<1>2. /\ ControlOK' /\ pc'["consumer"] = "complete"
      /\ pc'["main"] = pc["main"] /\ pc'["producer"] = pc["producer"]
  BY <1>1, ConsumerGoes DEF ConsumerLabels, HandlerLabels
<1>3. /\ packet \in Packets /\ packet.slot.slot_id \in SlotIds /\ ~UnderWay /\ ~UnderWay'
      /\ read_leases["consumer"] = {packet.slot} /\ state[packet.slot.slot_id] = "Reading"
  BY <1>1, <1>2 DEF IInv, FrameExpected, Checking, Packets, Tokens, SlotIds, OneFrame, UnderWay, ReadLease, Slots!AtGeneration, channelVars
<1>4. /\ state' = [state EXCEPT ![packet.slot.slot_id] = "Free"]
      /\ payload_size' = [payload_size EXCEPT ![packet.slot.slot_id] = 0]
      /\ read_leases' = [read_leases EXCEPT !["consumer"] = @ \ {packet.slot}]
      /\ UNCHANGED <<generation, slots_closed, slots_producer, slots_consumer, write_leases, slots_call,
                     m_active_operations, lifetime>>
  <2>1. Slots!Readable("consumer", packet.slot)
    BY <1>1 DEF IInv, ReadLease, Slots!AtGeneration, Slots!Readable, Slots!SlotForToken
  <2> QED
    BY <2>1 DEF ConsumerReleases, SlotStep, Slots!ReleaseRead, Slots!FreeSlot, Slots!ownerVars, Slots!callVars
<1>5. /\ state' \in [SlotIds -> {"Free", "Writing", "Published", "Reading"}]
      /\ payload_size' \in [SlotIds -> 0 .. RecordSize]
      /\ \A s \in SlotIds : s # packet.slot.slot_id => state'[s] = state[s] /\ payload_size'[s] = payload_size[s]
      /\ state'[packet.slot.slot_id] = "Free"
  BY <1>3, <1>4 DEF IInv, PoolTypes, RecordSize
<1>6. /\ read_leases' \in [Threads -> SUBSET Tokens] /\ read_leases'["consumer"] = {}
      /\ read_leases'["main"] = read_leases["main"] /\ read_leases'["producer"] = read_leases["producer"]
  BY <1>3, <1>4 DEF IInv, PoolTypes, Threads
<1> USE DEF IInv, slotVars, channelVars, coordVars, localVars
<1>7. TypeOK'
  BY <1>1, <1>2, <1>3, <1>4, <1>5, <1>6, ExchangeAssumption
     DEF TypeOK, ControlOK
<1>8. PoolTypes'
  BY <1>1, <1>2, <1>3, <1>4, <1>5, <1>6 DEF PoolTypes, Threads
<1>9. RingTypes'
  BY <1>1, <1>2, <1>3, <1>4, <1>5, <1>6 DEF RingTypes, Channel!Advance
<1>10. OneFrame'
  BY <1>1, <1>2, <1>3, <1>4, <1>5, <1>6 DEF OneFrame, Pending, Producing, UnderWay,
       Checking, Sending
<1>11. FrameExpected'
  BY <1>1, <1>2, <1>3, <1>4, <1>5, <1>6 DEF FrameExpected, Description, Frames, Pending,
       Producing, UnderWay, Checking, Sending
<1>12. MainLoop'
  BY <1>1, <1>2, <1>3, <1>4, <1>5, <1>6 DEF MainLoop, Frames, FramesLeft, Threads,
       ProduceLoop, ConsumeLoop, Pending, Producing, UnderWay, Checking, Sending,
       localVars, coordVars, channelVars
<1>13. CleanStop'
  BY <1>1, <1>2, <1>3, <1>4, <1>5, <1>6 DEF CleanStop, Frames, Threads
<1>14. ClosedInOrder'
  BY <1>1, <1>2, <1>3, <1>4, <1>5, <1>6 DEF ClosedInOrder, Threads, ConsumeLoop
<1>15. WriteLease'
  <2>1. \A tok \in Tokens : state[tok.slot_id] = "Writing" =>
          state'[tok.slot_id] = "Writing" /\ payload_size'[tok.slot_id] = payload_size[tok.slot_id]
    BY <1>3, <1>5 DEF Tokens, SlotIds
  <2>2. pc["producer"] # "send"
    BY <1>1 DEF OneFrame, Producing, Checking
  <2> QED
    BY <1>1, <1>2, <1>4, <2>1, <2>2 DEF WriteLease, Writes, Slots!AtGeneration
<1>16. ReadLease'
  BY <1>1, <1>2, <1>3, <1>4, <1>5, <1>6 DEF ReadLease, Slots!AtGeneration
<1>17. DescribedSlot'
  BY <1>3 DEF DescribedSlot
<1>18. SentSlot'
  BY <1>1, <1>2, <1>3, <1>4 DEF SentSlot, Sending
<1>19. SlotsInUse'
  BY <1>1, <1>3, <1>4, <1>5, <1>6 DEF SlotsInUse
<1>20. ShutdownIsQuiescent'
  BY <1>1, <1>2, <1>3, <1>4, <1>5, <1>6 DEF ShutdownIsQuiescent, PoolTypes
<1>21. PublishMeansConsumed'
  BY <1>1, <1>2, <1>3, <1>4, <1>5, <1>6 DEF PublishMeansConsumed
<1> QED
  BY <1>7, <1>8, <1>9, <1>10, <1>11, <1>12, <1>13, <1>14, <1>15, <1>16, <1>17, <1>18,
       <1>19, <1>20, <1>21

(* The frame is complete, and the consumer expects the next one.            *)
LEMMA CompleteKeeps ==
  ASSUME IInv, ConsumerCompletes
  PROVE  IInv'
<1>1. /\ pc["consumer"] = "complete" /\ Goto("consumer", "completeNotify")
      /\ in_flight' = FALSE /\ expected_tick' = expected_tick + 1
      /\ UNCHANGED <<slotVars, channelVars, failure, pending, error, stop_requested, sleepers, payload, record,
                     packet, published, outcome, disturbed>>
  BY DEF ConsumerCompletes
<1>2. /\ ControlOK' /\ pc'["consumer"] = "completeNotify"
      /\ pc'["main"] = pc["main"] /\ pc'["producer"] = pc["producer"]
  BY <1>1, ConsumerGoes DEF ConsumerLabels, HandlerLabels
<1>3. pending = NoTick /\ ~Producing /\ ~UnderWay /\ ~UnderWay' /\ ~Checking' /\ (Sending => slots_closed)
  BY <1>1, <1>2 DEF IInv, OneFrame, Pending, Producing, Checking, UnderWay, SentSlot, channelVars
<1>4. /\ expected_tick + 1 \in 1 .. ExpectedFrames + 1 /\ published < expected_tick + 1
      /\ (published + 1) + 1 = published + 2
  <2>1. expected_tick \in 1 .. ExpectedFrames
    BY <1>1 DEF IInv, FrameExpected, Checking, Packets, Ticks
  <2>2. published < expected_tick
    BY DEF IInv, PublishMeansConsumed
  <2> QED
    BY <2>1, <2>2, Counters
<1>5. pc["main"] \in Frames => /\ pc["main"] # "ready" /\ expected_tick = published + 1
                               /\ ~slots_closed
  BY <1>1 DEF IInv, MainLoop, Checking
<1> USE DEF IInv, slotVars, channelVars, coordVars, localVars
<1>6. TypeOK'
  BY <1>1, <1>2, <1>3, <1>4, <1>5, ExchangeAssumption
     DEF TypeOK, ControlOK
<1>7. PoolTypes'
  BY <1>1, <1>2, <1>3, <1>4, <1>5 DEF PoolTypes, Threads
<1>8. RingTypes'
  BY <1>1, <1>2, <1>3, <1>4, <1>5 DEF RingTypes, Channel!Advance
<1>9. OneFrame'
  BY <1>1, <1>2, <1>3, <1>4, <1>5 DEF OneFrame, Pending, Producing, UnderWay, Checking,
       Sending
<1>10. FrameExpected'
  BY <1>1, <1>2, <1>3, <1>4, <1>5 DEF FrameExpected, Description, Frames, Pending,
       Producing, UnderWay, Checking, Sending
<1>11. MainLoop'
  <2>1. Pending' = FALSE /\ Producing' = FALSE /\ (Sending' => slots_closed)
    BY <1>1, <1>2, <1>3 DEF Pending, Producing, Sending
  <2>2. pc["main"] \in Frames => expected_tick' = published + 2
    BY <1>1, <1>4, <1>5
  <2> QED
    BY <1>1, <1>2, <1>3, <1>5, <2>1, <2>2 DEF MainLoop, ProduceLoop, ConsumeLoop, FramesLeft, Frames
<1>12. CleanStop'
  BY <1>1, <1>2, <1>3, <1>4, <1>5 DEF CleanStop, Frames, Threads
<1>13. ClosedInOrder'
  BY <1>1, <1>2, <1>3, <1>4, <1>5 DEF ClosedInOrder, Threads, ConsumeLoop
<1>14. WriteLease'
  BY <1>1, <1>2, <1>3, <1>4, <1>5 DEF WriteLease, Writes, Slots!AtGeneration
<1>15. ReadLease'
  BY <1>1, <1>2, <1>3, <1>4, <1>5 DEF ReadLease, Slots!AtGeneration
<1>16. DescribedSlot'
  BY <1>1, <1>2, <1>3, <1>4, <1>5 DEF DescribedSlot, UnderWay, Description, Sending,
       SlotOf
<1>17. SentSlot'
  BY <1>1, <1>2, <1>3, <1>4, <1>5 DEF SentSlot, UnderWay, Description, Sending
<1>18. SlotsInUse'
  BY <1>1, <1>2, <1>3, <1>4, <1>5 DEF SlotsInUse, UnderWay, Description, SlotOf
<1>19. ShutdownIsQuiescent'
  BY <1>1, <1>2, <1>3, <1>4, <1>5 DEF ShutdownIsQuiescent, PoolTypes
<1>20. PublishMeansConsumed'
  BY <1>1, <1>2, <1>3, <1>4, <1>5 DEF PublishMeansConsumed
<1> QED
  BY <1>6, <1>7, <1>8, <1>9, <1>10, <1>11, <1>12, <1>13, <1>14, <1>15, <1>16, <1>17,
       <1>18, <1>19, <1>20

(* Main has been notified.                                                  *)
LEMMA CompleteNotifyKeeps ==
  ASSUME IInv, NotifyAll("consumer", "completeNotify", "consume")
  PROVE  IInv'
<1>1. /\ pc["consumer"] = "completeNotify" /\ Goto("consumer", "consume") /\ sleepers' = {}
      /\ UNCHANGED <<slotVars, channelVars, failure, coordVars, localVars>>
  BY DEF NotifyAll, WakeAll
<1>2. /\ ControlOK' /\ pc'["consumer"] = "consume"
      /\ pc'["main"] = pc["main"] /\ pc'["producer"] = pc["producer"]
  BY <1>1, ConsumerGoes DEF ConsumerLabels, HandlerLabels
<1> USE DEF IInv, slotVars, channelVars, coordVars, localVars
<1>3. TypeOK'
  BY <1>1, <1>2, ExchangeAssumption DEF TypeOK, ControlOK
<1>4. PoolTypes'
  BY <1>1, <1>2 DEF PoolTypes, Threads
<1>5. RingTypes'
  BY <1>1, <1>2 DEF RingTypes, Channel!Advance
<1>6. OneFrame'
  BY <1>1, <1>2 DEF OneFrame, Pending, Producing, UnderWay, Checking, Sending
<1>7. FrameExpected'
  BY <1>1, <1>2 DEF FrameExpected, Description, Frames, Pending, Producing, UnderWay,
       Checking, Sending
<1>8. MainLoop'
  BY <1>1, <1>2 DEF MainLoop, Frames, FramesLeft, Threads, ProduceLoop, ConsumeLoop,
       Pending, Producing, UnderWay, Checking, Sending
<1>9. CleanStop'
  BY <1>1, <1>2 DEF CleanStop, Frames, Threads
<1>10. ClosedInOrder'
  BY <1>1, <1>2 DEF ClosedInOrder, Threads, ConsumeLoop
<1>11. WriteLease'
  BY <1>1, <1>2 DEF WriteLease, Writes, Slots!AtGeneration
<1>12. ReadLease'
  BY <1>1, <1>2 DEF ReadLease, Slots!AtGeneration
<1>13. DescribedSlot'
  BY <1>1, <1>2 DEF DescribedSlot, UnderWay, Description, Sending, SlotOf
<1>14. SentSlot'
  BY <1>1, <1>2 DEF SentSlot, UnderWay, Description, Sending
<1>15. SlotsInUse'
  BY <1>1, <1>2 DEF SlotsInUse, UnderWay, Description, SlotOf
<1>16. ShutdownIsQuiescent'
  BY <1>1, <1>2 DEF ShutdownIsQuiescent, PoolTypes
<1>17. PublishMeansConsumed'
  BY <1>1, <1>2 DEF PublishMeansConsumed
<1> QED
  BY <1>3, <1>4, <1>5, <1>6, <1>7, <1>8, <1>9, <1>10, <1>11, <1>12, <1>13, <1>14, <1>15,
       <1>16, <1>17

(* The consumer ends: frames are missing only after a timeout or a failure of main. *)
LEMMA EndKeeps ==
  ASSUME IInv, ConsumerEnds
  PROVE  IInv'
<1>1. /\ pc["consumer"] = "end" /\ UNCHANGED <<slotVars, channelVars, coordVars, sleepers, localVars>>
      /\ \/ expected_tick = 1 + ExpectedFrames /\ Goto("consumer", "done") /\ UNCHANGED failure
         \/ /\ expected_tick # 1 + ExpectedFrames /\ Goto("consumer", "unwind")
            /\ failure' = [failure EXCEPT !["consumer"] = "missing frames"]
  BY DEF ConsumerEnds, AllReceived, Throws
<1>2. /\ ControlOK' /\ pc'["consumer"] \in {"done", "unwind"}
      /\ pc'["main"] = pc["main"] /\ pc'["producer"] = pc["producer"]
      /\ pc'["consumer"] = "done" => UNCHANGED failure
      /\ pc'["consumer"] = "unwind" => expected_tick # 1 + ExpectedFrames
  <2>1. CASE Goto("consumer", "done") /\ UNCHANGED failure
    BY <2>1, ConsumerGoes DEF ConsumerLabels, HandlerLabels
  <2>2. CASE expected_tick # 1 + ExpectedFrames /\ Goto("consumer", "unwind")
    BY <2>2, ConsumerGoes DEF ConsumerLabels, HandlerLabels
  <2> QED
    BY <1>1, <2>1, <2>2
<1>3. pc["main"] \notin Frames /\ pc'["main"] \notin Frames
  BY <1>1, <1>2 DEF IInv, MainLoop, ConsumeLoop
<1>4. pc'["consumer"] = "unwind" => disturbed = TRUE
  <2>1. 1 + ExpectedFrames = ExpectedFrames + 1
    BY ExchangeAssumption
  <2> QED
    BY <1>2, <1>3, <2>1, Flags DEF IInv, CleanStop
<1>5. failure' \in [Threads -> Failures]
  BY <1>1 DEF IInv, TypeOK, Failures, Threads
<1> USE DEF IInv, slotVars, channelVars, coordVars, localVars
<1>6. TypeOK'
  BY <1>1, <1>2, <1>3, <1>4, <1>5, ExchangeAssumption
     DEF TypeOK, ControlOK
<1>7. PoolTypes'
  BY <1>1, <1>2, <1>3, <1>4, <1>5 DEF PoolTypes, Threads
<1>8. RingTypes'
  BY <1>1, <1>2, <1>3, <1>4, <1>5 DEF RingTypes, Channel!Advance
<1>9. OneFrame'
  BY <1>1, <1>2, <1>3, <1>4, <1>5 DEF OneFrame, Pending, Producing, UnderWay, Checking,
       Sending
<1>10. FrameExpected'
  BY <1>1, <1>2, <1>3, <1>4, <1>5 DEF FrameExpected, Description, Frames, Pending,
       Producing, UnderWay, Checking, Sending
<1>11. MainLoop'
  BY <1>1, <1>2, <1>3, <1>4, <1>5 DEF MainLoop, Frames, FramesLeft, Threads,
       ProduceLoop, ConsumeLoop, Pending, Producing, UnderWay, Checking, Sending
<1>12. CleanStop'
  BY <1>1, <1>2, <1>3, <1>4, <1>5 DEF CleanStop, Frames, Threads
<1>13. ClosedInOrder'
  BY <1>1, <1>2, <1>3, <1>4, <1>5 DEF ClosedInOrder, Threads, ConsumeLoop
<1>14. WriteLease'
  BY <1>1, <1>2, <1>3, <1>4, <1>5 DEF WriteLease, Writes, Slots!AtGeneration
<1>15. ReadLease'
  BY <1>1, <1>2, <1>3, <1>4, <1>5 DEF ReadLease, Slots!AtGeneration
<1>16. DescribedSlot'
  BY <1>1, <1>2, <1>3, <1>4, <1>5 DEF DescribedSlot, UnderWay, Description, Sending,
       SlotOf
<1>17. SentSlot'
  BY <1>1, <1>2, <1>3, <1>4, <1>5 DEF SentSlot, UnderWay, Description, Sending
<1>18. SlotsInUse'
  BY <1>1, <1>2, <1>3, <1>4, <1>5 DEF SlotsInUse, UnderWay, Description, SlotOf
<1>19. ShutdownIsQuiescent'
  BY <1>1, <1>2, <1>3, <1>4, <1>5 DEF ShutdownIsQuiescent, PoolTypes
<1>20. PublishMeansConsumed'
  BY <1>1, <1>2, <1>3, <1>4, <1>5 DEF PublishMeansConsumed
<1> QED
  BY <1>6, <1>7, <1>8, <1>9, <1>10, <1>11, <1>12, <1>13, <1>14, <1>15, <1>16, <1>17,
       <1>18, <1>19, <1>20

(* The consumer holds no lease.                                             *)
LEMMA ConsumerUnwindKeeps ==
  ASSUME IInv, Unwind("consumer")
  PROVE  IInv'
<1>1. /\ pc["consumer"] = "unwind" /\ Goto("consumer", "recordError")
      /\ UNCHANGED <<slotVars, channelVars, failure, coordVars, sleepers, localVars>>
  BY DEF Unwind, DropLease, IInv, WriteLease, ReadLease
<1>2. /\ ControlOK' /\ pc'["consumer"] = "recordError"
      /\ pc'["main"] = pc["main"] /\ pc'["producer"] = pc["producer"]
  BY <1>1, ConsumerGoes DEF ConsumerLabels, HandlerLabels
<1> USE DEF IInv, slotVars, channelVars, coordVars, localVars
<1>3. TypeOK'
  BY <1>1, <1>2, ExchangeAssumption DEF TypeOK, ControlOK
<1>4. PoolTypes'
  BY <1>1, <1>2 DEF PoolTypes, Threads
<1>5. RingTypes'
  BY <1>1, <1>2 DEF RingTypes, Channel!Advance
<1>6. OneFrame'
  BY <1>1, <1>2 DEF OneFrame, Pending, Producing, UnderWay, Checking, Sending
<1>7. FrameExpected'
  BY <1>1, <1>2 DEF FrameExpected, Description, Frames, Pending, Producing, UnderWay,
       Checking, Sending
<1>8. MainLoop'
  BY <1>1, <1>2 DEF MainLoop, Frames, FramesLeft, Threads, ProduceLoop, ConsumeLoop,
       Pending, Producing, UnderWay, Checking, Sending
<1>9. CleanStop'
  BY <1>1, <1>2 DEF CleanStop, Frames, Threads
<1>10. ClosedInOrder'
  BY <1>1, <1>2 DEF ClosedInOrder, Threads, ConsumeLoop
<1>11. WriteLease'
  BY <1>1, <1>2 DEF WriteLease, Writes, Slots!AtGeneration
<1>12. ReadLease'
  BY <1>1, <1>2 DEF ReadLease, Slots!AtGeneration
<1>13. DescribedSlot'
  BY <1>1, <1>2 DEF DescribedSlot, UnderWay, Description, Sending, SlotOf
<1>14. SentSlot'
  BY <1>1, <1>2 DEF SentSlot, UnderWay, Description, Sending
<1>15. SlotsInUse'
  BY <1>1, <1>2 DEF SlotsInUse, UnderWay, Description, SlotOf
<1>16. ShutdownIsQuiescent'
  BY <1>1, <1>2 DEF ShutdownIsQuiescent, PoolTypes
<1>17. PublishMeansConsumed'
  BY <1>1, <1>2 DEF PublishMeansConsumed
<1> QED
  BY <1>3, <1>4, <1>5, <1>6, <1>7, <1>8, <1>9, <1>10, <1>11, <1>12, <1>13, <1>14, <1>15,
       <1>16, <1>17

-----------------------------------------------------------------------------
(* The invariant.                                                          *)

(* The initial states satisfy the invariant.                               *)
LEMMA InitIInv == Init => IInv
<1> SUFFICES ASSUME Init PROVE IInv
  OBVIOUS
<1>1. /\ pc \in [Threads -> {"ready", "wait", "consume"}] /\ pc["main"] = "ready"
      /\ pc["producer"] = "wait" /\ pc["consumer"] = "consume"
      /\ failure = [t \in Threads |-> NoError] /\ pending = 0 /\ in_flight = FALSE
      /\ error = NoError /\ stop_requested = FALSE /\ sleepers = {}
      /\ payload = [s \in 0 .. SlotCount - 1 |-> NoTick] /\ record = 0 /\ packet = NoPacket
      /\ expected_tick = 1 /\ published = 0 /\ outcome = "running" /\ disturbed = FALSE
  BY DEF Init, Threads, NoTick
<1>2. /\ state = [s \in SlotIds |-> "Free"] /\ generation = [s \in SlotIds |-> 0]
      /\ payload_size = [s \in SlotIds |-> 0] /\ slots_closed = FALSE /\ m_active_operations = 0
      /\ write_leases = [t \in Threads |-> {}] /\ read_leases = [t \in Threads |-> {}]
      /\ slots_call = [t \in Threads |-> "idle"] /\ lifetime = "alive"
  BY DEF Init, Slots!Init, Slots!SlotIds, SlotIds
<1>3. /\ m_buffer = [i \in Indices |-> NoPacket] /\ m_head = 0 /\ m_tail = 0 /\ m_size = 0
      /\ channel_closed = FALSE
  BY DEF Init, Channel!Init, Channel!Indices, Indices
<1>4. TypeOK
  <2>1. expected_tick \in 1 .. ExpectedFrames + 1 /\ published \in 0 .. ExpectedFrames
    BY <1>1, ExchangeAssumption
  <2>2. payload \in [0 .. SlotCount - 1 -> Ticks \cup {NoTick}]
    BY <1>1
  <2>3. /\ pc \in [Threads -> MainLabels \cup ProducerLabels \cup ConsumerLabels]
        /\ pc["main"] \in MainLabels /\ pc["producer"] \in ProducerLabels
        /\ pc["consumer"] \in ConsumerLabels
    BY <1>1 DEF MainLabels, ProducerLabels, ConsumerLabels
  <2>4. failure \in [Threads -> Failures] /\ error \in Failures
    BY <1>1 DEF Failures
  <2> QED
    BY <1>1, <2>1, <2>2, <2>3, <2>4 DEF TypeOK, NoTick
<1>5. PoolTypes
  <2>1. 0 \in 0 .. MaxGeneration /\ 0 \in 0 .. RecordSize
    BY ExchangeAssumption DEF RecordSize, MaxGeneration
  <2> QED
    BY <1>2, <2>1 DEF PoolTypes, Threads
<1>6. RingTypes
  <2>1. 0 \in Indices
    BY ExchangeAssumption DEF Indices
  <2>2. m_size # 1 /\ m_size \in {0, 1}
    BY <1>3
  <2>3. m_buffer \in [Indices -> Packets \cup {NoPacket}]
    BY <1>3
  <2> QED
    BY <1>3, <2>1, <2>2, <2>3 DEF RingTypes
<1>7. ~Pending /\ ~Producing /\ ~UnderWay /\ ~Checking /\ ~Sending
  BY <1>1, <1>3 DEF Pending, Producing, UnderWay, Checking, Sending, NoTick
<1>8. OneFrame /\ FrameExpected /\ DescribedSlot /\ SentSlot
  BY <1>1, <1>3, <1>7 DEF OneFrame, FrameExpected, DescribedSlot, SentSlot
<1>9. MainLoop
  BY <1>1, <1>2, <1>3, <1>7 DEF MainLoop, ProduceLoop, ConsumeLoop
<1>10. CleanStop /\ ClosedInOrder
  BY <1>1, <1>2, <1>3 DEF CleanStop, ClosedInOrder, Frames, ConsumeLoop, Threads
<1>11. WriteLease /\ ReadLease /\ SlotsInUse
  BY <1>1, <1>2 DEF WriteLease, ReadLease, SlotsInUse, Threads
<1>12. ShutdownIsQuiescent /\ PublishMeansConsumed
  BY <1>1, <1>2 DEF ShutdownIsQuiescent, PublishMeansConsumed
<1> QED
  BY <1>4, <1>5, <1>6, <1>8, <1>9, <1>10, <1>11, <1>12 DEF IInv

(* Closing the channel and the slots keeps the invariant.                  *)
LEMMA CloseStepKeeps ==
  ASSUME IInv, NEW t \in Threads, CloseStep(t)
  PROVE  IInv'
BY CloseChannelKeeps, ChannelClosedKeeps, CloseSlotsKeeps, SlotsClosedKeeps DEF CloseStep

(* Every step of main by itself keeps it.                                  *)
LEMMA MainStepKeeps ==
  ASSUME IInv, MainStep
  PROVE  IInv'
BY PublishKeeps, SleepKeeps, ReturnKeeps, RequestStopKeeps, NotifyStopKeeps, JoinKeeps,
   PublishNotifyKeeps DEF MainStep

(* The producer's acquire, lease or not.                                   *)
LEMMA ProducerAcquiresKeeps ==
  ASSUME IInv, ProducerAcquires
  PROVE  IInv'
BY AcquireWriteKeeps, NoSlotKeeps DEF ProducerAcquires

(* Sending the descriptor, accepted or not.                                *)
LEMMA ProducerSendsKeeps ==
  ASSUME IInv, ProducerSends
  PROVE  IInv'
BY SendKeeps, SendRefusedKeeps DEF ProducerSends

(* Publishing the slot, accepted or not.                                   *)
LEMMA ProducerPublishesKeeps ==
  ASSUME IInv, ProducerPublishes
  PROVE  IInv'
BY PublishWriteKeeps, PublishThrowsKeeps DEF ProducerPublishes

(* Every step of the producer keeps it.                                    *)
LEMMA ProducerStepKeeps ==
  ASSUME IInv, ProducerStep
  PROVE  IInv'
BY TakeKeeps, SleepKeeps, ProducerStopKeeps, ProducerAcquiresKeeps, FillKeeps, ProducerSendsKeeps,
   SendNotifyKeeps, ProducerPublishesKeeps DEF ProducerStep

(* The consumer's wait for a descriptor.                                   *)
LEMMA ConsumerConsumesKeeps ==
  ASSUME IInv, ConsumerConsumes
  PROVE  IInv'
<1>1. /\ pc["consumer"] = "consume"
      /\ UNCHANGED <<failure, payload, record, expected_tick, published, outcome, disturbed>>
  BY DEF ConsumerConsumes
<1>2. CASE \E p \in Packets :
             /\ ChannelStep("consumer", Channel!ConsumeReturns("consumer", p, TRUE), "consumeNotify")
             /\ packet' = p
  BY <1>1, <1>2, ConsumeKeeps
<1>3. CASE /\ ChannelStep("consumer", Channel!ConsumeNothing("consumer", TRUE), "end")
           /\ UNCHANGED packet
  BY <1>1, <1>3, NothingKeeps DEF localVars
<1>4. CASE /\ ChannelStep("consumer", Channel!ConsumeSleeps("consumer"), "consume")
           /\ UNCHANGED packet
  BY <1>1, <1>4, ConsumeSleepKeeps DEF localVars
<1> QED
  BY <1>2, <1>3, <1>4 DEF ConsumerConsumes

(* The consumer's acquire: a lease, sleeping, or no lease.                 *)
LEMMA ConsumerAcquiresKeeps ==
  ASSUME IInv, ConsumerAcquires
  PROVE  IInv'
BY AcquireReadKeeps, AcquireReadSleepKeeps, NoLeaseKeeps DEF ConsumerAcquires

(* Every step of the consumer keeps it.                                    *)
LEMMA ConsumerStepKeeps ==
  ASSUME IInv, ConsumerStep
  PROVE  IInv'
BY ConsumerConsumesKeeps, ConsumeNotifyKeeps, ConsumerAcquiresKeeps, CheckKeeps, ReleaseKeeps,
   CompleteKeeps, EndKeeps, CompleteNotifyKeeps DEF ConsumerStep

(* Every step keeps the invariant.                                         *)
LEMMA NextKeeps ==
  ASSUME IInv, [Next]_vars
  PROVE  IInv'
<1>1. ASSUME NEW t \in Threads, ThreadStep(t)
      PROVE  IInv'
  <2>1. CASE Unwind(t)
    BY <2>1, MainUnwindKeeps, ProducerUnwindKeeps, ConsumerUnwindKeeps DEF Threads
  <2>2. CASE t # "main" /\ (RecordError(t) \/ NotifyAll(t, "notifyError", "closeChannel"))
    BY <2>2, RecordErrorKeeps, NotifyErrorKeeps
  <2> QED
    BY <1>1, <2>1, <2>2, MainStepKeeps, ProducerStepKeeps, ConsumerStepKeeps, CloseStepKeeps
       DEF ThreadStep
<1>2. CASE \E t \in Threads : SpuriousWakeUp(t)
  BY <1>2, SleepKeeps
<1>3. CASE Finished \/ UNCHANGED vars
  BY <1>3, SleepKeeps DEF Finished
<1> QED
  BY <1>1, <1>2, <1>3, TimeOutKeeps, MainFailureKeeps DEF Next

(* The invariant holds in every reachable state.                           *)
THEOREM Invariance == Spec => []IInv
<1>1. IInv /\ [Next]_vars => IInv'
  BY NextKeeps
<1> QED
  BY InitIInv, <1>1, PTL DEF Spec

(* The variables of the program keep their types.                          *)
THEOREM TypeCorrect == Spec => []TypeOK
<1>1. IInv => TypeOK
  BY DEF IInv
<1> QED
  BY Invariance, <1>1, PTL

(* However the exchange stops, with timeouts and failures at any point,    *)
(* Stop finds the channel closed and empty and every slot free, and        *)
(* StopNoexcept never terminates the process.                              *)
THEOREM QuiescentShutdown == Spec => []ShutdownIsQuiescent
<1>1. IInv => ShutdownIsQuiescent
  BY DEF IInv
<1> QED
  BY Invariance, <1>1, PTL

(* The descriptor that travels ahead of its slot is never stale, nobody    *)
(* fails before main has timed out or failed, and Publish returns only for *)
(* a frame that was consumed.                                              *)
THEOREM FramesArrive == Spec => []FramesDelivered
<1>1. IInv => DescriptorsFresh
  <2> SUFFICES ASSUME IInv
               PROVE  DescriptorsFresh
    OBVIOUS
  <2>1. ASSUME NEW i \in 1 .. m_size
        PROVE  generation[Channel!Contents[i].slot.slot_id] = Channel!Contents[i].slot.generation
    <3>1. m_size \in {0, 1} /\ m_head \in Indices
      BY DEF IInv, RingTypes
    <3>2. m_size = 1 /\ i = 1
      BY <2>1, <3>1
    <3>3. (m_head + i - 1) % Capacity = m_head
      BY <3>1, <3>2, ExchangeAssumption DEF Indices
    <3>4. Channel!Contents[i] = m_buffer[m_head]
      BY <2>1, <3>3 DEF Channel!Contents
    <3>5. UnderWay /\ Description = m_buffer[m_head]
      BY <3>2 DEF UnderWay, Description
    <3> QED
      BY <3>4, <3>5 DEF IInv, DescribedSlot, SlotOf
  <2>2. CASE pc["consumer"] \in {"consumeNotify", "acquireRead"}
    BY <2>1, <2>2, PacketInHand DEF IInv, DescribedSlot, SlotOf, DescriptorsFresh
  <2>3. CASE pc["consumer"] \in {"check", "release"}
    BY <2>1, <2>3 DEF IInv, ReadLease, Slots!AtGeneration, DescriptorsFresh
  <2> QED
    BY <2>1, <2>2, <2>3 DEF DescriptorsFresh
<1>2. IInv => NoSpontaneousError
  BY Flags DEF IInv, MainLoop, CleanStop, NoSpontaneousError
<1>3. IInv => FramesDelivered
  BY <1>1, <1>2 DEF FramesDelivered, IInv
<1> QED
  BY Invariance, <1>3, PTL

-----------------------------------------------------------------------------
(* The exchange and its two parts.                                         *)

(* The consumer asks for the slot of a token the pool has handed out.      *)
LEMMA KnownSlot ==
  ASSUME IInv, pc["consumer"] = "acquireRead"
  PROVE  packet.slot \in Slots!KnownTokens
<1>1. /\ packet \in Packets /\ packet.slot.generation # 0
      /\ generation[packet.slot.slot_id] = packet.slot.generation
  BY PacketInHand DEF IInv, DescribedSlot, SlotOf
<1>2. PICK s \in Slots!SlotIds, g \in 0 .. MaxGeneration :
        packet.slot = [slot_id |-> s, generation |-> g] /\ g = generation[s] /\ g # 0
  BY <1>1 DEF Packets, Tokens, Slots!SlotIds
<1>3. g \in 1 .. generation[s]
  BY <1>2, ExchangeAssumption DEF MaxGeneration
<1> QED
  BY <1>2, <1>3 DEF Slots!KnownTokens

(* What a thread does to the pool is a step of the pool.                   *)
LEMMA PoolStep ==
  ASSUME IInv, [Next]_vars
  PROVE  [Slots!Next]_(Slots!vars)
<1> DEFINE PoolSame == UNCHANGED slotVars
<1>0. PoolSame => UNCHANGED Slots!vars
  BY DEF slotVars, Slots!vars, Slots!slotVars, Slots!ownerVars, Slots!leaseVars, Slots!callVars
<1>1. ASSUME NEW t \in Threads,
             Slots!WriteStep(t) \/ Slots!ShutdownStep(t) \/ Slots!SpuriousWakeUp(t)
      PROVE  Slots!Next
  BY <1>1 DEF Slots!Next
<1>2. ASSUME NEW t \in Threads, NEW tok \in write_leases[t] \cup read_leases[t],
             Slots!LeaseStep(t, tok)
      PROVE  Slots!Next
  BY <1>2 DEF Slots!Next
<1>3. ASSUME NEW tok \in Slots!KnownTokens, Slots!ReadStep("consumer", tok)
      PROVE  Slots!Next
  BY <1>3 DEF Slots!Next, Threads
<1>4. MainStep => PoolSame
  BY DEF MainStep, MainPublishes, MainWaits, Sleeps, MainReturns, MainRequestsStop, MainNotifiesStop,
         NotifyAll, MainJoins
<1>5. ASSUME ProducerStep
      PROVE  Slots!Next \/ PoolSame
  <2>1. ProducerTakes \/ ProducerWaits \/ ProducerStops \/ ProducerSends \/ ProducerNotifies => PoolSame
    BY DEF ProducerTakes, ProducerWaits, Sleeps, ProducerStops, ProducerSends, ProducerNotifies, ChannelStep
  <2>2. ProducerAcquires => Slots!WriteStep("producer")
    BY DEF ProducerAcquires, SlotStep, Slots!WriteStep
  <2>3. ProducerFills => \E tok \in write_leases["producer"] : Slots!LeaseStep("producer", tok)
    <3>1. RecordSize \in 0 .. RecordSize
      BY DEF RecordSize
    <3> QED
      BY <3>1 DEF ProducerFills, SlotStep, Slots!LeaseStep
  <2>4. ProducerPublishes => \E tok \in write_leases["producer"] : Slots!LeaseStep("producer", tok)
    BY DEF ProducerPublishes, SlotStep, Slots!LeaseStep
  <2> QED
    BY <1>1, <1>2, <1>5, <2>1, <2>2, <2>3, <2>4 DEF ProducerStep, Threads
<1>6. ASSUME ConsumerStep
      PROVE  Slots!Next \/ PoolSame
  <2>1. \/ ConsumerConsumes \/ ConsumerNotifies \/ ConsumerChecks \/ ConsumerCompletes \/ ConsumerEnds
        \/ NotifyAll("consumer", "completeNotify", "consume")
        => PoolSame
    BY DEF ConsumerConsumes, ConsumerNotifies, ConsumerChecks, ConsumerCompletes, ConsumerEnds, NotifyAll,
           ChannelStep
  <2>2. ConsumerAcquires => Slots!ReadStep("consumer", packet.slot) /\ pc["consumer"] = "acquireRead"
    BY DEF ConsumerAcquires, SlotStep, Slots!ReadStep
  <2>3. ConsumerReleases => /\ packet.slot \in read_leases["consumer"]
                            /\ Slots!LeaseStep("consumer", packet.slot)
    BY DEF ConsumerReleases, SlotStep, Slots!LeaseStep, Slots!ReleaseRead
  <2> QED
    BY <1>2, <1>3, <1>6, <2>1, <2>2, <2>3, KnownSlot DEF ConsumerStep, Threads
<1>7. ASSUME NEW t \in Threads, Unwind(t)
      PROVE  Slots!Next \/ PoolSame
  BY <1>2, <1>7 DEF Unwind, DropLease, Slots!LeaseStep
<1>8. ASSUME NEW t \in Threads, CloseStep(t)
      PROVE  Slots!Next \/ PoolSame
  BY <1>1, <1>8 DEF CloseStep, SlotStep, ChannelStep, Slots!ShutdownStep
<1>9. ASSUME NEW t \in Threads, RecordError(t) \/ NotifyAll(t, "notifyError", "closeChannel")
      PROVE  PoolSame
  BY <1>9 DEF RecordError, NotifyAll
<1>10. ASSUME NEW t \in Threads, SpuriousWakeUp(t)
       PROVE  Slots!Next \/ PoolSame
  BY <1>1, <1>10 DEF SpuriousWakeUp
<1>11. MainTimesOut \/ MainFails \/ Finished \/ UNCHANGED vars => PoolSame
  BY DEF MainTimesOut, MainFails, Finished, vars
<1> HIDE DEF PoolSame
<1> QED
  BY <1>0, <1>4, <1>5, <1>6, <1>7, <1>8, <1>9, <1>10, <1>11 DEF Next, ThreadStep

(* What a thread does to the channel is a step of the channel.             *)
LEMMA RingStep ==
  ASSUME IInv, [Next]_vars
  PROVE  [Channel!Next]_(Channel!vars)
<1> DEFINE ChannelSame == UNCHANGED channelVars
<1>0. ChannelSame => UNCHANGED Channel!vars
  BY DEF channelVars, Channel!vars, Channel!ringVars, Channel!ownerVars, Channel!sleepVars
<1>1. ASSUME NEW t \in Threads, Channel!CallStep(t) \/ Channel!Close(t) \/ Channel!SpuriousWakeUp(t)
      PROVE  Channel!Next
  BY <1>1 DEF Channel!Next
<1>2. MainStep => ChannelSame
  BY DEF MainStep, MainPublishes, MainWaits, Sleeps, MainReturns, MainRequestsStop, MainNotifiesStop,
         NotifyAll, MainJoins
<1>3. ASSUME ProducerStep
      PROVE  Channel!Next \/ ChannelSame
  <2>1. \/ ProducerTakes \/ ProducerWaits \/ ProducerStops \/ ProducerAcquires \/ ProducerFills
        \/ ProducerPublishes
        => ChannelSame
    BY DEF ProducerTakes, ProducerWaits, Sleeps, ProducerStops, ProducerAcquires, ProducerFills,
           ProducerPublishes, SlotStep
  <2>2. ASSUME ProducerSends
        PROVE  Channel!CallStep("producer")
    <3>1. PICK tok \in write_leases["producer"] :
            /\ pc["producer"] = "send"
            /\ \/ Channel!PublishAccepts("producer", Descriptor(tok), TRUE)
               \/ Channel!PublishRefuses("producer", Descriptor(tok), TRUE)
      BY <2>2 DEF ProducerSends, ChannelStep
    <3>2. tok \in Tokens /\ record = expected_tick /\ record \in Ticks \cup {NoTick}
      BY <3>1 DEF IInv, WriteLease, Writes, FrameExpected, Producing, TypeOK
    <3>3. Descriptor(tok) \in Packets
      BY <3>2, Counters DEF NoTick, Descriptor, Packets
    <3> QED
      BY <3>1, <3>3 DEF Channel!CallStep
  <2>3. ProducerNotifies => Channel!CallStep("producer")
    BY DEF ProducerNotifies, ChannelStep, Channel!CallStep
  <2> QED
    BY <1>1, <1>3, <2>1, <2>2, <2>3 DEF ProducerStep, Threads
<1>4. ASSUME ConsumerStep
      PROVE  Channel!Next \/ ChannelSame
  <2>1. \/ ConsumerAcquires \/ ConsumerChecks \/ ConsumerReleases \/ ConsumerCompletes \/ ConsumerEnds
        \/ NotifyAll("consumer", "completeNotify", "consume")
        => ChannelSame
    BY DEF ConsumerAcquires, ConsumerChecks, ConsumerReleases, ConsumerCompletes, ConsumerEnds, NotifyAll,
           SlotStep
  <2>2. ConsumerConsumes \/ ConsumerNotifies => Channel!CallStep("consumer")
    BY DEF ConsumerConsumes, ConsumerNotifies, ChannelStep, Channel!CallStep
  <2> QED
    BY <1>1, <1>4, <2>1, <2>2 DEF ConsumerStep, Threads
<1>5. ASSUME NEW t \in Threads, CloseStep(t)
      PROVE  Channel!Next \/ ChannelSame
  BY <1>1, <1>5 DEF CloseStep, SlotStep, ChannelStep, Channel!CallStep
<1>6. ASSUME NEW t \in Threads,
             Unwind(t) \/ RecordError(t) \/ NotifyAll(t, "notifyError", "closeChannel")
      PROVE  ChannelSame
  BY <1>6 DEF Unwind, RecordError, NotifyAll
<1>7. ASSUME NEW t \in Threads, SpuriousWakeUp(t)
      PROVE  Channel!Next \/ ChannelSame
  BY <1>1, <1>7 DEF SpuriousWakeUp
<1>8. MainTimesOut \/ MainFails \/ Finished \/ UNCHANGED vars => ChannelSame
  BY DEF MainTimesOut, MainFails, Finished, vars
<1> HIDE DEF ChannelSame
<1> QED
  BY <1>0, <1>2, <1>3, <1>4, <1>5, <1>6, <1>7, <1>8 DEF Next, ThreadStep

(* The exchange uses the pool and the channel as their specifications      *)
(* allow: with tokens the pool has handed out, leases the caller holds and *)
(* packets of the channel's type.  What is proved of every use of the pool *)
(* and of the channel therefore holds in the exchange.                     *)
THEOREM PartsUsedAsSpecified == Spec => Slots!SafetySpec /\ Channel!SafetySpec
<1>1. Init => Slots!Init /\ Channel!Init
  BY DEF Init
<1>2. IInv /\ [Next]_vars => [Slots!Next]_(Slots!vars) /\ [Channel!Next]_(Channel!vars)
  BY PoolStep, RingStep
<1> QED
  BY Invariance, <1>1, <1>2, PTL DEF Spec, Slots!SafetySpec, Channel!SafetySpec

=============================================================================
