# Verification of Ithax

Ithax is a C++ client engine: a small multicore runtime (job execution, frame
hand-over between threads, an ECS world), a Vulkan rendering back-end
(`src/src/trinityal-vulkan`) and a network client speaking the MachoNet protocol
(`src/src/network`). This directory holds TLA+ models of the parts where
threads, failures and ordering decide correctness, TLC configurations that check
them on small instances, and TLAPS proofs of the properties that matter most.

Paths below are relative to the repository, whose sources are under
`src/`; for example `src/src/threading/frame_slot.cpp` is the repository's
`src/threading/frame_slot.cpp`.

## Inventory

| Component | State | Operations | Hard behaviour | What makes it correct |
|---|---|---|---|---|
| Frame slot pool, `threading/frame_slot` | per slot: state, generation, payload size, cancelled; closed flag; the two owners; operation count | acquire/publish/cancel a write lease, acquire/release a read lease, discard, close, destroy | blocking acquires, close during a wait, exceptions with a lease held, `noexcept` destructors that terminate | leases stay valid, slots never leak, stale tokens never revive, no lost wake-up, destructor ends |
| Frame packet channel, `threading/frame_packet_channel` | ring buffer, head, tail, size, closed flag, owners | publish, consume (blocking and not), close | notifications sent after the unlock, close with packets inside | it is a bounded FIFO that drains after close; blocked calls return |
| Frame exchange, `stage3_multicore_integration.cpp` | coordination record (pending, in flight, error, stop), two threads | publish a frame with a timeout, stop, produce, consume | timeout against a late frame, descriptor sent before the slot is published, errors in any thread | quiescent shutdown, publish means consumed, first error kept, all threads end |
| Runtime supervisor and job runtime, `runtime/`, `jobs/` | lifecycle state, first failure, registry of pending tasks, active consumers; the job runtime's own state | start, submit, wait, report failure, request stop, drain | Wait against Drain, failures from several threads, unlocked clear of the registry | an accepted task is consumed exactly once, lifecycle only goes forward, drain ends |
| Scratch allocator, `threading/scratch_allocator` | capacity, offset, owner thread | allocate, reset | alignment and overflow arithmetic | allocations are disjoint, aligned and in bounds |
| Thread budget, `thread_budget.cpp` | recorded samples and reservations | capture, query headroom, reserve | a CPU set that changes between two captures | never promises more workers than the measured headroom |
| ECS world, `ecs/ecs_world` | entities, transforms, journals | create, build journals in parallel, merge | merge that fails half-way | the merge equals the sequential update, whatever the partition |
| Render graph, `Tr2RenderGraphALVulkan` | resources, passes, compiled order, barriers | declare, compile | ordering of conflicting uses, culling, lifetimes | the execution order respects the declared uses, exactly the needed passes survive |
| Render graph recorder, `BeginGraphPass` and its neighbours | registered resources, tracked layouts, result of the frame | register, begin/end pass, end frame, present transition | passes recorded in another order than declared, calls that fail half-way | images are in the declared layout, conflicting passes are separated by barriers |
| Vulkan context, render context and resources | device objects, swapchain, frame contexts, fences, timeline, deferred destructions | create, begin/end frame, present, recreate, retire, read back, destroy | asynchronous GPU, lost surfaces, failures between two Vulkan calls | nothing is destroyed while in use or before what was made from it, nothing leaks, a failed frame does not hang the next |
| Network session, `client`, `connection`, `handshake`, `session_crypto`, `framing` | connection, handshake state, cipher state, decoder buffer, pending calls | connect with retries, handshake, call, ping, pump, disconnect | reconnection with left-over state, crossing messages, a silent server | a session is agreed by both ends, the decoder keeps its place, both ends encrypt alike, connecting ends |
| Marshal codec, packets and dispatcher, `network/marshal`, `packet`, `dispatcher` | registered handlers | encode, decode, dispatch, answer | sizes and nesting at their limits, damaged streams | decode inverts encode, no read leaves the data, answers come to whom they are for |
| Stage programs, `stage3_*_integration.cpp`, `stage5_milestone_scene.cpp` | the phases of a run | start, tick, drain, draw, read back, shut down | a failure at any call | they end, and the world is what sequential ticks make it |

The components interact as follows. The main loop owns the ECS world, submits
tick tasks through the supervisor to the job runtime, waits for them, and hands
one frame record at a time to the frame exchange. Its producer thread writes the
record into a slot of the pool and sends the slot's token through the channel;
its consumer thread takes the token, reads the slot and releases it. All shared
state is guarded by one mutex per object with condition variables on top. The
renderer and the network client are driven from one thread each; their
concurrency is with the GPU and with the peer.

## Modules

| Module | Models | Checked by |
|---|---|---|
| `FrameSlotPool` | the slot pool and its leases | `FrameSlotPool.cfg` |
| `FrameSlotPoolProofs` | theorems about the pool | TLAPS |
| `BoundedFifo` | what the channel promises | |
| `FramePacketChannel` | the ring, and its refinement of `BoundedFifo` | `FramePacketChannel.cfg` |
| `FramePacketChannelProofs` | theorems about the channel | TLAPS |
| `FrameExchange` | composes the pool and the channel with main, producer and consumer | `FrameExchange.cfg` |
| `FrameExchangeProofs` | theorems about the exchange | TLAPS |
| `RuntimeSupervisor` | the supervisor with the job runtime it owns | `RuntimeSupervisor.cfg` |
| `RuntimeSupervisorProofs` | theorems about the supervisor | TLAPS |
| `EcsWorld`, `ScratchAllocator`, `ThreadBudget` | the operations of the three components, as operators | through `WorkerTicks` |
| `WorkerTicks` | composes them under the two stage 3 programs and under free callers | `WorkerTicks.cfg` |
| `WorkerTicksProofs` | theorems about partitions, merges and ticks, arenas and the thread budget | TLAPS |
| `RenderGraph` | declaration and compilation of a render graph | `RenderGraph.cfg` |
| `GraphRecorder` | extends `RenderGraph` with the recording of the compiled graph | `GraphRecorder.cfg` |
| `RenderGraphProofs` | theorems about compilation and recording | TLAPS |
| `VulkanFrame` | frame contexts, swapchain, deferred destruction and back buffer against the GPU and the window | `VulkanFrame.cfg`, `VulkanFrameResize.cfg` |
| `VulkanFrameProofs` | theorems about the frame loop | TLAPS |
| `VulkanDevice` | which Vulkan object exists and who holds it, from the creation of the device to the destructors | `VulkanDevice.cfg` |
| `ClientSession` | client, connection, frame decoder, handshake and session encryption against a server | `ClientSession.cfg` |
| `ClientSessionProofs` | theorems about the session | TLAPS |
| `Marshal` | the marshal codec | through `MachoNet` |
| `MachoNet` | extends `Marshal` with packets, dispatcher and answers over a wire that damages | `MCMachoNet.cfg` |
| `MCMachoNet` | the values, streams and addresses for TLC | |

Conventions. Variables carry the names of the members they model. One action is
one critical section, or one outcome of a call. A call that blocks on a condition
variable is recorded in `call[t]` (or in a program counter) and its thread is in
a set of sleepers until a notification, or a spurious wake-up, removes it. A
notification that the code sends after releasing its mutex is a separate step. A
definition named `X_Mutant` is what `X` would be after a plausible mistake in the
code; no specification uses it, and `PROJECT.json` pairs it with the property
that then fails. A property that a run lists as one name is often the conjunction
of several statements about the same hazard, which are defined and explained one by
one above it (`SlotsAccounted` is `LeasesValid`, `NoLeakedSlot` and
`OperationsCounted`, and so on). Most modules with state of their own define `TypeOK`;
TLC confirms each in place of the invariants of its run; those of the pool, the channel, the exchange,
the supervisor and the frame loop are proved (`TypeCorrect`).

### FrameSlotPool

The slots are four functions of the slot index (`state`, `generation`,
`payload_size`, `was_cancelled`). An active lease is an element of
`write_leases[t]` or `read_leases[t]`, so a lease stays with the thread that
acquired it. Each acquire call is split by outcome (`...Lease`, `...Nothing`,
`...Sleeps`, `...Throws`). `blocking` tells `AcquireWrite` from `TryAcquireWrite`
and `AcquireRead` from `TryAcquireRead`. Reads may be tried with any token the pool
has ever handed out (`KnownTokens`), so stale tokens are part of every run.
`lifetime` records the destructor and `std::terminate`.
The pool id of a token is folded into generation 0: both are refused by the same
test. The destructor is started by an owner at a moment when the other threads are
at most inside an acquire call; `Close` from another thread at that moment would
race with the destruction of the condition variable and is outside the contract.

### FramePacketChannel and BoundedFifo

`Contents` maps the ring to the sequence of packets held; `ImplementsFifo` states
that every step of the ring is a step of the FIFO or leaves it unchanged.

### FrameExchange

Main publishes `ExpectedFrames` frames and stops; it may time out on any of them
or fail between two of them. The producer and the consumer run the loops of
`ProduceFrames` and `ConsumeFrames` on the two component modules, with an exception
path that drops the lease held, records the error and closes both components.
Branches the composition can never take are absent from the loops: the producer
never sleeps in the pool or in the channel (a frame is published only when the one
before it has been consumed), tokens are never stale
(`DescriptorsFresh`), and generations cannot run out in a bounded run. The
increment of `expected_tick`, a local of the consumer, is taken together with the
preceding reset of `in_flight`.

### RuntimeSupervisor

Steps are the critical sections of `m_submission_mutex` and the blocking waits;
`pc` and `return_to` follow a thread through `Wait`, `RequestStop` and `Drain`. The
executor runs accepted tasks, each of which ends with or without an exception.
`Submit` and `SubmitReusable` differ only in who owns the task graph.

### RenderGraph and GraphRecorder

Declarations are actions, one per call (`AddImage`, `AddBuffer`, `AddPass`,
`PassReadsImage` and the other uses, `MarkPassCullable`, `SetAttachmentClear`,
`MarkPresented`); `Compile` is one step whose result is computed by the
operators named after its phases: the dependency edges between neighbouring
uses, the lowest-id-first topological order, the reverse sweep that culls
passes, the lifetimes and the barriers. What the code does in loops over passes and uses is
a recursive function of the iteration (`Sweep` is one turn of the culling loop, `Picked` keeps the
elements of a sequence at given positions, in their order), which the proofs can follow step by step. The properties compare them with
reference definitions that quantify over all orders and all paths. Names,
extents and formats are left out; layouts are the ones the uses imply.

Edges join neighbouring uses of a resource only, and none joins two reads. The
properties about order therefore hold of the `Conformant` graphs: those in which no
resource is read twice in a row, or resources are used by passes of rising id,
as the scene declares them. What happens outside is below, under
`NoReadBeforeFirstWrite`.

`GraphRecorder` continues from a compiled graph: the scene registers textures
and buffers, begins and ends the surviving passes and presents. A resource may
become invalid, so `BeginGraphPass` may fail after it has recorded part of its
barriers. The scene's loop records the surviving passes by pass id; the properties are
stated for the graphs where that is the compiled order (`InOrder`), the scene's own
among them.

The layout a texture is in when the frame begins (`atStart`) is any of `TextureLayouts`, whatever the
graph declares: `RegisterGraphTexture` compares the two nowhere, and the layouts it keeps
in `m_graphLayouts` are never read. What a pass declares as a transfer write it uploads.
`UpdateSubresource` transitions the texture itself, from the layout tracked on it to `TRANSFER_DST_OPTIMAL`
(`UploadTransition`), behind the compiler's back; `UpdateBuffer` records no barrier. Either may find no memory
to stage the upload, and the scene exits inside the pass (`UploadFails`).

The statements about layouts are therefore about the images in `WellDeclared`: the declared initial
layout is the texture's, or `UNDEFINED` (the contents may go), or `TRANSFER_DST_OPTIMAL` on an
image whose first pass uploads it. The third case is the scene's own: it says that 'the declared initial layout must match'
(`stage5_milestone_scene.cpp:762`) and then, in frame 0, declares `TRANSFER_DST_OPTIMAL` for a texture that
is still `UNDEFINED`; the transition that `UpdateSubresource` records makes up for it. The remaining case, declared
`TRANSFER_DST_OPTIMAL` and not uploaded, is reached as well: the upload is in frame 0 only (line 779), and a scene
whose frame 0 is skipped because the window is minimized declares in a later frame what no upload
has brought about, so the first barrier names an old layout that is not the texture's. Without
`WellDeclared`, TLC refutes `OldLayoutsTruthful`.

### VulkanFrame

`phase` follows the scene through `Tr2RenderContextAL::Present`: the transition of
the back buffer, `EndFrame`, `Present`, the parts of `BeginFrame` between two calls
that wait or fail, and the attachment of the acquired image. Per frame context
there are the fence, the timeline value, the counter of its timeline semaphore, the
acquire semaphore and the state of the command buffer. `queue` holds the submissions
the GPU has not completed (they complete in order, at any time), `presenting` the
presents that have not yet taken their semaphore, which no fence covers.
`minimized` may change between any two steps. `deferred` is the list of retired
staging buffers with their timeline values. The back buffer wrapper is `none`,
`attached` to the acquired image or `stale`. A Vulkan call that fails for good ends
the run in phase `failed` (`PresentFails`, `ResizeFails`). The readback of the first frame is left to
`VulkanDevice`: there `AttachLastPresentedImage` points the wrapper at another image than the acquired one
(see `ReadbackOfAcquired` under Runs), and `DrawnIsAcquired` is not about that frame's end.

### VulkanDevice

The same frame loop, asked another question: does every object that was created get
destroyed, once, after its children and after the GPU is done with it, whichever call
fails? A function of the back-end is the sequence of calls it makes; `todo` holds the calls
still to be made and a step takes the first. A call that fails drops what follows up
to the next place that looks at the result (`"caller"`), which is the way the code
returns early. `handle` has one entry for each member that can own an object, `live` is what
exists. The scene is the whole of `stage5_milestone_scene.cpp`: device, resources,
frames, the readback of the first frame, the resize, the recovery from a lost surface,
and the destructors of the locals before `main` destroys the device. One drawable
stands for the scene's three, which are made and destroyed alike. The render context keeps copies of the
registered textures and buffers (`m_graphTextures`, `m_graphBuffers`), so some objects outlive the scene's locals by
a few steps; the model destroys them with the locals, in the same order and with the GPU idle either way.

### WorkerTicks, EcsWorld, ScratchAllocator, ThreadBudget

`EcsWorld`, `ScratchAllocator` and `ThreadBudget` hold the components' operations as operators
on a world, an arena and a budget; `WorkerTicks` holds the state. `driver` selects the
program: `integration` (`stage3_multicore_integration.cpp`: phases with one supervisor
each, fresh snapshots, a scratch arena per executor thread), `host`
(`stage3_carbon_host_integration.cpp`: one phase on a reused snapshot and reused
journals between the start and the shutdown of the Carbon host), or one of two callers
that use an `EcsWorld` (`owner`) or an arena (`arena`) in any order their interface
permits. Tasks go to executor threads in any order, any of them may throw, and the
operating system may change the CPU set between two captures. An arena's `size_t` is
scaled to `SizeMax`, so that a sum that wraps is within reach.

The host shuts down as `DrainResourceQueue` does: in rounds, at most `MaxPumps` of them (`MAX_DRAIN_PUMPS`), each of
which pumps the main thread's queue until it is empty (`PumpMainThreadQueue`, one step per turn of the inner loop) and then
looks whether anything is pending (`DrainAgain`, `DrainReturns`). After the last round nobody looks again
and the program throws (`DrainTimesOut`). A loader thread moves what is `pending` into the queue at any moment (`queued`), and
preparing a resource may ask for `latent` others. The inner loop has no bound in the code: that it ends rests
on the assumption, external to this repository, that resources do not ask for others without end, which the model
states as `MaxPending` resources in all. `PrepareShutdown` stops the callbacks and requires again that nothing
is pending; what they asked for last ends the program in `retained`. The pump after a tick may throw.

`HeadroomKept` is about the moment at which workers start: they fit into the CPUs that the process has then,
not into those an earlier capture has seen, so a start without the measurement of `PrepareWorkerCount` breaks it.

### ClientSession

The calling thread goes through `Client::Connect`, `EstablishSession` line by line,
`Receive`, the sending calls and `Disconnect`. The byte stream is kept: a frame is
one unit for its length and as many as its payload has, `recv` returns any number of them up to
the size of its buffer, and `FrameDecoder` finds the frames again. A ciphertext names the vector it
was made under; a vector is the last block of the ciphertext before it. The
server is not in this repository: it is modelled from the exchange that the client
expects, and may besides fall silent, answer with another value, or close. `broken`
records that ciphertexts crossed on the wire or that one was made and not sent, after
which one shared vector cannot agree by construction.

Two things are coarser than the code. An answer with another value is one that the structural checks of
`handshake.cpp:153-184` refuse; they are all the client tests, and a value of the right shape
passes as the server's. And `recv` cuts the stream anywhere but inside the four bytes of a length.

### Marshal, MachoNet and MCMachoNet

`Encode` and `Decode` follow the recursive functions of the encoder and the decoder, on
sequences of bytes. Opcodes, flags, texts and run lengths are real bytes; the digits of integers are in base
`ByteBase` instead of 256 with the same number of digits, so widths, two's
complement and the escaped sizes are where they are in the code. The reader `r` carries
position, value, saved objects and the exception (`err`); a read outside the inflated data of a packed row is the
error `wild`.

`MachoNet` sends a value, lets the wire cut, extend or change it and decodes it. What the client receives it
handles by the type of the decoded packet, as `Client::HandleIncoming` does, whoever sent it and for whatever
reason: an answer to a call goes to the handler that was set (`listening`) or to the log, a ping is answered, all
other types are logged, and a value that is no packet ends in `PacketFormatError`. The server
is external: it answers calls with any of `Results`, in either of the two places where the client looks for one,
pings from any of `PingAddresses`, and sends packets of any of `PacketTypes` with any of `Payloads`.

The dispatcher stands by itself (`RegisterHandler`, `DispatchPacket`): the client owns one and never calls it, so it is driven by
a caller that hands it calls and packets of another type, as its test does.

## Runs

| Run | Instance | Distinct states | Shows |
|---|---|---|---|
| `slot_pool` | 3 threads, 2 slots, 2 generations per slot | about 249 000 | `SlotsAccounted`: leases, slots and operation count agree; `NoLostWakeUp`; `TokensNeverRevive`; `CloseEnds`: close wakes everybody and the destructor ends |
| `packet_channel` | 3 threads, capacity 2, 2 packets | about 23 000 | refinement of the FIFO, no lost wake-up, blocked calls return |
| `frame_exchange` | 2 slots, capacity 2 (the program's constants), 3 frames | about 41 000 | quiescent shutdown; `FramesDelivered`: publish means consumed, no error without a cause, fresh descriptors; termination; deadlock is checked |
| `runtime_supervisor` | 3 threads, 2 tasks | about 77 000 | tasks consumed once; `ShutdownInOrder`: nobody is still waiting, nothing is left, the job runtime follows; drain ends |
| `worker_ticks` | 3 entities, 2 ticks, up to 3 workers, 2, 3 or 6 CPUs that change once, 3 resources, 2 rounds of the drain | about 433 000 | the world equals sequential ticks, merges are all or nothing, spans are disjoint, headroom is kept, the programs end |
| `render_graph` | up to 3 passes, 2 resources, 4 uses, 1 cleared attachment | about 2.7 million | order respects declarations; a cycle is reported only if no order exists; `SurvivorsAndLifetimes`: exactly the needed passes survive, lifetimes enclose uses |
| `graph_recorder` | up to 3 passes, 1 resource, 3 uses, 3 declared and 2 actual initial layouts | about 2.5 million | declared layouts, truthful old layouts and present transition, synchronised conflicts |
| `vulkan_frame` | 2 contexts (the program's constant), 3 images, 6 frames, 2 uploads in the first frame, 3 window events, 2 resizes | about 162 000 | no command pool reset in flight, no staging buffer destroyed in use, what is drawn and presented is the acquired image, and without a resize every Present returns |
| `vulkan_device` | 2 contexts, 2 images, 3 turns with a resize after the third, any call failing | about 1.12 million | no leak, children before parents, nothing destroyed in use, readback after its copy |
| `client_session` | 2 connects with 1 retry each, frames of 1 to 3 units, 2 messages of each side, 1 deviation of the server | about 1.05 million | sessions are agreed, the decoder keeps its place, the vectors agree, Connect ends |
| `macho_net` | several hundred values, streams and packets, nesting to 5, counts to 15, 9 packet types, 7 payloads, 2 registrations | about 205 000 | decode inverts encode and nothing else, no read outside a row, decoded values encode again; `AnswersArrive`: calls are understood, results reach the handler, pings are answered to whom they came from, the dispatcher finds the handler registered last |

One run shows a disagreement between the code and what the repository says of
it (a finding in `PROJECT.json`, with the quoted line): `vulkan_resize` refutes `ResizeRecovers`.
After a resize, Present fails before it could attach an image, for ever.

Further statements of the repository that the code does not meet are defined in the
modules, without a run of their own; TLC refutes each when it takes the place of the
invariant of the run named with it:

* `NoReadBeforeFirstWrite` (`render_graph`): Compile reports an image that 'is read
  before its first write' (`Tr2RenderGraphALVulkan.cpp:342`), but in 'pass 2 writes,
  pass 3 reads, pass 1 reads' no edge orders pass 1 after pass 2 (line 359), and it runs first;
* `LifetimesAreOrderIndices` (`render_graph`): lifetimes hold pass ids, the header promises
  execution order indices (`Tr2RenderGraphALVulkan.cpp:470`, `.h:99`);
* `RegisteredLayoutSupplied` (`graph_recorder`): the old layout of a first transition is
  the declared one, the registered one is never read (`Tr2RenderContextVulkan.cpp:1444`,
  `Tr2RenderGraphALVulkan.cpp:544`);
* `RecordedInExecutionOrder` (`graph_recorder`): the scene records by pass id
  (`stage5_milestone_scene.cpp:869`);
* `NoDestroyInUse` (`vulkan_frame` with `UploadFrames = {0, 1, 2, 3}`): a staging buffer is
  retired with a value of one context's timeline and destroyed by the counter of another's
  (`Tr2BufferALVulkan.cpp:226` against `DRAFT_DEVELOPMENT_PLAN.md:1044`); the scene
  uploads in its first frame only, where the two agree. With a small `MaxDeferred`, a
  full list is emptied although the frame being recorded refers to its entries
  (`Tr2VulkanContext.cpp:1329`);
* `NoAbandonedFence` (`vulkan_frame`): a resize of a minimized window leaves a fence that was
  reset and is never submitted, and the next wait for it has no timeout
  (`Tr2VulkanContext.cpp:1096`, 1111 and 1002 against `DRAFT_DEVELOPMENT_PLAN.md:1118`);
* `SuspendedFramesRecord` (`vulkan_frame`): a suspension found by an acquire returns
  without beginning the command buffer (`Tr2VulkanContext.cpp:1064` against line 1046);
* `AcquireSemaphoreUnsignaled` (`vulkan_frame`): a suboptimal acquire is repeated with a
  semaphore that is already signalled (`Tr2VulkanContext.cpp:1061`;
  `DRAFT_DEVELOPMENT_PLAN.md:1116` asks for no validation errors);
* `RenderSemaphoreFree` (`vulkan_frame`): the render-finished semaphore belongs to the
  context and is reused before the presentation released it (`Tr2VulkanContext.cpp:1130`
  against `DRAFT_DEVELOPMENT_PLAN.md:990`);
* `ReadbackOfAcquired` (`vulkan_device`): the readback of the first frame attaches the image
  presented last, index 0 when nothing has been presented, and not the acquired one
  (`Tr2TextureALVulkan.cpp:343` says the image 'is still acquired');
* `LegalFramesAccepted` (`client_session`): `Push` refuses more buffered bytes than one
  frame has (`framing.cpp:40`), `docs/protocol/machonet.md:49` allows several frames in one segment;
* `MalformedCloses` (`client_session`): a message that does not decode leaves the
  connection open (`client.cpp:152`), `docs/protocol/machonet.md:264` says it is closed.

Two more can be read off `MachoNet` directly: `docs/protocol/machonet.md:288` says that decoded CALL_REQ packets
are dispatched to registered handlers, and line 276 that unknown message types are rejected, while `HandleOthers` logs
both (`client.cpp:262`) and nothing in the client calls the dispatcher.

What the models exclude by an explicit condition, because the code does not have
the property there:

* `NoLeak` excepts a swapchain lost by a failed `RecreateSwapchain`, which clears the
  handle without destroying what it holds (`Tr2VulkanContext.cpp:711`; the plan asks for
  recovery without leaks, `DRAFT_DEVELOPMENT_PLAN.md:1118`). `DestroyedIdle` excepts `gaveUp`: the scene returns
  while frames are in flight when constants cannot be locked.
* `VectorsAgree` excepts `broken`: messages that cross on the wire, a frame over the
  limit and a failed send each advance one vector and not the other.
* `MergeAllOrNothing` is about journals of one snapshot and one worker count, one of each
  worker: others are rejected in the middle of being applied, or, when stale but of
  the right size, applied.
* `ImagesInDeclaredLayout` and `TransitionsTruthful` are about the images in `WellDeclared` (above).
* `RoundTrip` is up to the sign of a zero, and for texts and streams within the
  decoder's limits, which the encoder does not check. An integer in a packed row that its column cannot hold is
  accepted by the encoder, which writes its low bytes (`marshal.cpp:562`); it comes back reduced
  to the width and sign of the column (`Reduced`), and `EdgeRows` has such integers for every narrow
  column. `DecodedReencodes` excepts rows
  with reals, which the encoder cannot write (`marshal.cpp:551`; the table of column
  types has them, `docs/protocol/machonet.md:166`), saved elements used deeper
  than the encoder nests, and saved elements used so often that the stream would outgrow its limit.

Why the bounds are enough. Three threads are one more than the pool and the
channel accept, so rejected owners occur. Two slots and two generations give a free slot,
a reused one and a stale token at once, and exhaust the generations. A ring of
two wraps. Three frames use the first slot twice and leave one frame after a
slot has been reused. Two tasks and three threads let one thread wait, one drain
and one report a failure. Three passes and four uses contain every shape the
edges distinguish (write-read, read-write, write-write, two readers, a use of a
second resource across them). Six frames use each of the two contexts three
times, so a context is reused after a suspended frame; three window events
minimize, restore and minimize again. `MaxDeferred` (4096 in the code) is larger than
the number of uploads. Three turns of the scene use one of two contexts twice, with the
readback in the first turn and the resize after the last, and two images make the acquired index
differ from the one presented last. The declared layouts of the recorder are the texture's, `UNDEFINED`, another one
and the one an upload leaves, which are the cases `WellDeclared` tells apart. Three resources let one load,
one be asked for while it is prepared and one after the drain. Three entities give three workers one each, two workers
an uneven partition and a fourth worker nothing to do; two ticks reuse snapshot, journals and arenas. Two connects
leave bytes of one connection before the next; a payload limit of two units
admits a frame cut at either unit, two frames in one chunk and one that is too large. With base
4 digits an integer of every width, a size on both sides of the escape and the nesting
limit are within a few units.

Deadlock checking is off where the system may stop: nobody is obliged to call
the pool, the channel, the supervisor, the client or a component again, and the programs exit.
It is on in the exchange, whose only final state is all threads done.

## Fairness

`WF` of the steps by which a thread that is inside a call goes on: a thread that
has been notified gets the mutex eventually and continues. Starting a call is
never fair. Sleeping threads get no fairness: only a notification or a spurious
wake-up makes their step possible, so a lost notification shows up as a liveness
violation. In `RuntimeSupervisor` tasks are assumed to end, which is the contract of
`Drain` (it waits for the executor). In `FrameExchange` neither the timeout nor
a failure of main is fair. In `VulkanFrame` the scene keeps calling Present, the steps of
Present go on as soon as the call they wait in returns, the GPU completes what was
submitted and the presentation engine releases images, which Vulkan guarantees;
window events, lost surfaces and outdated swapchains are not fair. In `ClientSession` a call
that has begun goes on, since connect and `recv` return, the latter after the socket's timeout
at the latest; nothing is assumed of the caller or the server. In `WorkerTicks` the main thread and the
executor threads go on while they have something to do; resources need never load, only
no more than `MaxPending` of them are ever asked for, and the CPU set need never change. `VulkanDevice` and `MachoNet` have safety properties only.

## Proofs

Each proof module extends the module it is about and states its inductive invariant, a
conjunction of named parts: `IInv`, in `WorkerTicksProofs` also `TickInv` (the programs) and
`OwnerInv` (the free owner), in `RenderGraphProofs` `GraphInv` and `RecInv`. TLC confirmed every one of them
on the instance of the module's run, `RecInv` on smaller ones, where its existential over positions
of commands can be evaluated. The theorem named `Invariance` (or `TickInvariance`, `OwnerInvariance`, `GraphInvariance`,
`RecorderInvariance`) says that it always holds; the other theorems follow from it.
The constants are arbitrary but for the named `ASSUME`s, which only say that bounds are
natural numbers, capacities positive and sets finite, that the named drivers and phases are the
ones the module has, and that the programs ask for no more entities and workers than a world can
merge (`FitsAssumption`); TLC evaluates them on every run.

What a loop or a recursive function computes is proved by induction up to its bound: the numbers for which
the claim fails have a least one (`LeastNumber`, from the well-foundedness of the naturals), and the
step leads from its predecessor to it.

### FrameSlotPoolProofs

For every finite set of threads and every positive
number of slots, payload capacity and generation bound (`PoolAssumption`):

* `PoolAccounted`, `WakeUpsNotLost`: the two invariants of the run `slot_pool`; the
  first combines `LeaseSafety`, `SlotsNeverLeak` and `OperationCountExact`;
* `TypeCorrect`: the type invariant;
* `TokensSingleUse`, `ClosedPoolDrains`, `PayloadStable`,
  `TerminationOnlyByDestructor`: what no step of the pool may do; TLC checks the
  first of them as well.

The argument. `IInv` is the conjunction of the five invariants with
`CallersRegistered`: a thread inside an acquire call is the registered owner of its
side. No conjunct is inductive alone. A woken writer registers again without a
check, which keeps leases valid only because it is the producer already; the count of
operations is a natural number only because it counts the threads inside calls
(`OperationEnds`, `OperationSleeps`, from the cardinality theorems); a sleeping
reader's slot stays in `Writing` only because leases are disjoint from free slots.
There is one lemma per action, and under it one step per conjunct. `SlotMoves` then lists the six ways in which
a step may change a slot, and the action properties follow from it.

### FramePacketChannelProofs

For every set of threads and packets and every positive capacity: `NoWakeUpIsLost`,
`RingImplementsFifo` (the refinement of `BoundedFifo`) and `TypeCorrect`.

`NoLostWakeUp` needs `CallersRegistered`: `notify_one` wakes one thread, which is enough only because
the one thread that can sleep on a side is its registered owner. The refinement
needs `TailFollowsHead` (the tail is `m_size` places after the head, modulo the capacity) and
`HeldPackets`. Three lemmas on `Contents`, the refinement mapping, say what it is when the ring is
empty, after a write at the tail and after a read at the head; every
action is then a step of the FIFO or leaves `Contents` and the closed flag alone.

### FrameExchangeProofs

For every number of frames and slots and every capacity of the channel (`ExchangeAssumption`):
`QuiescentShutdown` and `FramesArrive`, the two invariants of the run `frame_exchange`, `TypeCorrect`, and
`PartsUsedAsSpecified`: every step of the exchange is a step of `FrameSlotPool` and one of
`FramePacketChannel`, or leaves them alone, so the exchange calls its parts only in ways
their own specifications admit.

Two facts carry the argument. There is one frame at a time (`OneFrame`): it is pending, being written,
described by a packet under way, or being checked, so at most one packet is in the ring and
the producer never finds the pool or the channel full. And trouble starts with main (`CleanStop`,
`ClosedInOrder`): until main has left its loop nothing is closed and neither thread has failed. `WriteLease`,
`ReadLease`, `DescribedSlot`, `SentSlot` and `SlotsInUse` say which slot is in which state for each line of the two
loops, also after an exception has dropped a lease; that every slot is free once both threads have returned
follows from them.

### RuntimeSupervisorProofs

For every finite set of threads, every set of tasks and every limit of pending ones:
`TasksTracked`, `OrderlyShutdown` and `TypeCorrect`.

`AcceptedTasksTracked` is a statement about a cardinality. `Tracking` says the same by exclusion: a
task is in at most one place of registry, held by a waiting thread, swapped out by a draining
thread, and in none exactly when it has been consumed; sequences of ids have
no repetition. It is inductive only with `Control` (which thread may be at which line, at most one
in the drain after the registry was closed to new tasks), `Stages` (how far supervisor, job runtime and drain are from each other) and
`ConsumersCounted` (the counter is the number of threads inside `Wait`). The clear of the
registry without the mutex is safe because of `Stages`: nobody can register any more.

### WorkerTicksProofs

For every size of the world, number of workers and ticks, capacity, size and alignment (a power
of two or not, refused as in the code) and every set of CPU counts: all four safety properties of the run
`worker_ticks`.

* `SpansApart` and `BudgetRespected` are `SpansDisjoint` and `HeadroomKept`. `ArenaOK` adds to
  disjointness that no span ends after the offset; `BudgetInv` relates the workers to the
  CPUs of the last capture in each phase of the programs.
* `PartitionsTile` is about the operators alone: the partitions that `BuildTransformJournalInto`
  computes follow one another without gap or overlap.
* `MergeIsSequential`: merging the complete journals of all workers is one sequential pass over the world, and no
  check rejects them. The concatenation of the journals has every update at the offset of its worker's
  partition (`FlattenPlaced`, `UpdatesInOrder`), sorting leaves journals in the order of their workers alone
  (`SortedAlready`), and the loop stops nowhere.
* `TicksAreSequential` (`WorldAtTick`): `TickInv` follows the tasks of a tick. One that is done has left
  the complete journal of its worker, made from a snapshot that is the world (`TasksRun`, `HostReuses`), and the
  phases share the ticks as partitions share a world (`TicksShared`).
* `MergesAllOrNothing` (`MergeAllOrNothing`): here journals come from any snapshot, may be cut short by
  an overflow and stand in any order. `OwnerInv` says that a snapshot is never larger than the world and every
  journal is a prefix of its worker's partition (`BuiltPrefix`). When the checks pass, the updates
  are as many as the world has entities. Their places in the snapshot are all different, so by counting
  (`PigeonHoles`) they are all of its places (`NoneLeftOut`): no journal was cut short, no worker with
  something to do is missing, and the snapshot is as large as the world (`AcceptedComplete`).

### RenderGraphProofs

For every number of passes, resources and uses and every assignment of layouts: the three
invariants of `RenderGraph` (`ExecutionInOrder`, `CyclesAreReal`, `CullingAndLifetimes`) and the three of
`GraphRecorder` (`ImagesReady`, `TransitionsAreTruthful`, `ConflictsAreSynchronised`), under the conditions
that the properties themselves state (`Conformant`, `InOrder`, `WellDeclared`).

Compilation. A round of the topological sort removes a pass that has no unfinished predecessor; when no pass is left to
remove, those that remain each have a predecessor among them, and no order can place the first of
them, so a reported cycle is one. When all are removed, every edge leads forward. In a conformant graph the
edges between neighbouring uses lead from a use to every later use it conflicts with. The reverse
sweep visits a pass after everything that depends on it; hence it keeps a pass exactly if it belongs to the
least set that is closed under need (`SurvivesForReason`). `GraphInv` says that the declarations are well formed and what
Compile answered it answered of them.

Recording. The surviving uses of a resource form a chain, each in a later pass than the
one before, and the compiled barriers lie on it. `Tracked` says how far the recorder is: every image whose layout
the compiler knows is in the one that its last recorded use on the chain left (`ImagesAgree`), no transition
of such an image started from another one
(`Truthful`), and the command buffer holds the barriers of a pass before the pass, in the order of the
passes (`Logged`). Which images these are says `Known`, of the uses on the chain: those declared `UNDEFINED` or
where they are, and those that the first use on the chain uploads (`FilledFirst`). An upload ends where
the compiler expects the use to be (`UploadIsUse`), and starts from the tracked layout, so it is truthful for every image (`UploadsHarmless`).
A call that fails half-way leaves a prefix of the barriers of its pass, or of its uploads, and
ends the frame. `Sequencing` says what may have happened at each point of the scene's frame, and
`ImagesUsedAsImages` that images are declared with accesses that have a layout.

### VulkanFrameProofs

For every number of frame contexts, images, frames, window events, resizes and uploads:
`PoolIdle`, `ImageAcquired` and `TypeCorrect`. `StagingOutlivesUse` has a
hypothesis, `FirstFrameUploads`: uploads are made in the first frame only, and no more of them than
the deferred list holds. The milestone scene satisfies it (it uploads before its
first Present, far fewer than 4096 buffers), and without it the property is false (see `NoDestroyInUse` under Runs).

`IInv` says which context may be in the queue in each phase (`ContextIdle`: the one about to be begun
is not, once its fence was waited for; `RecordingIdle`: neither is the one being recorded), that a context has at most one
submission in the queue, that timeline values and counters are ordered (`QueueValues`, `Bounds`), how
the swapchain, the acquired image and the wrapper of the back buffer change together
(`ImageTracked`) and when a fence may be unsignalled (`FenceReset`). For the staging buffers, `StagingKept`
follows a buffer of the first frame from the upload to its destruction by the context that has the matching timeline.

### ClientSessionProofs

For every number of attempts, payload limit, size of the receive buffer, number of messages and
number of deviations of the server: `SessionAgreed`, `StreamInSync` and
`VectorsStay`.

The proof is about `Rest`, what the client has not decoded yet (the decoder's buffer and the
bytes on the wire): it is `Whole`, a sequence of whole frames, which `recv` does not change and a pop
shortens by its first frame (`PopFacts`); the frames are `Numbered` without a gap up to
what the server has sent; and they are `Chained`, each encrypted under the vector that the one before
it left. Each of these is preserved by putting a frame at the end and by
dropping the first (`WholePut`, `WholeDrop` and so on). Every step of the specification is then shown
to be one of nine kinds (`Steps`), and every kind to keep the invariant.

The counts of messages sent before each line of the handshake (`ServerSent`, `ClientSent`) tie the lines of the two ends together
(`Turns`): an end that is to send has received all that was sent to it, so ciphertexts
cannot cross before the session has begun (`TurnFacts`). A server that deviated has left a message of
another shape among its first five (`Deviations`); the client accepts none of that shape, so it
cannot reach the sixth. `Joined` is why the vectors agree: one chain leads from the vector of
one end to that of the other, through the frames not decoded or through the messages on the way to the server, never both.

### Only model-checked

* Liveness (`CloseEnds`, `BlockedCallsReturn`, `ExchangeStops`, `DrainTerminates`, `PresentReturns`,
  `ConnectEnds`, `ProgramEnds`): fairness and `ENABLED` are out of the prover's reach.
* `Marshal` and `MachoNet`: values are trees and the codec is a RECURSIVE operator. Modules with such
  operators are out of the prover's reach, and induction over trees needs an induction theorem with an operator as its
  parameter, which the installed provers cannot instantiate.
* `VulkanDevice` (`NoLeak`, `ParentsOutlive`, `DestroyedIdle`, `ReadAfterCopy`): the state is the list of
  calls still to be made. An inductive invariant has to say of every suffix of every such list what holds
  before it; this has not been attempted.

## Plan

Modelled: slot pool, channel, exchange, supervisor; render graph and recorder; frame
loop, device and resources; client session, codec and packets; ECS world, scratch
allocator, thread budget and the programs that drive them.

Proved: the safety properties of the pool, the channel, the exchange, the supervisor, the ticks and merges, the
arenas, the thread budget, the render graph and its recorder, the frame loop and the client session.

Left: proofs about `VulkanDevice`, beginning with `ParentsOutlive`; and for the codec, a formulation without
RECURSIVE operators, for instance over streams of tokens, about which bounded induction can speak.

## Not modelled

* Payload bytes, logging, formatting and thread-name plumbing.
* A lease moved to another thread (the pool would terminate the process; no user does it).
* The constructor of `FrameExchange` failing to start its second thread.
* The contents of draw calls and descriptors: `VulkanDevice` keeps which objects a frame refers to.
  `GetPipeline` compares the program with a copy of itself and so never notices a
  change; the scene has one program.
* The additional swapchain class and the fence class (`Tr2SwapChainALVulkan`,
  `Tr2FenceALVulkan`), which no program uses, and the choice of adapter, format and present mode.
* Device loss in mid-frame: no call of the code handles it other than by returning an error.
* Compressed (zlib) frames, which the code does not implement.
* A start of the Carbon host that throws: Blue and Python are external.
* In `VulkanFrame`, what the scene does after a Vulkan call has failed: it would record into a
  command buffer that is not recording, which Vulkan leaves undefined. `VulkanDevice`
  follows the scene to its end.
* Taskflow, the C++ condition variables and the operating system: external, modelled by
  what the code relies on.
* Vendored code, shaders, the stage programs' measurements and reports, and the smoke and benchmark programs,
  which test the components above.
