---------------------------- MODULE VulkanDevice ----------------------------
(***************************************************************************)
(* The life of every Vulkan object of the milestone scene                  *)
(* (stage5_milestone_scene.cpp): main creates the device, RunScene creates *)
(* its resources, draws, reads the first frame back, resizes and recovers  *)
(* from a lost surface, and main destroys what is left.  VulkanFrame looks *)
(* at the same frame loop for its synchronisation; here the subject is     *)
(* which object exists, who holds its handle and what happens to it when   *)
(* any of the calls fails.                                                 *)
(*                                                                         *)
(* A function of the backend is the sequence of calls it makes.  todo      *)
(* holds the calls still to be made: a step takes the first one.  A call   *)
(* that fails returns through its callers, so what follows is dropped up   *)
(* to the next "caller", the place in a function under way that looks at   *)
(* the result.                                                             *)
(*                                                                         *)
(* A handle variable is a pair <<name, index>>; there is one for each      *)
(* member that can own an object (one drawable stands for the scene's      *)
(* three).  0 is VK_NULL_HANDLE.  An object is the variable it was made    *)
(* for and a number.  A call that is given a null handle fails.            *)
(***************************************************************************)
EXTENDS Integers, Sequences, FiniteSets, SequencesExt

CONSTANTS
    FrameContexts,  \* VULKAN_FRAME_CONTEXT_COUNT (2)
    ImageCount,     \* images of a swapchain
    MaxFrames,      \* bound: FRAME_COUNT, the turns of the scene's loop
    ResizeFrame     \* the turn after which the scene resizes (20)

ASSUME DeviceAssumption ==
    /\ FrameContexts \in Nat \ {0} /\ ImageCount \in Nat \ {0}
    /\ MaxFrames \in Nat /\ ResizeFrame \in Nat

VARIABLES
    todo,          \* the calls still to be made
    failed,        \* is the first of them a caller that sees a failure?
    handle,        \* the object each handle variable holds, or 0
    live,          \* the objects that exist
    oldSwapchain,  \* the local of RecreateSwapchain
    deferred,      \* m_deferred: [object, value]
    suspended,     \* state.swapchain.suspended
    surfaceLost,   \* is surfaceLossReason set?
    frameIndex,    \* state.frameIndex
    image,         \* state.swapchain.currentImageIndex
    lastImage,     \* state.lastPresentedImageIndex
    fence,         \* inFlightFence of a frame context: is it signalled?
    timeline,      \* timelineValue of a frame context
    completed,     \* counter of its timeline semaphore
    recording,     \* is the current command buffer recording?
    uses,          \* the objects it refers to so far
    backBuffer,    \* is m_defaultBackBuffer valid?
    bound,         \* does the render context hold copies of the scene's resources?
    frame,         \* turns of the scene's loop
    copied,        \* what became of the readback copy of the first turn
    newFormat,     \* is the swapchain younger than the cached pipeline, its format perhaps another?
    queue,         \* environment: submissions the GPU has not completed
    recreateFailed, gaveUp  \* history: a failed RecreateSwapchain, a return in mid-frame

objectVars == <<handle, live, oldSwapchain, deferred>>
swapVars == <<suspended, surfaceLost, image, lastImage, backBuffer>>
frameVars == <<frameIndex, fence, timeline, completed, recording, uses, queue>>
sceneVars == <<bound, frame, copied>>
history == <<newFormat, recreateFailed, gaveUp>>
vars == <<todo, failed, objectVars, swapVars, frameVars, sceneVars, history>>

-----------------------------------------------------------------------------
(* Handle variables and what their objects are made from. *)

One(name) == <<name, 0>>
Contexts == 0 .. FrameContexts - 1
Views == [i \in 1 .. ImageCount |-> <<"imageView", i>>]

ContextMembers == <<"commandPool", "descriptorPool", "acquireSemaphore",
                    "renderFinishedSemaphore", "timelineSemaphore", "inFlightFence">>

Allocations == {"depthImage", "buffer", "textureImage", "constants", "staging", "readback"}

Handles ==
    ToSet(Views) \cup (ToSet(ContextMembers) \X Contexts)
        \cup {One(n) : n \in Allocations \cup
                {"instance", "debugMessenger", "surface", "device", "allocator", "swapchain",
                 "pipelineCache", "timestamps", "depthView", "frameTimer", "vertexShader",
                 "pixelShader", "setLayout", "pipelineLayout", "pipeline", "linearView",
                 "srgbView", "sampler", "descriptorSet"}}

\* The handles passed to the call that creates an object.  The descriptor set is
\* allocated before the first Present, from the pool of the first frame context.
ParentsOf(h) ==
    CASE h[1] = "instance" -> {}
      [] h[1] \in {"debugMessenger", "surface", "device"} -> {One("instance")}
      [] h[1] = "swapchain" -> {One("device"), One("surface")}
      [] h[1] = "imageView" -> {One("device"), One("swapchain")}
      [] h[1] = "depthView" -> {One("device"), One("depthImage")}
      [] h[1] \in {"linearView", "srgbView"} -> {One("device"), One("textureImage")}
      [] h[1] \in Allocations -> {One("allocator")}
      [] h[1] = "descriptorSet" -> {<<"descriptorPool", 0>>}
      [] OTHER -> {One("device")}

Object(h, id) == [of |-> h, id |-> id]
Held(h) == Object(h, handle[h])
Null(h) == handle[h] = 0
NewId(h) == CHOOSE id \in 1 .. 4 : Object(h, id) \notin live /\ \A i \in 1 .. id - 1 : Object(h, i) \in live

-----------------------------------------------------------------------------
(* Calls, and the functions of the backend as sequences of calls. *)

Call(what, h) == [do |-> what, of |-> h]
Create(name) == Call("create", One(name))
Attempt(name) == Call("attempt", One(name))  \* a failure is ignored
Destroy(name) == Call("destroy", One(name))
Step(what) == Call(what, One("none"))

\* Calls that fail without having changed anything (enumerations, queries, checks).
Query == Step("query")

DestroyAll(handles) == [i \in 1 .. Len(handles) |-> Call("destroy", handles[i])]

CreateInstance == <<Query, Create("instance"), Attempt("debugMessenger")>>

CreateDepthResources == <<Create("depthImage"), Create("depthView")>>
DestroyDepthResources == <<Destroy("depthView"), Destroy("depthImage")>>

\* CreateSwapchainInternal once the surface is known to have an extent.
BuildSwapchain ==
    <<Create("swapchain"), Query>> \o [i \in 1 .. ImageCount |-> Call("create", Views[i])]
        \o CreateDepthResources

CreateSwapchainInternal == <<Step("extent")>>

\* RecreateSwapchain after its wait; the caller of CreateSwapchainInternal is its end.
RecreateCalls ==
    DestroyDepthResources \o DestroyAll(Views) \o CreateSwapchainInternal \o <<Step("recreated")>>

DestroySwapchain == DestroyDepthResources \o DestroyAll(Views) \o <<Destroy("swapchain")>>

CreateSurface == <<Create("surface")>>
PickPhysicalDevice == <<Query>>

RecreateSurface ==
    <<Step("consumeLoss"), Step("waitIdle")>> \o DestroySwapchain \o <<Destroy("surface")>>
        \o CreateSurface \o PickPhysicalDevice \o <<Step("recreateSwapchain")>>

\* The command buffer is allocated right after its pool.
CreateFrameContext(f) ==
    <<Call("create", <<"commandPool", f>>), Query>>
        \o [i \in 1 .. 5 |-> Call("create", <<ContextMembers[i + 1], f>>)]

CreateFrameContexts == FlattenSeq([i \in 1 .. FrameContexts |-> CreateFrameContext(i - 1)])

DestroyFrameContexts ==
    FlattenSeq([i \in 1 .. FrameContexts |->
        [j \in 1 .. 6 |-> Call("destroy", <<Reverse(ContextMembers)[j], i - 1>>)]])

CreateLogicalDevice == <<Query, Create("device")>>

CreateDevice ==
    CreateSurface \o PickPhysicalDevice \o CreateLogicalDevice
        \o <<Create("allocator"), Create("pipelineCache"), Create("timestamps")>>
        \o CreateSwapchainInternal \o CreateFrameContexts

DestroyDevice ==
    <<Destroy("timestamps"), Destroy("pipelineCache"), Destroy("allocator"), Destroy("device")>>

DestroyInstance == <<Destroy("debugMessenger"), Destroy("surface"), Destroy("instance")>>

ContextDestroy_Mutant ==
    <<Step("waitIdle"), Step("drainAll")>> \o DestroyFrameContexts \o DestroyDevice
        \o DestroySwapchain \o DestroyInstance

\* VulkanContext::Destroy, and its destructor.
ContextDestroy ==
    <<Step("waitIdle"), Step("drainAll")>> \o DestroyFrameContexts \o DestroySwapchain
        \o DestroyDevice \o DestroyInstance

BeginFrame == <<Step("beginFrame"), Step("waitFence"), Step("resume"), Call("acquire", <<"acquire", 1>>)>>

\* Tr2RenderContextAL::CreateDevice destroys a previous device first.
RenderContextCreateDevice ==
    ContextDestroy \o CreateInstance \o CreateDevice \o <<Attempt("frameTimer")>>
        \o BeginFrame \o <<Step("attach")>>

\* Tr2RenderContextAL::Present once the back buffer is in its present layout.
PresentCalls ==
    <<Step("endFrame"), Step("queuePresent")>> \o BeginFrame
        \o <<Step("attach"), Step("presented")>>

SetPresentParameters == <<Step("recreateSwapchain"), Step("detach")>>

-----------------------------------------------------------------------------
(* The resources of the scene. *)

CreateShader(stage) == <<Create(stage)>>
CreateShaderProgram == <<Create("setLayout"), Create("pipelineLayout")>>
CreateProgram == CreateShader("vertexShader") \o CreateShader("pixelShader") \o CreateShaderProgram
CreateVertexLayout == <<Query>>
CreateBuffer == <<Create("buffer")>>
CreateViews == <<Create("linearView"), Create("srgbView")>>
CreateTexture == <<Create("textureImage")>> \o CreateViews
CreateSampler == <<Create("sampler")>>
CreateResourceSet == <<Create("descriptorSet")>>
CreateConstants == <<Create("constants")>>

CreateResources ==
    CreateProgram \o CreateVertexLayout \o CreateBuffer \o CreateTexture
        \o CreateSampler \o CreateResourceSet \o CreateConstants

DestroyTexture == <<Destroy("srgbView"), Destroy("linearView"), Destroy("textureImage")>>
DestroyProgram == <<Destroy("pipelineLayout"), Destroy("setLayout")>>
DestroyVertexLayout == <<Destroy("pipeline")>>

\* The locals of RunScene, last one first.  What the render context also holds stays.
DestroyLocals(shared) ==
    LET unlessShared(s) == IF shared THEN <<>> ELSE s
    IN  <<Destroy("constants")>> \o unlessShared(<<Destroy("descriptorSet")>>)
          \o <<Destroy("sampler")>> \o DestroyTexture
          \o unlessShared(<<Destroy("buffer")>> \o DestroyVertexLayout)
          \o <<Destroy("pixelShader"), Destroy("vertexShader")>>
          \o unlessShared(DestroyProgram)

\* DestroyDeviceResources destroys every resource that is still registered: the
\* copies of the render context, its timer and its back buffer texture.
DestroyDeviceResources ==
    <<Destroy("descriptorSet"), Destroy("buffer")>> \o DestroyVertexLayout \o DestroyProgram
        \o <<Destroy("frameTimer"), Destroy("readback")>>

\* The staging copy of UpdateSubresource and UpdateBuffer.
Upload == <<Call("require", One("staging")), Step("retire")>>

MapForReading == <<Create("readback"), Step("copy"), Step("map")>>

WaitForFrameCompletion_Mutant == <<>>
WaitForFrameCompletion == <<Step("waitFrame")>>

UnmapForReading == <<Destroy("readback")>>

VerifyPixels == <<Query>>

ReadBack ==
    WaitForFrameCompletion \o <<Step("read")>> \o UnmapForReading \o VerifyPixels

\* A turn that records; the constants are locked first.
Turn(k) ==
    LET first(s) == IF k = 0 THEN s ELSE <<>>
    IN  <<Step("lock")>> \o first(Upload \o Upload) \o <<Step("draw"), Step("record")>>
          \o first(<<Step("attachLast")>> \o MapForReading) \o <<Step("present")>> \o first(ReadBack)
          \o IF k = ResizeFrame THEN SetPresentParameters ELSE <<>>

RunScene == RenderContextCreateDevice \o CreateResources \o <<Step("loop")>>

Main == RunScene \o <<Step("sceneReturns")>>
MainEnd == DestroyDeviceResources \o ContextDestroy

Init ==
    /\ todo = Main /\ failed = FALSE
    /\ handle = [h \in Handles |-> 0] /\ live = {} /\ oldSwapchain = 0 /\ deferred = {}
    /\ suspended = FALSE /\ surfaceLost = FALSE /\ image = 1 /\ lastImage = 1 /\ backBuffer = FALSE
    /\ frameIndex = 0 /\ fence = [f \in Contexts |-> TRUE]
    /\ timeline = [f \in Contexts |-> 0] /\ completed = [f \in Contexts |-> 0]
    /\ recording = FALSE /\ uses = {} /\ queue = <<>>
    /\ bound = FALSE /\ frame = 0 /\ copied = "no"
    /\ newFormat = FALSE /\ recreateFailed = FALSE /\ gaveUp = FALSE

-----------------------------------------------------------------------------
(* Steps common to all calls. *)

At(what) == todo # <<>> /\ ~failed /\ todo[1].do = what
Handle == todo[1].of
Then(calls) == todo' = calls \o Tail(todo) /\ failed' = FALSE
Continue == Then(<<>>)

Callers == {"recreated", "presented", "sceneReturns"}

\* An error result drops the calls up to the next caller that looks at it.
Fail(calls) ==
    LET c == SelectInSeq(calls, LAMBDA s : s.do \in Callers)
    IN  todo' = SubSeq(calls, c, Len(calls)) /\ failed' = TRUE

\* A new swapchain starts at its first image.
CreateSucceeds ==
    /\ todo # <<>> /\ ~failed /\ todo[1].do \in {"create", "attempt", "require"}
    /\ \A p \in ParentsOf(Handle) : ~Null(p)
    /\ handle' = [handle EXCEPT ![Handle] = NewId(Handle)]
    /\ live' = live \cup {Object(Handle, NewId(Handle))}
    /\ image' = IF Handle = One("swapchain") THEN 1 ELSE image
    /\ newFormat' = (newFormat \/ Handle = One("swapchain"))
    /\ Continue
    /\ UNCHANGED <<oldSwapchain, deferred, suspended, surfaceLost, lastImage, backBuffer>>
    /\ UNCHANGED <<frameVars, sceneVars, recreateFailed, gaveUp>>

\* The contents of the output handle are then undefined: as before, or null.
CreateFails ==
    /\ At("create") /\ Fail(Tail(todo))
    /\ handle' \in {handle, [handle EXCEPT ![Handle] = 0]}
    /\ UNCHANGED <<live, oldSwapchain, deferred, swapVars, frameVars, sceneVars, history>>

AttemptFails ==
    /\ At("attempt") /\ Continue
    /\ UNCHANGED <<objectVars, swapVars, frameVars, sceneVars, history>>

QuerySucceeds ==
    /\ At("query") /\ Continue
    /\ UNCHANGED <<objectVars, swapVars, frameVars, sceneVars, history>>

QueryFails ==
    /\ At("query") /\ Fail(Tail(todo))
    /\ UNCHANGED <<objectVars, swapVars, frameVars, sceneVars, history>>

\* Every Destroy tests its handle and clears it; those of null handles do nothing.
DestroyHandle ==
    LET acts(c) == c.do # "destroy" \/ ~Null(c.of)
        first == SelectInSeq(todo \o <<Step("end")>>, acts)
        rest == SubSeq(todo, first, Len(todo))
    IN  /\ At("destroy")
        /\ IF rest = <<>> \/ rest[1].do # "destroy"
           THEN todo' = rest /\ UNCHANGED <<handle, live>>
           ELSE /\ todo' = Tail(rest)
                /\ live' = live \ {Held(rest[1].of)}
                /\ handle' = [handle EXCEPT ![rest[1].of] = 0]
        /\ UNCHANGED <<failed, oldSwapchain, deferred, swapVars, frameVars, sceneVars, history>>

Idle == ~Null(One("device")) => queue = <<>>

WaitIdle ==
    /\ At("waitIdle") /\ Idle /\ Continue
    /\ UNCHANGED <<objectVars, swapVars, frameVars, sceneVars, history>>

\* DrainDeferred for the entries up to a value.
Drain(entries) ==
    /\ deferred' = deferred \ entries
    /\ live' = live \ {e.object : e \in entries}

DrainAll ==
    /\ At("drainAll") /\ Drain(deferred) /\ Continue
    /\ UNCHANGED <<handle, oldSwapchain, swapVars, frameVars, sceneVars, history>>

-----------------------------------------------------------------------------
(* The swapchain. *)

EnterRecreate ==
    /\ At("recreateSwapchain")
    /\ oldSwapchain' = handle[One("swapchain")]
    /\ Then(RecreateCalls)
    /\ UNCHANGED <<handle, live, deferred, swapVars, frameVars, sceneVars, history>>

RecreateSwapchain_Mutant == EnterRecreate
RecreateSwapchain == Idle /\ EnterRecreate

\* A minimized window has no extent: the old swapchain goes and none takes its place.
SuspendSwapchain ==
    /\ At("extent") /\ ~Null(One("surface")) /\ Continue
    /\ suspended' = TRUE
    /\ live' = live \ {Object(One("swapchain"), oldSwapchain)}
    /\ handle' = [handle EXCEPT ![One("swapchain")] = 0]
    /\ UNCHANGED <<oldSwapchain, deferred, surfaceLost, image, lastImage, backBuffer>>
    /\ UNCHANGED <<frameVars, sceneVars, history>>

QuerySurfaceFails ==
    /\ At("extent") /\ Fail(Tail(todo))
    /\ UNCHANGED <<objectVars, swapVars, frameVars, sceneVars, history>>

ExtentKnown ==
    /\ At("extent") /\ ~Null(One("surface")) /\ Then(BuildSwapchain)
    /\ suspended' = FALSE
    /\ UNCHANGED <<objectVars, surfaceLost, image, lastImage, backBuffer>>
    /\ UNCHANGED <<frameVars, sceneVars, history>>

SwapchainRecreated_Mutant ==
    /\ At("recreated") /\ Continue
    /\ oldSwapchain' = 0
    /\ UNCHANGED <<handle, live, deferred, swapVars, frameVars, sceneVars, history>>

SwapchainRecreated ==
    /\ At("recreated") /\ Continue
    /\ live' = IF handle[One("swapchain")] \notin {0, oldSwapchain}
               THEN live \ {Object(One("swapchain"), oldSwapchain)} ELSE live
    /\ oldSwapchain' = 0
    /\ UNCHANGED <<handle, deferred, swapVars, frameVars, sceneVars, history>>

\* The failure goes on to the caller, and the handle is cleared whatever it holds.
RecreateFailed ==
    /\ failed /\ todo[1].do = "recreated" /\ Fail(Tail(todo))
    /\ live' = IF handle[One("swapchain")] # oldSwapchain
               THEN live \ {Object(One("swapchain"), oldSwapchain)} ELSE live
    /\ handle' = [handle EXCEPT ![One("swapchain")] = 0]
    /\ oldSwapchain' = 0 /\ recreateFailed' = TRUE
    /\ UNCHANGED <<deferred, swapVars, frameVars, sceneVars, newFormat, gaveUp>>

ConsumeLoss ==
    /\ At("consumeLoss") /\ Continue
    /\ surfaceLost' = FALSE
    /\ UNCHANGED <<objectVars, suspended, image, lastImage, backBuffer, frameVars, sceneVars, history>>

-----------------------------------------------------------------------------
(* Presenting a frame and beginning the next. *)

Current == ToSet([i \in 1 .. 6 |-> Held(<<ContextMembers[i], frameIndex>>)])

\* Without a valid back buffer Present returns an error, which the scene ignores.
Present ==
    /\ At("present")
    /\ Then(IF suspended \/ backBuffer THEN PresentCalls ELSE <<>>)
    /\ UNCHANGED <<objectVars, swapVars, frameVars, sceneVars, history>>

EndFrameSuspended ==
    /\ At("endFrame") /\ suspended /\ Continue
    /\ recording' = FALSE /\ uses' = {}
    /\ copied' = IF copied = "recorded" THEN "discarded" ELSE copied
    /\ UNCHANGED <<frameIndex, fence, timeline, completed, queue>>
    /\ UNCHANGED <<objectVars, swapVars, bound, frame, history>>

\* The value is counted before the submission.
EndFrame ==
    /\ At("endFrame") /\ ~suspended /\ recording /\ Continue
    /\ timeline' = [timeline EXCEPT ![frameIndex] = @ + 1]
    /\ queue' = Append(queue, [context |-> frameIndex, value |-> timeline'[frameIndex],
                               uses |-> uses \cup Current, copies |-> copied = "recorded"])
    /\ recording' = FALSE /\ uses' = {}
    /\ copied' = IF copied = "recorded" THEN "submitted" ELSE copied
    /\ UNCHANGED <<frameIndex, fence, completed, objectVars, swapVars, bound, frame, history>>

EndFrameFails ==
    /\ At("endFrame") /\ Fail(Tail(todo))
    /\ timeline' \in {timeline} \cup
          (IF suspended THEN {} ELSE {[timeline EXCEPT ![frameIndex] = @ + 1]})
    /\ recording' = FALSE /\ uses' = {}
    /\ copied' = IF copied = "recorded" THEN "discarded" ELSE copied
    /\ UNCHANGED <<frameIndex, fence, completed, queue, objectVars, swapVars, bound, frame, history>>

NextContext == frameIndex' = (frameIndex + 1) % FrameContexts

\* An outdated swapchain is left to the next acquire, a lost surface to the next frame.
QueuePresent ==
    /\ At("queuePresent") /\ Continue
    /\ suspended \/ ~Null(One("swapchain"))
    /\ lastImage' = IF suspended THEN lastImage ELSE image
    /\ surfaceLost' \in IF suspended THEN {surfaceLost} ELSE {surfaceLost, TRUE}
    /\ NextContext
    /\ UNCHANGED <<suspended, image, backBuffer, fence, timeline, completed, recording, uses, queue>>
    /\ UNCHANGED <<objectVars, sceneVars, history>>

QueuePresentFails ==
    /\ At("queuePresent") /\ ~suspended /\ Fail(Tail(todo))
    /\ lastImage' = image
    /\ UNCHANGED <<suspended, surfaceLost, image, backBuffer, objectVars, frameVars, sceneVars, history>>

BeginFrameRecovers ==
    /\ At("beginFrame")
    /\ Then(IF surfaceLost /\ ~Null(One("swapchain")) THEN RecreateSurface ELSE <<>>)
    /\ UNCHANGED <<objectVars, swapVars, frameVars, sceneVars, history>>

\* The wait for the fence has no timeout; then DrainDeferred runs for this context's counter.
WaitForFence ==
    /\ At("waitFence") /\ fence[frameIndex] /\ Continue
    /\ Drain({e \in deferred : e.value <= completed[frameIndex]})
    /\ UNCHANGED <<handle, oldSwapchain, swapVars, frameVars, sceneVars, history>>

WaitForFenceFails ==
    /\ At("waitFence") /\ Fail(Tail(todo))
    /\ UNCHANGED <<objectVars, swapVars, frameVars, sceneVars, history>>

\* While suspended the surface is looked at again: still no extent, lost, or back.
Resume ==
    /\ At("resume")
    /\ \E calls \in IF suspended THEN {<<>>, RecreateSurface, <<Step("recreateSwapchain")>>} ELSE {<<>>} :
          Then(calls)
    /\ UNCHANGED <<objectVars, swapVars, frameVars, sceneVars, history>>

AcquireSkipped ==
    /\ At("acquire") /\ suspended /\ Continue
    /\ recording' \in BOOLEAN /\ uses' = {}
    /\ UNCHANGED <<frameIndex, fence, timeline, completed, queue, objectVars, swapVars, sceneVars, history>>

AcquireNextImage ==
    /\ At("acquire") /\ ~suspended /\ ~Null(One("swapchain")) /\ Continue
    /\ image' \in 1 .. ImageCount
    /\ fence' = [fence EXCEPT ![frameIndex] = FALSE]
    /\ recording' = TRUE /\ uses' = {}
    /\ UNCHANGED <<frameIndex, timeline, completed, queue, suspended, surfaceLost, lastImage, backBuffer>>
    /\ UNCHANGED <<objectVars, sceneVars, history>>

\* The first acquire may find the swapchain outdated, the first two the surface lost.
AcquireAgain ==
    /\ At("acquire") /\ ~suspended /\ ~Null(One("swapchain"))
    /\ \/ Handle[2] = 1
          /\ Then(<<Step("recreateSwapchain"), Call("acquire", <<"acquire", 2>>)>>)
       \/ Handle[2] \in {1, 2}
          /\ Then(RecreateSurface \o <<Call("acquire", <<"acquire", 3>>)>>)
    /\ UNCHANGED <<objectVars, swapVars, frameVars, sceneVars, history>>

\* Also a call that fails after the acquire, before the command buffer is recording.
AcquireFails ==
    /\ At("acquire") /\ Fail(Tail(todo))
    /\ suspended => Handle[2] = 1
    /\ fence' \in IF suspended THEN {fence} ELSE {fence, [fence EXCEPT ![frameIndex] = FALSE]}
    /\ recording' = FALSE /\ uses' = {}
    /\ UNCHANGED <<frameIndex, timeline, completed, queue, objectVars, swapVars, sceneVars, history>>

\* CreateBackBufferTexture.
AttachBackBuffer ==
    /\ At("attach") /\ Continue
    /\ backBuffer' = (backBuffer \/ ~suspended)
    /\ UNCHANGED <<suspended, surfaceLost, image, lastImage, objectVars, frameVars, sceneVars, history>>

\* DestroyBackBufferTexture drops the texture with the readback buffer it may hold.
DetachBackBuffer ==
    /\ At("detach") /\ Then(UnmapForReading)
    /\ backBuffer' = FALSE
    /\ UNCHANGED <<suspended, surfaceLost, image, lastImage, objectVars, frameVars, sceneVars, history>>

PresentReturns ==
    /\ todo # <<>> /\ todo[1].do = "presented" /\ Continue
    /\ UNCHANGED <<objectVars, swapVars, frameVars, sceneVars, history>>

-----------------------------------------------------------------------------
(* The scene. *)

LoopTurn ==
    /\ At("loop") /\ frame < MaxFrames
    /\ frame' = frame + 1
    /\ todo' = (IF suspended \/ ~backBuffer THEN <<Step("present")>> ELSE Turn(frame)) \o todo
    /\ UNCHANGED <<failed, objectVars, swapVars, frameVars, bound, copied, history>>

\* After the last turn the scene tries the recovery of a lost surface.
LoopEnds ==
    /\ At("loop") /\ frame = MaxFrames /\ Then(RecreateSurface)
    /\ UNCHANGED <<objectVars, swapVars, frameVars, sceneVars, history>>

LockConstants ==
    /\ At("lock") /\ Continue
    /\ UNCHANGED <<objectVars, swapVars, frameVars, sceneVars, history>>

\* RunScene returns at once, whatever the GPU still executes.
LockFails ==
    /\ At("lock") /\ Fail(Tail(todo))
    /\ gaveUp' = TRUE
    /\ UNCHANGED <<objectVars, swapVars, frameVars, sceneVars, newFormat, recreateFailed>>

\* RequireGraph ends the process.
RequireGraphFails ==
    /\ At("require") \/ At("record")
    /\ todo' = <<>> /\ failed' = FALSE
    /\ UNCHANGED <<objectVars, swapVars, frameVars, sceneVars, history>>

RetireValue == timeline[frameIndex] + 1

\* The copy is recorded and the staging buffer handed to m_deferred.
Retire ==
    /\ At("retire") /\ Continue
    /\ uses' = uses \cup {Held(One("staging"))}
    /\ deferred' = deferred \cup {[object |-> Held(One("staging")), value |-> RetireValue]}
    /\ handle' = [handle EXCEPT ![One("staging")] = 0]
    /\ UNCHANGED <<live, oldSwapchain, frameIndex, fence, timeline, completed, recording, queue>>
    /\ UNCHANGED <<swapVars, sceneVars, history>>

\* GetPipeline makes a new pipeline when the swapchain's format is another one.
Draw ==
    /\ At("draw")
    /\ \E changed \in {Null(One("pipeline")), Null(One("pipeline")) \/ newFormat} :
          Then(IF changed THEN <<Destroy("pipeline"), Attempt("pipeline")>> ELSE <<>>)
    /\ bound' = TRUE /\ newFormat' = FALSE
    /\ UNCHANGED <<objectVars, swapVars, frameVars, frame, copied, recreateFailed, gaveUp>>

DrawHandles ==
    {One(n) : n \in {"pipeline", "pipelineLayout", "descriptorSet", "buffer", "textureImage",
                     "linearView", "sampler", "constants", "depthImage", "depthView", "swapchain"}}
        \cup {Views[image]}

\* The passes of the graph, drawn into the back buffer.
Record ==
    /\ At("record") /\ Continue
    /\ uses' = uses \cup {Held(h) : h \in {d \in DrawHandles : handle[d] # 0}}
    /\ UNCHANGED <<frameIndex, fence, timeline, completed, recording, queue>>
    /\ UNCHANGED <<objectVars, swapVars, sceneVars, history>>

\* The wrapper now stands for the image presented last, and the copy reads that one.
AttachLastPresentedImage ==
    /\ At("attachLast") /\ ~suspended /\ Continue
    /\ UNCHANGED <<objectVars, swapVars, frameVars, sceneVars, history>>

RecordCopy ==
    /\ At("copy") /\ Continue
    /\ uses' = uses \cup {Held(One("readback"))}
    /\ copied' = "recorded"
    /\ UNCHANGED <<frameIndex, fence, timeline, completed, recording, queue>>
    /\ UNCHANGED <<objectVars, swapVars, bound, frame, history>>

MapMemory ==
    /\ At("map") /\ Continue
    /\ UNCHANGED <<objectVars, swapVars, frameVars, sceneVars, history>>

\* The buffer is destroyed although the command buffer refers to it; the scene returns.
MapFails ==
    /\ At("map") /\ Fail(Tail(todo))
    /\ live' = live \ {Object(One("readback"), handle[One("readback")])}
    /\ handle' = [handle EXCEPT ![One("readback")] = 0]
    /\ UNCHANGED <<oldSwapchain, deferred, swapVars, frameVars, sceneVars, history>>

WaitFrame ==
    /\ At("waitFrame") /\ Idle /\ Continue
    /\ UNCHANGED <<objectVars, swapVars, frameVars, sceneVars, history>>

\* A device that cannot be waited for is lost and executes nothing more.
WaitFrameFails ==
    /\ At("waitFrame") /\ Fail(Tail(todo))
    /\ queue' = <<>>
    /\ UNCHANGED <<frameIndex, fence, timeline, completed, recording, uses>>
    /\ UNCHANGED <<objectVars, swapVars, sceneVars, history>>

ReadPixels ==
    /\ At("read") /\ Continue
    /\ UNCHANGED <<objectVars, swapVars, frameVars, sceneVars, history>>

\* RunScene returns, with an error or without: its locals go, then main cleans up.
SceneReturns ==
    /\ todo # <<>> /\ todo[1].do = "sceneReturns"
    /\ Then(DestroyLocals(bound) \o MainEnd)
    /\ UNCHANGED <<objectVars, swapVars, frameVars, sceneVars, history>>

\* The GPU completes submissions in order.
GpuCompletes ==
    /\ queue # <<>>
    /\ LET done == Head(queue)
       IN  /\ completed' = [completed EXCEPT ![done.context] = done.value]
           /\ fence' = [fence EXCEPT ![done.context] = TRUE]
           /\ copied' = IF done.copies THEN "executed" ELSE copied
    /\ queue' = Tail(queue)
    /\ UNCHANGED <<todo, failed, frameIndex, timeline, recording, uses>>
    /\ UNCHANGED <<objectVars, swapVars, bound, frame, history>>

CommonStep ==
    \/ CreateSucceeds \/ CreateFails \/ AttemptFails \/ QuerySucceeds \/ QueryFails
    \/ DestroyHandle \/ WaitIdle \/ DrainAll

SwapchainStep ==
    \/ RecreateSwapchain \/ SuspendSwapchain \/ QuerySurfaceFails \/ ExtentKnown
    \/ SwapchainRecreated \/ RecreateFailed \/ ConsumeLoss

PresentStep ==
    \/ Present \/ EndFrameSuspended \/ EndFrame \/ EndFrameFails \/ QueuePresent
    \/ QueuePresentFails \/ BeginFrameRecovers \/ WaitForFence \/ WaitForFenceFails \/ Resume
    \/ AcquireSkipped \/ AcquireNextImage \/ AcquireAgain \/ AcquireFails
    \/ AttachBackBuffer \/ DetachBackBuffer \/ PresentReturns

SceneStep ==
    \/ LoopTurn \/ LoopEnds \/ LockConstants \/ LockFails \/ RequireGraphFails \/ Retire
    \/ Draw \/ Record \/ AttachLastPresentedImage \/ RecordCopy \/ MapMemory \/ MapFails
    \/ WaitFrame \/ WaitFrameFails \/ ReadPixels \/ SceneReturns

Next == CommonStep \/ SwapchainStep \/ PresentStep \/ SceneStep \/ GpuCompletes

Spec == Init /\ [][Next]_vars

-----------------------------------------------------------------------------
(* Properties. *)

\* An object nobody holds any more can never be destroyed.
IsOwned(o) ==
    \/ handle[o.of] = o.id
    \/ o = Object(One("swapchain"), oldSwapchain)
    \/ \E e \in deferred : e.object = o
Lost == {o \in live : ~IsOwned(o)}

\* Whatever call fails, every Vulkan object is held by a member, a local or
\* m_deferred until it is destroyed, so the clean-up of main reaches it; only a
\* failed RecreateSwapchain (which clears the handle without destroying what it
\* holds) may lose a swapchain.
NoLeak == Lost # {} => recreateFailed /\ \A o \in Lost : o.of = One("swapchain")

\* No object is destroyed before the objects made from it, in no order of failures,
\* recreations and destructors (a swapchain already lost aside).
ParentsOutlive ==
    LET names == {o.of : o \in live}
    IN  \A o \in live : IsOwned(o) => ParentsOf(o.of) \subseteq names

\* What an unfinished submission refers to exists: no destructor, no resize and no
\* recovery destroys an object the GPU uses.  RunScene does when it returns because
\* constants could not be locked.
DestroyedIdle == ~gaveUp => \A i \in 1 .. Len(queue) : queue[i].uses \subseteq live

\* The scene reads the pixels of its first frame only when the GPU has executed the
\* copy, unless the frame was never submitted.
ReadAfterCopy == At("read") => copied \in {"executed", "discarded"}

\* The copy of the first frame reads the image that frame acquired, the one it was
\* drawn into.  (Not met: AttachLastPresentedImage goes by the last presented index.)
ReadbackOfAcquired == At("attachLast") => lastImage = image
=============================================================================
