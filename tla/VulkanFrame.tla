---------------------------- MODULE VulkanFrame ----------------------------
(***************************************************************************)
(* The frame loop of the Vulkan backend (Tr2VulkanContext.cpp and          *)
(* Tr2RenderContextVulkan.cpp) as the milestone scene drives it.  The      *)
(* scene records a frame and calls Present, which transitions the back     *)
(* buffer, submits and presents the frame, begins the next one and         *)
(* attaches the image it acquired.  Frame contexts take turns; each has a  *)
(* command buffer, a fence, binary semaphores and a timeline.              *)
(*                                                                         *)
(* The GPU, the presentation engine and the window are the environment:    *)
(* submissions complete in order but at any time, presentations take their *)
(* semaphore at any time after that, and the window may be minimized or    *)
(* restored between any two steps.  A call that waits for the device       *)
(* (WaitIdle, vkWaitForFences) is a step enabled once it would return.     *)
(*                                                                         *)
(* The scene ignores what Present returns.  After a failed Vulkan call it  *)
(* would go on recording into a command buffer that is not recording,      *)
(* which is undefined; such runs end in phase "failed".                    *)
(***************************************************************************)
EXTENDS Integers, Sequences, FiniteSets

CONSTANTS
    FrameCount,       \* VULKAN_FRAME_CONTEXT_COUNT (2)
    ImageCount,       \* images of a swapchain
    MaxDeferred,      \* MAX_DEFERRED_ENTRIES (4096)
    UploadFrames,     \* frames in which the scene uploads (its first only)
    MaxFrames,        \* bound: frames of a run
    MaxUploads,       \* bound: uploads of a run
    MaxWindowEvents,  \* bound: times the window is minimized or restored
    MaxResizes        \* bound: calls of SetPresentParameters

ASSUME FrameAssumption ==
    /\ FrameCount \in Nat \ {0} /\ ImageCount \in Nat \ {0} /\ MaxDeferred \in Nat \ {0}
    /\ UploadFrames \subseteq Nat
    /\ MaxFrames \in Nat /\ MaxUploads \in Nat /\ MaxWindowEvents \in Nat /\ MaxResizes \in Nat

VARIABLES
    phase,        \* where the scene is: recording, or which step of Present
    attempt,      \* which acquire of this BeginFrame comes next
    frameIndex,   \* state.frameIndex
    frameNumber,  \* state.frameNumber
    fence,        \* inFlightFence of a frame context: is it signalled?
    timeline,     \* timelineValue of a frame context
    completed,    \* counter of the timeline semaphore of a frame context
    buffer,       \* the state of the command buffer of a frame context
    acquireSem,   \* acquireSemaphore of a frame context: signalled or about to be?
    references,   \* staging buffers the command buffer being recorded refers to
    suspended,    \* state.swapchain.suspended
    swapchain,    \* is there a swapchain?
    acquired,     \* is an image of this swapchain acquired?
    backBuffer,   \* what m_defaultBackBuffer wraps
    surfaceLost,  \* is surfaceLossReason set?
    deferred,     \* m_deferred: [id, value]
    destroyed,    \* staging buffers destroyed so far
    uploads,      \* staging buffers created so far
    queue,        \* environment: submissions the GPU has not completed
    presenting,   \* environment: presents that have not taken their semaphore yet
    minimized,    \* environment: the surface has a zero extent
    events,       \* environment: window events so far
    resizes       \* calls of SetPresentParameters so far

hostVars == <<frameIndex, frameNumber, timeline, references>>
swapVars == <<suspended, swapchain, acquired, backBuffer, surfaceLost>>
deferredVars == <<deferred, destroyed, uploads>>
deviceVars == <<fence, completed, buffer, acquireSem, queue, presenting>>
windowVars == <<minimized, events, resizes>>
vars == <<phase, attempt, hostVars, swapVars, deferredVars, deviceVars, windowVars>>

Frames == 0 .. FrameCount - 1
Staging == 1 .. MaxUploads
Presents == [frame : Frames, value : 1 .. MaxFrames]
Submissions == [frame : Frames, value : 1 .. MaxFrames, uses : SUBSET Staging]

\* Device creation ends with a first BeginFrame that has acquired an image.
Init ==
    /\ phase = "scene" /\ attempt = 1
    /\ frameIndex = 0 /\ frameNumber = 0
    /\ fence = [f \in Frames |-> f # 0]
    /\ timeline = [f \in Frames |-> 0] /\ completed = [f \in Frames |-> 0]
    /\ buffer = [f \in Frames |-> IF f = 0 THEN "recording" ELSE "initial"]
    /\ acquireSem = [f \in Frames |-> f = 0]
    /\ references = {}
    /\ suspended = FALSE /\ swapchain = TRUE /\ acquired = TRUE
    /\ backBuffer = "attached" /\ surfaceLost = FALSE
    /\ deferred = {} /\ destroyed = {} /\ uploads = 0
    /\ queue = <<>> /\ presenting = <<>>
    /\ minimized = FALSE /\ events = 0 /\ resizes = 0

-----------------------------------------------------------------------------
(* Helpers shared by the calls. *)

WaitIdle == queue = <<>>

\* RecreateSwapchain: the old images are gone, and a window without extent leaves
\* the context suspended.
RecreateSwapchain ==
    /\ WaitIdle
    /\ suspended' = minimized /\ swapchain' = ~minimized
    /\ acquired' = FALSE

\* The back buffer wrapper keeps pointing at an image that is no longer acquired.
ImagesGone == backBuffer' = IF backBuffer = "attached" THEN "stale" ELSE backBuffer

\* RecreateSurface consumes the reason first, whatever follows.
RecreateSurface == surfaceLost' = FALSE /\ RecreateSwapchain /\ ImagesGone

\* The entries DrainDeferred destroys for a completed timeline value.
Drained(value) == {e \in deferred : e.value <= value}

DrainDeferred(value) ==
    /\ deferred' = deferred \ Drained(value)
    /\ destroyed' = destroyed \cup {e.id : e \in Drained(value)}
    /\ UNCHANGED uploads

BeginRecording ==
    /\ buffer' = [buffer EXCEPT ![frameIndex] = "recording"]
    /\ references' = {}

\* BeginFrame returns to Present, which attaches the back buffer.
ReturnFromBeginFrame == phase' = "attach" /\ attempt' = 1

-----------------------------------------------------------------------------
(* The scene between two calls of Present. *)

Recordable == ~suspended /\ backBuffer # "none"

\* A full list is emptied after a wait for the device, whatever its values.
Retire(entry) ==
    LET full == Cardinality(deferred) >= MaxDeferred
    IN  /\ full => WaitIdle
        /\ deferred' = (IF full THEN {} ELSE deferred) \cup {entry}
        /\ destroyed' = IF full THEN destroyed \cup {e.id : e \in deferred} ELSE destroyed

RetireValue_Mutant == timeline[frameIndex]

\* Tr2BufferAL::UpdateBuffer and Tr2TextureAL::UpdateSubresource: the copy is
\* recorded and the staging buffer retired with the value this frame will signal.
RetireValue == timeline[frameIndex] + 1

Upload ==
    /\ phase = "scene" /\ Recordable
    /\ frameNumber \in UploadFrames /\ uploads < MaxUploads
    /\ uploads' = uploads + 1
    /\ references' = references \cup {uploads'}
    /\ Retire([id |-> uploads', value |-> RetireValue])
    /\ UNCHANGED <<phase, attempt, frameIndex, frameNumber, timeline, swapVars, deviceVars,
                   windowVars>>

SetPresentParameters_Mutant ==
    /\ phase = "scene" /\ references = {}
    /\ frameNumber < MaxFrames /\ resizes < MaxResizes
    /\ RecreateSwapchain
    /\ ImagesGone
    /\ resizes' = resizes + 1
    /\ UNCHANGED <<phase, attempt, hostVars, surfaceLost, deferredVars, deviceVars,
                   minimized, events>>

\* SetPresentParameters between two frames.
SetPresentParameters ==
    /\ phase = "scene" /\ references = {}
    /\ frameNumber < MaxFrames /\ resizes < MaxResizes
    /\ RecreateSwapchain
    /\ backBuffer' = "none"
    /\ resizes' = resizes + 1
    /\ UNCHANGED <<phase, attempt, hostVars, surfaceLost, deferredVars, deviceVars,
                   minimized, events>>

\* RecreateSwapchain fails and the scene returns.
ResizeFails ==
    /\ phase = "scene" /\ references = {}
    /\ frameNumber < MaxFrames /\ resizes < MaxResizes
    /\ phase' = "failed"
    /\ UNCHANGED <<attempt, hostVars, swapVars, deferredVars, deviceVars, windowVars>>

ScenePresents ==
    /\ phase = "scene" /\ frameNumber < MaxFrames
    /\ phase' = "transition"
    /\ UNCHANGED <<attempt, hostVars, swapVars, deferredVars, deviceVars, windowVars>>

\* VulkanContext::Destroy when the scene ends.
Destroy ==
    /\ phase = "scene" /\ WaitIdle
    /\ phase' = "destroyed" /\ references' = {}
    /\ deferred' = {} /\ destroyed' = destroyed \cup {e.id : e \in deferred}
    /\ UNCHANGED <<attempt, frameIndex, frameNumber, timeline, swapVars, uploads, deviceVars,
                   windowVars>>

-----------------------------------------------------------------------------
(* Tr2RenderContextAL::Present. *)

\* A frame that is not suspended needs a valid back buffer; without one Present
\* returns E_INVALIDCALL and does nothing else.
TransitionBackBuffer ==
    /\ phase = "transition"
    /\ phase' = IF suspended \/ backBuffer # "none" THEN "endFrame" ELSE "scene"
    /\ UNCHANGED <<attempt, hostVars, swapVars, deferredVars, deviceVars, windowVars>>

\* While suspended the recorded commands are discarded.
EndFrameSuspended ==
    /\ phase = "endFrame" /\ suspended
    /\ buffer' = [buffer EXCEPT ![frameIndex] = "initial"]
    /\ references' = {}
    /\ frameNumber' = frameNumber + 1
    /\ phase' = "queuePresent"
    /\ UNCHANGED <<attempt, frameIndex, timeline, swapVars, deferredVars, fence, completed,
                   acquireSem, queue, presenting, windowVars>>

\* The submission waits for the acquire semaphore and signals the fence, the
\* render-finished semaphore and the next value of the context's timeline.
EndFrame ==
    /\ phase = "endFrame" /\ ~suspended
    /\ timeline' = [timeline EXCEPT ![frameIndex] = @ + 1]
    /\ queue' = Append(queue, [frame |-> frameIndex, value |-> timeline[frameIndex] + 1,
                               uses |-> references])
    /\ buffer' = [buffer EXCEPT ![frameIndex] = "pending"]
    /\ acquireSem' = [acquireSem EXCEPT ![frameIndex] = FALSE]
    /\ references' = {}
    /\ frameNumber' = frameNumber + 1
    /\ phase' = "queuePresent"
    /\ UNCHANGED <<attempt, frameIndex, swapVars, deferredVars, fence, completed, presenting,
                   windowVars>>

NextFrameIndex == (frameIndex + 1) % FrameCount

\* The present waits for the render-finished semaphore.  An outdated swapchain is
\* left to the next acquire, a lost surface to the next BeginFrame.
QueuePresent ==
    /\ phase = "queuePresent"
    /\ IF suspended THEN UNCHANGED <<acquired, backBuffer, surfaceLost, presenting>>
       ELSE /\ acquired' = FALSE /\ ImagesGone
            /\ \E lost \in BOOLEAN : surfaceLost' = (surfaceLost \/ lost)
            /\ presenting' = Append(presenting, [frame |-> frameIndex, value |-> timeline[frameIndex]])
    /\ frameIndex' = NextFrameIndex
    /\ phase' = "beginFrame"
    /\ UNCHANGED <<attempt, frameNumber, timeline, references, suspended, swapchain,
                   deferredVars, fence, completed, buffer, acquireSem, queue, windowVars>>

\* A surface lost at the last present is recreated before anything else.
BeginFrame ==
    /\ phase = "beginFrame"
    /\ IF surfaceLost /\ swapchain THEN RecreateSurface ELSE UNCHANGED swapVars
    /\ phase' = "fenceWait"
    /\ UNCHANGED <<attempt, hostVars, deferredVars, deviceVars, windowVars>>

FenceSignaled_Mutant == TRUE

FenceSignaled == fence[frameIndex]

WaitForFence_Mutant ==
    /\ phase = "fenceWait" /\ FenceSignaled
    /\ DrainDeferred(completed[frameIndex])
    /\ phase' = IF suspended THEN "suspended" ELSE "acquire"
    /\ fence' = [fence EXCEPT ![frameIndex] = FALSE]
    /\ UNCHANGED <<attempt, hostVars, swapVars, completed, buffer, acquireSem, queue, presenting,
                   windowVars>>

WaitForFence ==
    /\ phase = "fenceWait" /\ FenceSignaled
    /\ DrainDeferred(completed[frameIndex])
    /\ phase' = IF suspended THEN "suspended" ELSE "acquire"
    /\ UNCHANGED <<attempt, hostVars, swapVars, deviceVars, windowVars>>

\* Still minimized, or the surface cannot be asked: the scene may record, nothing
\* will be submitted.
StaySuspended ==
    /\ phase = "suspended"
    /\ BeginRecording /\ ReturnFromBeginFrame
    /\ UNCHANGED <<frameIndex, frameNumber, timeline, swapVars, deferredVars, fence, completed,
                   acquireSem, queue, presenting, windowVars>>

\* The window has an extent again, or the surface was lost meanwhile; the extent
\* is read a second time while the swapchain is created.
LeaveSuspension ==
    /\ phase = "suspended"
    /\ \/ ~minimized /\ RecreateSwapchain /\ ImagesGone /\ UNCHANGED surfaceLost
       \/ RecreateSurface
    /\ IF suspended' THEN BeginRecording /\ ReturnFromBeginFrame
       ELSE phase' = "acquire" /\ UNCHANGED <<attempt, buffer, references>>
    /\ UNCHANGED <<frameIndex, frameNumber, timeline, deferredVars, fence, completed, acquireSem,
                   queue, presenting, windowVars>>

\* An image is free unless a present that has not been consumed holds it.
ImageFree == Len(presenting) < ImageCount

\* The fence is reset only now that a submission will follow.
AcquireNextImage ==
    /\ phase = "acquire" /\ ImageFree
    /\ acquired' = TRUE
    /\ acquireSem' = [acquireSem EXCEPT ![frameIndex] = TRUE]
    /\ fence' = [fence EXCEPT ![frameIndex] = FALSE]
    /\ BeginRecording /\ ReturnFromBeginFrame
    /\ UNCHANGED <<frameIndex, frameNumber, timeline, suspended, swapchain, backBuffer,
                   surfaceLost, deferredVars, completed, queue, presenting, windowVars>>

\* What follows a swapchain recreated by an acquire: a suspended context returns
\* at once, otherwise the same frame acquires again.
AcquireAgain(next) ==
    IF suspended' THEN ReturnFromBeginFrame
    ELSE phase' = "acquire" /\ attempt' = next

\* Out of date, or suboptimal: then an image was acquired and its semaphore signalled.
AcquireOutdated ==
    /\ phase = "acquire" /\ attempt = 1
    /\ RecreateSwapchain /\ ImagesGone /\ UNCHANGED surfaceLost
    /\ AcquireAgain(2)
    /\ \E suboptimal \in BOOLEAN :
          /\ suboptimal => ImageFree
          /\ acquireSem' = [acquireSem EXCEPT ![frameIndex] = @ \/ suboptimal]
    /\ UNCHANGED <<hostVars, deferredVars, fence, completed, buffer, queue, presenting, windowVars>>

AcquireSurfaceLost ==
    /\ phase = "acquire" /\ attempt < 3
    /\ RecreateSurface
    /\ AcquireAgain(3)
    /\ UNCHANGED <<hostVars, deferredVars, deviceVars, windowVars>>

CreateBackBufferTexture_Mutant ==
    /\ phase = "attach"
    /\ backBuffer' = IF suspended \/ backBuffer = "stale" THEN backBuffer ELSE "attached"
    /\ phase' = "scene"
    /\ UNCHANGED <<attempt, hostVars, suspended, swapchain, acquired, surfaceLost, deferredVars,
                   deviceVars, windowVars>>

\* CreateBackBufferTexture: a suspended context attaches nothing.
CreateBackBufferTexture ==
    /\ phase = "attach"
    /\ backBuffer' = IF suspended THEN backBuffer ELSE "attached"
    /\ phase' = "scene"
    /\ UNCHANGED <<attempt, hostVars, suspended, swapchain, acquired, surfaceLost, deferredVars,
                   deviceVars, windowVars>>

\* A call of Present that returns an error: device lost, out of memory, or a
\* swapchain that cannot be recreated.
PresentFails ==
    /\ phase \in {"endFrame", "queuePresent", "beginFrame", "fenceWait", "suspended", "acquire"}
    /\ phase' = "failed"
    /\ UNCHANGED <<attempt, hostVars, swapVars, deferredVars, deviceVars, windowVars>>

-----------------------------------------------------------------------------
(* The environment. *)

\* Signals of one queue take place in the order of submission.
GpuCompletes ==
    /\ queue # <<>>
    /\ LET done == Head(queue)
       IN  /\ completed' = [completed EXCEPT ![done.frame] = done.value]
           /\ fence' = [fence EXCEPT ![done.frame] = TRUE]
           /\ buffer' = [buffer EXCEPT ![done.frame] = "executed"]
    /\ queue' = Tail(queue)
    /\ UNCHANGED <<phase, attempt, hostVars, swapVars, deferredVars, acquireSem, presenting,
                   windowVars>>

\* A present takes its semaphore after the submission that signals it.
PresentConsumed ==
    /\ presenting # <<>> /\ completed[Head(presenting).frame] >= Head(presenting).value
    /\ presenting' = Tail(presenting)
    /\ UNCHANGED <<phase, attempt, hostVars, swapVars, deferredVars, fence, completed, buffer,
                   acquireSem, queue, windowVars>>

WindowChanges ==
    /\ events < MaxWindowEvents /\ phase \notin {"failed", "destroyed"}
    /\ minimized' = ~minimized /\ events' = events + 1
    /\ UNCHANGED <<phase, attempt, hostVars, swapVars, deferredVars, deviceVars, resizes>>

PresentStep ==
    \/ TransitionBackBuffer \/ EndFrameSuspended \/ EndFrame \/ QueuePresent
    \/ BeginFrame \/ WaitForFence \/ StaySuspended \/ LeaveSuspension
    \/ AcquireNextImage \/ AcquireOutdated \/ AcquireSurfaceLost
    \/ CreateBackBufferTexture

Next ==
    \/ Upload \/ SetPresentParameters \/ ScenePresents \/ Destroy
    \/ PresentStep \/ PresentFails \/ ResizeFails
    \/ GpuCompletes \/ PresentConsumed \/ WindowChanges

Spec == Init /\ [][Next]_vars

\* The scene keeps running, the GPU finishes what it was given and the presentation
\* engine releases images.
FairSpec ==
    /\ Spec
    /\ WF_vars(ScenePresents) /\ WF_vars(PresentStep)
    /\ WF_vars(GpuCompletes) /\ WF_vars(PresentConsumed)

-----------------------------------------------------------------------------
(* Properties. *)

\* Types, with the limit on the deferred destructions and a frame index that
\* always names a frame context.
TypeOK ==
    /\ phase \in {"scene", "transition", "endFrame", "queuePresent", "beginFrame", "fenceWait",
                  "suspended", "acquire", "attach", "failed", "destroyed"}
    /\ attempt \in 1 .. 3
    /\ frameIndex \in Frames /\ frameNumber \in 0 .. MaxFrames
    /\ fence \in [Frames -> BOOLEAN] /\ acquireSem \in [Frames -> BOOLEAN]
    /\ timeline \in [Frames -> 0 .. MaxFrames] /\ completed \in [Frames -> 0 .. MaxFrames]
    /\ buffer \in [Frames -> {"initial", "recording", "pending", "executed"}]
    /\ references \subseteq Staging /\ destroyed \subseteq Staging
    /\ {suspended, swapchain, acquired, surfaceLost, minimized} \subseteq BOOLEAN
    /\ backBuffer \in {"none", "attached", "stale"}
    /\ deferred \subseteq [id : Staging, value : 1 .. MaxFrames + 1]
    /\ Cardinality(deferred) <= MaxDeferred
    /\ uploads \in 0 .. MaxUploads
    /\ queue \in Seq(Submissions) /\ presenting \in Seq(Presents)
    /\ events \in 0 .. MaxWindowEvents /\ resizes \in 0 .. MaxResizes

InFlight == {queue[i].frame : i \in DOMAIN queue}

\* BeginFrame resets the command pool of a frame context only once the GPU has
\* executed what was last recorded from it, through suspensions, recreated
\* swapchains and lost surfaces.
CommandPoolIdle == \A f \in Frames : buffer[f] = "recording" => f \notin InFlight

\* DrainDeferred destroys no staging buffer that a submission still executing, or
\* the command buffer being recorded, refers to.
NoDestroyInUse ==
    destroyed \cap (references \cup UNION {queue[i].uses : i \in DOMAIN queue}) = {}

\* Whenever the scene records into a back buffer, that is the image acquired for
\* this frame: a wrapper left over from a presented image or a destroyed swapchain
\* is never drawn to.
BackBufferCurrent ==
    phase = "scene" /\ Recordable => backBuffer = "attached" /\ acquired

\* vkQueuePresentKHR is called only with an image acquired from the swapchain that
\* exists then, even if it was recreated while the frame was recorded.
PresentsOnlyAcquired == phase = "queuePresent" /\ ~suspended => swapchain /\ acquired

\* The image drawn to and the image presented are the one acquired for this frame
\* from the swapchain that exists (BeginFrame, CreateBackBufferTexture, Present).
DrawnIsAcquired == BackBufferCurrent /\ PresentsOnlyAcquired

\* As long as the swapchain has not been resized, Present always returns: no wait of BeginFrame is
\* for a fence or an image that nothing will release.
PresentReturns ==
    (phase # "scene" /\ resizes = 0) ~> phase \in {"scene", "failed", "destroyed"}

\* A frame context whose fence BeginFrame waits for has been submitted; otherwise
\* vkWaitForFences, called without a timeout, never returns.
NoAbandonedFence == phase = "fenceWait" => fence[frameIndex] \/ frameIndex \in InFlight

\* After SetPresentParameters detached the back buffer, a later Present attaches
\* the image it acquires.
ResizeRecovers == backBuffer = "none" ~> backBuffer # "none" \/ phase \in {"failed", "destroyed"}

\* The statements that follow are the repository's too; the code does not meet them.

\* While the window is minimized the command buffer stays in the recording state.
\* An acquire that finds the window minimized returns without beginning it.
SuspendedFramesRecord == phase = "scene" /\ suspended => buffer[frameIndex] = "recording"

\* vkAcquireNextImageKHR is given a semaphore that is neither signalled nor about to be.
\* After a suboptimal acquire it is.
AcquireSemaphoreUnsignaled == phase = "acquire" => ~acquireSem[frameIndex]

\* A submission signals a render-finished semaphore only after presentation has
\* released it.  The fence BeginFrame waits for does not cover the presentation.
RenderSemaphoreFree ==
    phase = "endFrame" /\ ~suspended =>
        \A i \in DOMAIN presenting : presenting[i].frame # frameIndex
=============================================================================
