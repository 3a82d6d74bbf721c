------------------------- MODULE VulkanFrameProofs -------------------------
(***************************************************************************)
(* Proofs about the frame loop of the Vulkan backend.  The inductive       *)
(* invariant says which frame context may be in the queue in each phase,   *)
(* how the swapchain, the acquired image and the back buffer stay in step  *)
(* across suspensions and recreations, and where the staging buffers of    *)
(* the first frame are.                                                    *)
(***************************************************************************)
EXTENDS VulkanFrame, FiniteSetTheorems, TLAPS

-----------------------------------------------------------------------------
(* The inductive invariant. *)

Phases == {"scene", "transition", "endFrame", "queuePresent", "beginFrame", "fenceWait",
           "suspended", "acquire", "attach", "failed", "destroyed"}

\* The frame loop and the frame contexts.
HostTypes ==
    /\ phase \in Phases /\ attempt \in 1 .. 3
    /\ frameIndex \in Frames /\ frameNumber \in 0 .. MaxFrames
    /\ fence \in [Frames -> BOOLEAN] /\ acquireSem \in [Frames -> BOOLEAN]
    /\ timeline \in [Frames -> 0 .. MaxFrames] /\ completed \in [Frames -> 0 .. MaxFrames]
    /\ buffer \in [Frames -> {"initial", "recording", "pending", "executed"}]
    /\ events \in 0 .. MaxWindowEvents /\ resizes \in 0 .. MaxResizes

\* The swapchain and the window.
FlagTypes ==
    /\ suspended \in BOOLEAN /\ swapchain \in BOOLEAN /\ acquired \in BOOLEAN
    /\ surfaceLost \in BOOLEAN /\ minimized \in BOOLEAN
    /\ backBuffer \in {"none", "attached", "stale"}

\* The staging buffers and the deferred destructions.
StagingTypes ==
    /\ references \subseteq Staging /\ destroyed \subseteq Staging
    /\ deferred \subseteq [id : Staging, value : 1 .. MaxFrames + 1]
    /\ IsFiniteSet(deferred) /\ Cardinality(deferred) <= MaxDeferred
    /\ uploads \in 0 .. MaxUploads

\* The device.
QueueTypes == queue \in Seq(Submissions) /\ presenting \in Seq(Presents)

\* A frame that is being presented has a number left, and its value was counted.
Bounds ==
    /\ phase \in {"transition", "endFrame"} => frameNumber < MaxFrames
    /\ \A f \in Frames : completed[f] <= timeline[f] /\ timeline[f] <= frameNumber
    /\ phase = "queuePresent" /\ ~suspended => timeline[frameIndex] > 0

\* A submission in the queue signals a value its timeline has not reached.
QueueValues ==
    \A i \in DOMAIN queue : /\ completed[queue[i].frame] < queue[i].value
                            /\ queue[i].value <= timeline[queue[i].frame]

\* A frame context is in the queue at most once, and its fence is not signalled then.
OneSubmission ==
    /\ \A i, j \in DOMAIN queue : queue[i].frame = queue[j].frame => i = j
    /\ \A i \in DOMAIN queue : ~fence[queue[i].frame]

Idle(f) == \A i \in DOMAIN queue : queue[i].frame # f

\* From the fence wait until the next submission the context of the frame is idle.
ContextIdle ==
    phase \in {"scene", "transition", "endFrame", "suspended", "acquire", "attach"} =>
        Idle(frameIndex)

RecordingIdle == \A f \in Frames : buffer[f] = "recording" => Idle(f)

\* A context that is not suspended has a swapchain, from the acquire on it has an image, and
\* the wrapper that the scene draws to is attached to it.
ImageTracked ==
    /\ swapchain = ~suspended /\ (phase = "suspended" => suspended)
    /\ phase \in {"scene", "transition"} /\ Recordable => backBuffer = "attached" /\ acquired
    /\ phase \in {"endFrame", "queuePresent", "attach"} /\ ~suspended => acquired

\* A frame that will be submitted has reset the fence of its context.
FenceReset ==
    /\ phase \in {"scene", "transition"} /\ Recordable => ~fence[frameIndex]
    /\ phase \in {"endFrame", "attach"} /\ ~suspended => ~fence[frameIndex]

IInv ==
    /\ HostTypes /\ FlagTypes /\ StagingTypes /\ QueueTypes
    /\ Bounds /\ QueueValues /\ OneSubmission /\ ContextIdle /\ RecordingIdle
    /\ ImageTracked /\ FenceReset

-----------------------------------------------------------------------------
(* The queue. *)

(* What is in the queue.                                                   *)
LEMMA QueueElements ==
  QueueTypes => \A i \in DOMAIN queue :
     /\ i \in Nat /\ queue[i].frame \in Frames /\ queue[i].value \in 1 .. MaxFrames
     /\ queue[i].uses \subseteq Staging
<1> SUFFICES ASSUME QueueTypes, NEW i \in DOMAIN queue
             PROVE  i \in Nat /\ queue[i] \in Submissions
  BY DEF Submissions
<1> QED
  BY DEF QueueTypes

(* GpuCompletes takes the oldest submission out of the queue.              *)
LEMMA QueueShifts ==
  ASSUME QueueTypes, queue # <<>>, queue' = Tail(queue)
  PROVE  /\ 1 \in DOMAIN queue /\ Head(queue) = queue[1]
         /\ \A i \in DOMAIN queue' : /\ i \in Nat \ {0} /\ i + 1 \in DOMAIN queue
                                     /\ queue'[i] = queue[i + 1]
BY DEF QueueTypes

(* EndFrame puts a submission at its end.                                  *)
LEMMA QueueGrows ==
  ASSUME QueueTypes, NEW s \in Submissions, queue' = Append(queue, s)
  PROVE  \A i \in DOMAIN queue' : \/ i \in DOMAIN queue /\ queue'[i] = queue[i]
                                  \/ i = Len(queue) + 1 /\ i \notin DOMAIN queue /\ queue'[i] = s
BY DEF QueueTypes

(* The submission of EndFrame is well formed.                              *)
LEMMA SubmissionTyped ==
  IInv /\ EndFrame =>
    [frame |-> frameIndex, value |-> timeline[frameIndex] + 1, uses |-> references] \in Submissions
<1> SUFFICES ASSUME IInv, EndFrame
             PROVE  /\ frameIndex \in Frames /\ timeline[frameIndex] + 1 \in 1 .. MaxFrames
                    /\ references \in SUBSET Staging
  BY DEF Submissions
<1> QED
  BY FrameAssumption DEF IInv, EndFrame, HostTypes, StagingTypes, Bounds

-----------------------------------------------------------------------------
(* Each part of the inductive invariant is preserved by every step. *)

(* The types of the loop and of the frame contexts.                        *)
LEMMA HostTypesNext ==
  IInv /\ [Next]_vars => HostTypes'
<1> SUFFICES ASSUME IInv, [Next]_vars PROVE HostTypes'
  OBVIOUS
<1> USE DEF IInv, HostTypes, FlagTypes, Phases, Bounds, Frames, vars, hostVars, swapVars, deferredVars, deviceVars, windowVars
<1>1. CASE Upload
  BY <1>1, FrameAssumption DEF Upload, Retire, RetireValue, Recordable, WaitIdle
<1>2. CASE SetPresentParameters
  BY <1>2, FrameAssumption DEF SetPresentParameters, RecreateSwapchain, WaitIdle
<1>3. CASE ScenePresents
  BY <1>3, FrameAssumption DEF ScenePresents
<1>4. CASE Destroy
  BY <1>4, FrameAssumption DEF Destroy, WaitIdle
<1>5. CASE TransitionBackBuffer
  BY <1>5, FrameAssumption DEF TransitionBackBuffer
<1>6. CASE EndFrameSuspended
  BY <1>6, FrameAssumption DEF EndFrameSuspended
<1>7. CASE EndFrame
  BY <1>7, FrameAssumption DEF EndFrame
<1>8. CASE QueuePresent
  BY <1>8, FrameAssumption DEF QueuePresent, ImagesGone, NextFrameIndex
<1>9. CASE BeginFrame
  BY <1>9, FrameAssumption DEF BeginFrame, RecreateSurface, RecreateSwapchain, ImagesGone, WaitIdle
<1>10. CASE WaitForFence
  BY <1>10, FrameAssumption DEF WaitForFence, DrainDeferred, Drained, FenceSignaled
<1>11. CASE StaySuspended
  BY <1>11, FrameAssumption DEF StaySuspended, BeginRecording, ReturnFromBeginFrame
<1>12. CASE LeaveSuspension
  <2>1. CASE suspended'
    <3>1. phase' = "attach" /\ attempt' = 1 /\ buffer' = [buffer EXCEPT ![frameIndex] = "recording"]
      BY <1>12, <2>1 DEF LeaveSuspension, BeginRecording, ReturnFromBeginFrame
    <3>2. UNCHANGED <<frameIndex, frameNumber, timeline, fence, completed, acquireSem, windowVars>>
      BY <1>12 DEF LeaveSuspension
    <3> QED
      BY <3>1, <3>2
  <2>2. CASE ~suspended'
    BY <1>12, <2>2, FrameAssumption DEF LeaveSuspension
  <2> QED
    BY <2>1, <2>2
<1>13. CASE AcquireNextImage
  BY <1>13 DEF AcquireNextImage, ImageFree, BeginRecording, ReturnFromBeginFrame
<1>14. CASE AcquireOutdated
  BY <1>14, FrameAssumption DEF AcquireOutdated, RecreateSwapchain, ImagesGone, AcquireAgain, ReturnFromBeginFrame,
         WaitIdle
<1>15. CASE AcquireSurfaceLost
  BY <1>15 DEF AcquireSurfaceLost, RecreateSurface, RecreateSwapchain, ImagesGone, AcquireAgain,
         ReturnFromBeginFrame, WaitIdle
<1>16. CASE CreateBackBufferTexture
  BY <1>16, FrameAssumption DEF CreateBackBufferTexture
<1>17. CASE PresentFails \/ ResizeFails
  BY <1>17, FrameAssumption DEF PresentFails, ResizeFails
<1>18. CASE GpuCompletes
  <2>1. /\ 1 \in DOMAIN queue /\ Head(queue) = queue[1]
        /\ \A i \in DOMAIN queue' : /\ i \in Nat \ {0} /\ i + 1 \in DOMAIN queue
                                    /\ queue'[i] = queue[i + 1]
    BY <1>18, QueueShifts DEF GpuCompletes
  <2>2. \A i \in DOMAIN queue : i \in Nat /\ queue[i].frame \in Frames /\ queue[i].value \in 1 .. MaxFrames
    BY QueueElements
  <2>3. Head(queue).frame \in Frames /\ Head(queue).value \in 0 .. MaxFrames
    BY <2>1, <2>2, FrameAssumption
  <2> QED
    BY <1>18, <2>3 DEF GpuCompletes
<1>19. CASE PresentConsumed
  BY <1>19, FrameAssumption DEF PresentConsumed
<1>20. CASE WindowChanges
  BY <1>20, FrameAssumption DEF WindowChanges
<1>21. CASE UNCHANGED vars
  BY <1>21
<1> QED
  BY <1>1, <1>2, <1>3, <1>4, <1>5, <1>6, <1>7, <1>8, <1>9, <1>10, <1>11, <1>12, <1>13,
     <1>14, <1>15, <1>16, <1>17, <1>18, <1>19, <1>20, <1>21 DEF Next, PresentStep

(* The types of the state of the swapchain and of the window.              *)
LEMMA FlagTypesNext ==
  IInv /\ [Next]_vars => FlagTypes'
<1> SUFFICES ASSUME IInv, [Next]_vars PROVE FlagTypes'
  OBVIOUS
<1> USE DEF IInv, FlagTypes, vars, hostVars, swapVars, deferredVars, deviceVars, windowVars
<1>1. CASE Upload
  BY <1>1 DEF Upload, Retire, RetireValue, Recordable, WaitIdle
<1>2. CASE SetPresentParameters
  BY <1>2 DEF SetPresentParameters, RecreateSwapchain, WaitIdle
<1>3. CASE ScenePresents
  BY <1>3 DEF ScenePresents
<1>4. CASE Destroy
  BY <1>4 DEF Destroy, WaitIdle
<1>5. CASE TransitionBackBuffer
  BY <1>5 DEF TransitionBackBuffer
<1>6. CASE EndFrameSuspended
  BY <1>6 DEF EndFrameSuspended
<1>7. CASE EndFrame
  BY <1>7 DEF EndFrame
<1>8. CASE QueuePresent
  BY <1>8 DEF QueuePresent, ImagesGone, NextFrameIndex
<1>9. CASE BeginFrame
  BY <1>9 DEF BeginFrame, RecreateSurface, RecreateSwapchain, ImagesGone, WaitIdle
<1>10. CASE WaitForFence
  BY <1>10 DEF WaitForFence, DrainDeferred, Drained, FenceSignaled
<1>11. CASE StaySuspended
  BY <1>11 DEF StaySuspended, BeginRecording, ReturnFromBeginFrame
<1>12. CASE LeaveSuspension
  BY <1>12 DEF LeaveSuspension, RecreateSurface, RecreateSwapchain, ImagesGone, BeginRecording,
         ReturnFromBeginFrame, WaitIdle
<1>13. CASE AcquireNextImage
  BY <1>13 DEF AcquireNextImage, ImageFree, BeginRecording, ReturnFromBeginFrame
<1>14. CASE AcquireOutdated
  BY <1>14 DEF AcquireOutdated, RecreateSwapchain, ImagesGone, AcquireAgain, ReturnFromBeginFrame,
         WaitIdle
<1>15. CASE AcquireSurfaceLost
  BY <1>15 DEF AcquireSurfaceLost, RecreateSurface, RecreateSwapchain, ImagesGone, AcquireAgain,
         ReturnFromBeginFrame, WaitIdle
<1>16. CASE CreateBackBufferTexture
  BY <1>16 DEF CreateBackBufferTexture
<1>17. CASE PresentFails \/ ResizeFails
  BY <1>17 DEF PresentFails, ResizeFails
<1>18. CASE GpuCompletes
  BY <1>18 DEF GpuCompletes
<1>19. CASE PresentConsumed
  BY <1>19 DEF PresentConsumed
<1>20. CASE WindowChanges
  BY <1>20 DEF WindowChanges
<1>21. CASE UNCHANGED vars
  BY <1>21
<1> QED
  BY <1>1, <1>2, <1>3, <1>4, <1>5, <1>6, <1>7, <1>8, <1>9, <1>10, <1>11, <1>12, <1>13,
     <1>14, <1>15, <1>16, <1>17, <1>18, <1>19, <1>20, <1>21 DEF Next, PresentStep

(* The bounds on frame numbers and timelines.                              *)
LEMMA BoundsNext ==
  IInv /\ [Next]_vars => Bounds'
<1> SUFFICES ASSUME IInv, [Next]_vars PROVE Bounds'
  OBVIOUS
<1> USE DEF IInv, HostTypes, FlagTypes, Bounds, QueueValues, Frames, vars, hostVars, swapVars, deferredVars, deviceVars, windowVars
<1>1. CASE Upload
  BY <1>1, FrameAssumption DEF Upload, Retire, RetireValue, Recordable, WaitIdle
<1>2. CASE SetPresentParameters
  BY <1>2, FrameAssumption DEF SetPresentParameters, RecreateSwapchain, WaitIdle
<1>3. CASE ScenePresents
  BY <1>3, FrameAssumption DEF ScenePresents
<1>4. CASE Destroy
  BY <1>4, FrameAssumption DEF Destroy, WaitIdle
<1>5. CASE TransitionBackBuffer
  BY <1>5, FrameAssumption DEF TransitionBackBuffer
<1>6. CASE EndFrameSuspended
  BY <1>6, FrameAssumption DEF EndFrameSuspended
<1>7. CASE EndFrame
  <2>1. /\ timeline' = [timeline EXCEPT ![frameIndex] = @ + 1] /\ completed' = completed
        /\ frameNumber' = frameNumber + 1 /\ frameIndex' = frameIndex /\ phase' = "queuePresent"
    BY <1>7 DEF EndFrame
  <2>2. timeline'[frameIndex] = timeline[frameIndex] + 1 /\ timeline[frameIndex] >= 0
    BY <2>1, FrameAssumption
  <2>3. ASSUME NEW f \in Frames
        PROVE  completed'[f] <= timeline'[f] /\ timeline'[f] <= frameNumber'
    BY <2>1, <2>3, FrameAssumption
  <2> QED
    BY <2>1, <2>2, <2>3, FrameAssumption
<1>8. CASE QueuePresent
  BY <1>8, FrameAssumption DEF QueuePresent, ImagesGone, NextFrameIndex
<1>9. CASE BeginFrame
  BY <1>9, FrameAssumption DEF BeginFrame, RecreateSurface, RecreateSwapchain, ImagesGone, WaitIdle
<1>10. CASE WaitForFence
  BY <1>10, FrameAssumption DEF WaitForFence, DrainDeferred, Drained, FenceSignaled
<1>11. CASE StaySuspended
  BY <1>11, FrameAssumption DEF StaySuspended, BeginRecording, ReturnFromBeginFrame
<1>12. CASE LeaveSuspension
  BY <1>12, FrameAssumption DEF LeaveSuspension, RecreateSurface, RecreateSwapchain, ImagesGone, BeginRecording,
         ReturnFromBeginFrame, WaitIdle
<1>13. CASE AcquireNextImage
  BY <1>13, FrameAssumption DEF AcquireNextImage, ImageFree, BeginRecording, ReturnFromBeginFrame
<1>14. CASE AcquireOutdated
  BY <1>14, FrameAssumption DEF AcquireOutdated, RecreateSwapchain, ImagesGone, AcquireAgain, ReturnFromBeginFrame,
         WaitIdle
<1>15. CASE AcquireSurfaceLost
  BY <1>15, FrameAssumption DEF AcquireSurfaceLost, RecreateSurface, RecreateSwapchain, ImagesGone, AcquireAgain,
         ReturnFromBeginFrame, WaitIdle
<1>16. CASE CreateBackBufferTexture
  BY <1>16, FrameAssumption DEF CreateBackBufferTexture
<1>17. CASE PresentFails \/ ResizeFails
  BY <1>17, FrameAssumption DEF PresentFails, ResizeFails
<1>18. CASE GpuCompletes
  <2>1. /\ 1 \in DOMAIN queue /\ Head(queue) = queue[1]
        /\ \A i \in DOMAIN queue' : /\ i \in Nat \ {0} /\ i + 1 \in DOMAIN queue
                                    /\ queue'[i] = queue[i + 1]
    BY <1>18, QueueShifts DEF GpuCompletes
  <2>2. \A i \in DOMAIN queue : i \in Nat /\ queue[i].frame \in Frames /\ queue[i].value \in 1 .. MaxFrames
    BY QueueElements
  <2> QED
    BY <1>18, <2>1, <2>2, FrameAssumption DEF GpuCompletes
<1>19. CASE PresentConsumed
  BY <1>19, FrameAssumption DEF PresentConsumed
<1>20. CASE WindowChanges
  BY <1>20, FrameAssumption DEF WindowChanges
<1>21. CASE UNCHANGED vars
  BY <1>21
<1> QED
  BY <1>1, <1>2, <1>3, <1>4, <1>5, <1>6, <1>7, <1>8, <1>9, <1>10, <1>11, <1>12, <1>13,
     <1>14, <1>15, <1>16, <1>17, <1>18, <1>19, <1>20, <1>21 DEF Next, PresentStep

(* The types of the submissions and of the presents.                       *)
LEMMA QueueTypesNext ==
  IInv /\ [Next]_vars => QueueTypes'
<1> SUFFICES ASSUME IInv, [Next]_vars PROVE QueueTypes'
  OBVIOUS
<1> USE DEF IInv, HostTypes, FlagTypes, QueueTypes, Bounds, StagingTypes, Submissions, Presents, vars, hostVars, swapVars, deferredVars, deviceVars, windowVars
<1>1. CASE Upload
  BY <1>1, FrameAssumption DEF Upload, Retire, RetireValue, Recordable, WaitIdle
<1>2. CASE SetPresentParameters
  BY <1>2, FrameAssumption DEF SetPresentParameters, RecreateSwapchain, WaitIdle
<1>3. CASE ScenePresents
  BY <1>3, FrameAssumption DEF ScenePresents
<1>4. CASE Destroy
  BY <1>4, FrameAssumption DEF Destroy, WaitIdle
<1>5. CASE TransitionBackBuffer
  BY <1>5, FrameAssumption DEF TransitionBackBuffer
<1>6. CASE EndFrameSuspended
  BY <1>6, FrameAssumption DEF EndFrameSuspended
<1>7. CASE EndFrame
  <2> DEFINE s == [frame |-> frameIndex, value |-> timeline[frameIndex] + 1, uses |-> references]
  <2>1. s \in Submissions
    BY <1>7, SubmissionTyped
  <2>2. queue' = Append(queue, s) /\ presenting' = presenting
    BY <1>7 DEF EndFrame
  <2> HIDE DEF s
  <2> QED
    BY <2>1, <2>2
<1>8. CASE QueuePresent
  <2>1. CASE suspended
    BY <1>8, <2>1 DEF QueuePresent
  <2>2. CASE ~suspended
    <3>1. [frame |-> frameIndex, value |-> timeline[frameIndex]] \in Presents
      BY <1>8, <2>2, FrameAssumption DEF QueuePresent
    <3> DEFINE e == [frame |-> frameIndex, value |-> timeline[frameIndex]]
    <3>2. queue' = queue /\ presenting' = Append(presenting, e)
      BY <1>8, <2>2 DEF QueuePresent
    <3> HIDE DEF e
    <3>3. e \in Presents
      BY <3>1 DEF e
    <3> QED
      BY <3>2, <3>3
  <2> QED
    BY <2>1, <2>2
<1>9. CASE BeginFrame
  BY <1>9, FrameAssumption DEF BeginFrame, RecreateSurface, RecreateSwapchain, ImagesGone, WaitIdle
<1>10. CASE WaitForFence
  BY <1>10, FrameAssumption DEF WaitForFence, DrainDeferred, Drained, FenceSignaled
<1>11. CASE StaySuspended
  BY <1>11, FrameAssumption DEF StaySuspended, BeginRecording, ReturnFromBeginFrame
<1>12. CASE LeaveSuspension
  BY <1>12, FrameAssumption DEF LeaveSuspension, RecreateSurface, RecreateSwapchain, ImagesGone, BeginRecording,
         ReturnFromBeginFrame, WaitIdle
<1>13. CASE AcquireNextImage
  BY <1>13, FrameAssumption DEF AcquireNextImage, ImageFree, BeginRecording, ReturnFromBeginFrame
<1>14. CASE AcquireOutdated
  BY <1>14, FrameAssumption DEF AcquireOutdated, RecreateSwapchain, ImagesGone, AcquireAgain, ReturnFromBeginFrame,
         WaitIdle
<1>15. CASE AcquireSurfaceLost
  BY <1>15, FrameAssumption DEF AcquireSurfaceLost, RecreateSurface, RecreateSwapchain, ImagesGone, AcquireAgain,
         ReturnFromBeginFrame, WaitIdle
<1>16. CASE CreateBackBufferTexture
  BY <1>16, FrameAssumption DEF CreateBackBufferTexture
<1>17. CASE PresentFails \/ ResizeFails
  BY <1>17, FrameAssumption DEF PresentFails, ResizeFails
<1>18. CASE GpuCompletes
  BY <1>18, FrameAssumption DEF GpuCompletes
<1>19. CASE PresentConsumed
  BY <1>19, FrameAssumption DEF PresentConsumed
<1>20. CASE WindowChanges
  BY <1>20, FrameAssumption DEF WindowChanges
<1>21. CASE UNCHANGED vars
  BY <1>21
<1> QED
  BY <1>1, <1>2, <1>3, <1>4, <1>5, <1>6, <1>7, <1>8, <1>9, <1>10, <1>11, <1>12, <1>13,
     <1>14, <1>15, <1>16, <1>17, <1>18, <1>19, <1>20, <1>21 DEF Next, PresentStep

(* What is in the queue has not been signalled yet.                        *)
LEMMA QueueValuesNext ==
  IInv /\ [Next]_vars => QueueValues'
<1> SUFFICES ASSUME IInv, [Next]_vars PROVE QueueValues'
  OBVIOUS
<1> USE DEF IInv, HostTypes, Bounds, QueueValues, OneSubmission, ContextIdle, Idle, vars, hostVars, swapVars, deferredVars, deviceVars, windowVars
<1>1. CASE Upload
  BY <1>1, FrameAssumption DEF Upload, Retire, RetireValue, Recordable, WaitIdle
<1>2. CASE SetPresentParameters
  BY <1>2, FrameAssumption DEF SetPresentParameters, RecreateSwapchain, WaitIdle
<1>3. CASE ScenePresents
  BY <1>3, FrameAssumption DEF ScenePresents
<1>4. CASE Destroy
  BY <1>4, FrameAssumption DEF Destroy, WaitIdle
<1>5. CASE TransitionBackBuffer
  BY <1>5, FrameAssumption DEF TransitionBackBuffer
<1>6. CASE EndFrameSuspended
  BY <1>6, FrameAssumption DEF EndFrameSuspended
<1>7. CASE EndFrame
  <2> DEFINE s == [frame |-> frameIndex, value |-> timeline[frameIndex] + 1, uses |-> references]
  <2>1. s \in Submissions
    BY <1>7, SubmissionTyped
  <2>2. queue' = Append(queue, s)
    BY <1>7 DEF EndFrame
  <2> HIDE DEF s
  <2>3. \A i \in DOMAIN queue' : \/ i \in DOMAIN queue /\ queue'[i] = queue[i]
                                 \/ i = Len(queue) + 1 /\ i \notin DOMAIN queue /\ queue'[i] = s
    BY <2>1, <2>2, QueueGrows
  <2>4. \A i \in DOMAIN queue : i \in Nat /\ queue[i].frame \in Frames /\ queue[i].value \in 1 .. MaxFrames
    BY QueueElements
  <2>5. s.frame = frameIndex /\ s.value = timeline[frameIndex] + 1 /\ s.uses = references
    BY DEF s
  <2> QED
    BY <1>7, <2>3, <2>4, <2>5, FrameAssumption DEF EndFrame
<1>8. CASE QueuePresent
  BY <1>8, FrameAssumption DEF QueuePresent, ImagesGone, NextFrameIndex
<1>9. CASE BeginFrame
  BY <1>9, FrameAssumption DEF BeginFrame, RecreateSurface, RecreateSwapchain, ImagesGone, WaitIdle
<1>10. CASE WaitForFence
  BY <1>10, FrameAssumption DEF WaitForFence, DrainDeferred, Drained, FenceSignaled
<1>11. CASE StaySuspended
  BY <1>11, FrameAssumption DEF StaySuspended, BeginRecording, ReturnFromBeginFrame
<1>12. CASE LeaveSuspension
  BY <1>12, FrameAssumption DEF LeaveSuspension, RecreateSurface, RecreateSwapchain, ImagesGone, BeginRecording,
         ReturnFromBeginFrame, WaitIdle
<1>13. CASE AcquireNextImage
  BY <1>13, FrameAssumption DEF AcquireNextImage, ImageFree, BeginRecording, ReturnFromBeginFrame
<1>14. CASE AcquireOutdated
  BY <1>14, FrameAssumption DEF AcquireOutdated, RecreateSwapchain, ImagesGone, AcquireAgain, ReturnFromBeginFrame,
         WaitIdle
<1>15. CASE AcquireSurfaceLost
  BY <1>15, FrameAssumption DEF AcquireSurfaceLost, RecreateSurface, RecreateSwapchain, ImagesGone, AcquireAgain,
         ReturnFromBeginFrame, WaitIdle
<1>16. CASE CreateBackBufferTexture
  BY <1>16, FrameAssumption DEF CreateBackBufferTexture
<1>17. CASE PresentFails \/ ResizeFails
  BY <1>17, FrameAssumption DEF PresentFails, ResizeFails
<1>18. CASE GpuCompletes
  <2>1. /\ 1 \in DOMAIN queue /\ Head(queue) = queue[1]
        /\ \A i \in DOMAIN queue' : /\ i \in Nat \ {0} /\ i + 1 \in DOMAIN queue
                                    /\ queue'[i] = queue[i + 1]
    BY <1>18, QueueShifts DEF GpuCompletes
  <2>2. \A i \in DOMAIN queue : i \in Nat /\ queue[i].frame \in Frames /\ queue[i].value \in 1 .. MaxFrames
    BY QueueElements
  <2> QED
    BY <1>18, <2>1, <2>2, FrameAssumption DEF GpuCompletes
<1>19. CASE PresentConsumed
  BY <1>19, FrameAssumption DEF PresentConsumed
<1>20. CASE WindowChanges
  BY <1>20, FrameAssumption DEF WindowChanges
<1>21. CASE UNCHANGED vars
  BY <1>21
<1> QED
  BY <1>1, <1>2, <1>3, <1>4, <1>5, <1>6, <1>7, <1>8, <1>9, <1>10, <1>11, <1>12, <1>13,
     <1>14, <1>15, <1>16, <1>17, <1>18, <1>19, <1>20, <1>21 DEF Next, PresentStep

(* A frame context has one submission at a time, and no signalled fence.   *)
LEMMA OneSubmissionNext ==
  IInv /\ [Next]_vars => OneSubmission'
<1> SUFFICES ASSUME IInv, [Next]_vars PROVE OneSubmission'
  OBVIOUS
<1> USE DEF IInv, HostTypes, OneSubmission, FenceReset, ContextIdle, Idle, vars, hostVars, swapVars, deferredVars, deviceVars, windowVars
<1>1. CASE Upload
  BY <1>1, FrameAssumption DEF Upload, Retire, RetireValue, Recordable, WaitIdle
<1>2. CASE SetPresentParameters
  BY <1>2, FrameAssumption DEF SetPresentParameters, RecreateSwapchain, WaitIdle
<1>3. CASE ScenePresents
  BY <1>3, FrameAssumption DEF ScenePresents
<1>4. CASE Destroy
  BY <1>4, FrameAssumption DEF Destroy, WaitIdle
<1>5. CASE TransitionBackBuffer
  BY <1>5, FrameAssumption DEF TransitionBackBuffer
<1>6. CASE EndFrameSuspended
  BY <1>6, FrameAssumption DEF EndFrameSuspended
<1>7. CASE EndFrame
  <2> DEFINE s == [frame |-> frameIndex, value |-> timeline[frameIndex] + 1, uses |-> references]
  <2>1. s \in Submissions
    BY <1>7, SubmissionTyped
  <2>2. queue' = Append(queue, s)
    BY <1>7 DEF EndFrame
  <2> HIDE DEF s
  <2>3. \A i \in DOMAIN queue' : \/ i \in DOMAIN queue /\ queue'[i] = queue[i]
                                 \/ i = Len(queue) + 1 /\ i \notin DOMAIN queue /\ queue'[i] = s
    BY <2>1, <2>2, QueueGrows
  <2>4. \A i \in DOMAIN queue : i \in Nat /\ queue[i].frame \in Frames /\ queue[i].value \in 1 .. MaxFrames
    BY QueueElements
  <2>5. s.frame = frameIndex /\ s.value = timeline[frameIndex] + 1 /\ s.uses = references
    BY DEF s
  <2> QED
    BY <1>7, <2>3, <2>4, <2>5, FrameAssumption DEF EndFrame
<1>8. CASE QueuePresent
  BY <1>8, FrameAssumption DEF QueuePresent, ImagesGone, NextFrameIndex
<1>9. CASE BeginFrame
  BY <1>9, FrameAssumption DEF BeginFrame, RecreateSurface, RecreateSwapchain, ImagesGone, WaitIdle
<1>10. CASE WaitForFence
  BY <1>10, FrameAssumption DEF WaitForFence, DrainDeferred, Drained, FenceSignaled
<1>11. CASE StaySuspended
  BY <1>11, FrameAssumption DEF StaySuspended, BeginRecording, ReturnFromBeginFrame
<1>12. CASE LeaveSuspension
  BY <1>12, FrameAssumption DEF LeaveSuspension, RecreateSurface, RecreateSwapchain, ImagesGone, BeginRecording,
         ReturnFromBeginFrame, WaitIdle
<1>13. CASE AcquireNextImage
  BY <1>13, FrameAssumption DEF AcquireNextImage, ImageFree, BeginRecording, ReturnFromBeginFrame
<1>14. CASE AcquireOutdated
  BY <1>14, FrameAssumption DEF AcquireOutdated, RecreateSwapchain, ImagesGone, AcquireAgain, ReturnFromBeginFrame,
         WaitIdle
<1>15. CASE AcquireSurfaceLost
  BY <1>15, FrameAssumption DEF AcquireSurfaceLost, RecreateSurface, RecreateSwapchain, ImagesGone, AcquireAgain,
         ReturnFromBeginFrame, WaitIdle
<1>16. CASE CreateBackBufferTexture
  BY <1>16, FrameAssumption DEF CreateBackBufferTexture
<1>17. CASE PresentFails \/ ResizeFails
  BY <1>17, FrameAssumption DEF PresentFails, ResizeFails
<1>18. CASE GpuCompletes
  <2>1. /\ 1 \in DOMAIN queue /\ Head(queue) = queue[1]
        /\ \A i \in DOMAIN queue' : /\ i \in Nat \ {0} /\ i + 1 \in DOMAIN queue
                                    /\ queue'[i] = queue[i + 1]
    BY <1>18, QueueShifts DEF GpuCompletes
  <2>2. \A i \in DOMAIN queue : i \in Nat /\ queue[i].frame \in Frames /\ queue[i].value \in 1 .. MaxFrames
    BY QueueElements
  <2>3. \A i, j \in DOMAIN queue' : queue'[i].frame = queue'[j].frame => i = j
    <3> SUFFICES ASSUME NEW i \in DOMAIN queue', NEW j \in DOMAIN queue',
                        queue'[i].frame = queue'[j].frame
                 PROVE  i = j
      OBVIOUS
    <3>1. i + 1 = j + 1
      BY <2>1
    <3> QED
      BY <2>1, <3>1
  <2>4. ASSUME NEW i \in DOMAIN queue' PROVE ~fence'[queue'[i].frame]
    <3>1. PICK f \in Frames : f = queue[i + 1].frame /\ f = queue'[i].frame /\ ~fence[f]
      BY <2>1, <2>2
    <3>2. f # Head(queue).frame
      BY <2>1, <3>1
    <3> QED
      BY <1>18, <3>1, <3>2 DEF GpuCompletes
  <2> QED
    BY <2>3, <2>4
<1>19. CASE PresentConsumed
  BY <1>19, FrameAssumption DEF PresentConsumed
<1>20. CASE WindowChanges
  BY <1>20, FrameAssumption DEF WindowChanges
<1>21. CASE UNCHANGED vars
  BY <1>21
<1> QED
  BY <1>1, <1>2, <1>3, <1>4, <1>5, <1>6, <1>7, <1>8, <1>9, <1>10, <1>11, <1>12, <1>13,
     <1>14, <1>15, <1>16, <1>17, <1>18, <1>19, <1>20, <1>21 DEF Next, PresentStep

(* The context being recorded has nothing in the queue.                    *)
LEMMA ContextIdleNext ==
  IInv /\ [Next]_vars => ContextIdle'
<1> SUFFICES ASSUME IInv, [Next]_vars PROVE ContextIdle'
  OBVIOUS
<1> USE DEF IInv, HostTypes, OneSubmission, ContextIdle, Idle, vars, hostVars, swapVars, deferredVars, deviceVars, windowVars
<1>1. CASE Upload
  BY <1>1, FrameAssumption DEF Upload, Retire, RetireValue, Recordable, WaitIdle
<1>2. CASE SetPresentParameters
  BY <1>2, FrameAssumption DEF SetPresentParameters, RecreateSwapchain, WaitIdle
<1>3. CASE ScenePresents
  BY <1>3, FrameAssumption DEF ScenePresents
<1>4. CASE Destroy
  BY <1>4, FrameAssumption DEF Destroy, WaitIdle
<1>5. CASE TransitionBackBuffer
  BY <1>5, FrameAssumption DEF TransitionBackBuffer
<1>6. CASE EndFrameSuspended
  BY <1>6, FrameAssumption DEF EndFrameSuspended
<1>7. CASE EndFrame
  BY <1>7, FrameAssumption DEF EndFrame
<1>8. CASE QueuePresent
  BY <1>8, FrameAssumption DEF QueuePresent, ImagesGone, NextFrameIndex
<1>9. CASE BeginFrame
  BY <1>9, FrameAssumption DEF BeginFrame, RecreateSurface, RecreateSwapchain, ImagesGone, WaitIdle
<1>10. CASE WaitForFence
  BY <1>10, FrameAssumption DEF WaitForFence, DrainDeferred, Drained, FenceSignaled
<1>11. CASE StaySuspended
  BY <1>11, FrameAssumption DEF StaySuspended, BeginRecording, ReturnFromBeginFrame
<1>12. CASE LeaveSuspension
  BY <1>12, FrameAssumption DEF LeaveSuspension, RecreateSurface, RecreateSwapchain, ImagesGone, BeginRecording,
         ReturnFromBeginFrame, WaitIdle
<1>13. CASE AcquireNextImage
  BY <1>13, FrameAssumption DEF AcquireNextImage, ImageFree, BeginRecording, ReturnFromBeginFrame
<1>14. CASE AcquireOutdated
  BY <1>14, FrameAssumption DEF AcquireOutdated, RecreateSwapchain, ImagesGone, AcquireAgain, ReturnFromBeginFrame,
         WaitIdle
<1>15. CASE AcquireSurfaceLost
  BY <1>15, FrameAssumption DEF AcquireSurfaceLost, RecreateSurface, RecreateSwapchain, ImagesGone, AcquireAgain,
         ReturnFromBeginFrame, WaitIdle
<1>16. CASE CreateBackBufferTexture
  BY <1>16, FrameAssumption DEF CreateBackBufferTexture
<1>17. CASE PresentFails \/ ResizeFails
  BY <1>17, FrameAssumption DEF PresentFails, ResizeFails
<1>18. CASE GpuCompletes
  <2>1. /\ 1 \in DOMAIN queue /\ Head(queue) = queue[1]
        /\ \A i \in DOMAIN queue' : /\ i \in Nat \ {0} /\ i + 1 \in DOMAIN queue
                                    /\ queue'[i] = queue[i + 1]
    BY <1>18, QueueShifts DEF GpuCompletes
  <2>2. \A i \in DOMAIN queue : i \in Nat /\ queue[i].frame \in Frames /\ queue[i].value \in 1 .. MaxFrames
    BY QueueElements
  <2> QED
    BY <1>18, <2>1, <2>2, FrameAssumption DEF GpuCompletes
<1>19. CASE PresentConsumed
  BY <1>19, FrameAssumption DEF PresentConsumed
<1>20. CASE WindowChanges
  BY <1>20, FrameAssumption DEF WindowChanges
<1>21. CASE UNCHANGED vars
  BY <1>21
<1> QED
  BY <1>1, <1>2, <1>3, <1>4, <1>5, <1>6, <1>7, <1>8, <1>9, <1>10, <1>11, <1>12, <1>13,
     <1>14, <1>15, <1>16, <1>17, <1>18, <1>19, <1>20, <1>21 DEF Next, PresentStep

(* Nor has any context whose command buffer is recording.                  *)
LEMMA RecordingIdleNext ==
  IInv /\ [Next]_vars => RecordingIdle'
<1> SUFFICES ASSUME IInv, [Next]_vars PROVE RecordingIdle'
  OBVIOUS
<1> USE DEF IInv, HostTypes, OneSubmission, ContextIdle, RecordingIdle, Idle, vars, hostVars, swapVars, deferredVars, deviceVars, windowVars
<1>1. CASE Upload
  BY <1>1, FrameAssumption DEF Upload, Retire, RetireValue, Recordable, WaitIdle
<1>2. CASE SetPresentParameters
  BY <1>2, FrameAssumption DEF SetPresentParameters, RecreateSwapchain, WaitIdle
<1>3. CASE ScenePresents
  BY <1>3, FrameAssumption DEF ScenePresents
<1>4. CASE Destroy
  BY <1>4, FrameAssumption DEF Destroy, WaitIdle
<1>5. CASE TransitionBackBuffer
  BY <1>5, FrameAssumption DEF TransitionBackBuffer
<1>6. CASE EndFrameSuspended
  BY <1>6, FrameAssumption DEF EndFrameSuspended
<1>7. CASE EndFrame
  <2> DEFINE s == [frame |-> frameIndex, value |-> timeline[frameIndex] + 1, uses |-> references]
  <2>1. s \in Submissions
    BY <1>7, SubmissionTyped
  <2>2. queue' = Append(queue, s)
    BY <1>7 DEF EndFrame
  <2> HIDE DEF s
  <2>3. \A i \in DOMAIN queue' : \/ i \in DOMAIN queue /\ queue'[i] = queue[i]
                                 \/ i = Len(queue) + 1 /\ i \notin DOMAIN queue /\ queue'[i] = s
    BY <2>1, <2>2, QueueGrows
  <2>4. \A i \in DOMAIN queue : i \in Nat /\ queue[i].frame \in Frames /\ queue[i].value \in 1 .. MaxFrames
    BY QueueElements
  <2>5. s.frame = frameIndex /\ s.value = timeline[frameIndex] + 1 /\ s.uses = references
    BY DEF s
  <2> QED
    BY <1>7, <2>3, <2>4, <2>5, FrameAssumption DEF EndFrame
<1>8. CASE QueuePresent
  BY <1>8, FrameAssumption DEF QueuePresent, ImagesGone, NextFrameIndex
<1>9. CASE BeginFrame
  BY <1>9, FrameAssumption DEF BeginFrame, RecreateSurface, RecreateSwapchain, ImagesGone, WaitIdle
<1>10. CASE WaitForFence
  BY <1>10, FrameAssumption DEF WaitForFence, DrainDeferred, Drained, FenceSignaled
<1>11. CASE StaySuspended
  BY <1>11, FrameAssumption DEF StaySuspended, BeginRecording, ReturnFromBeginFrame
<1>12. CASE LeaveSuspension
  BY <1>12, FrameAssumption DEF LeaveSuspension, RecreateSurface, RecreateSwapchain, ImagesGone, BeginRecording,
         ReturnFromBeginFrame, WaitIdle
<1>13. CASE AcquireNextImage
  BY <1>13, FrameAssumption DEF AcquireNextImage, ImageFree, BeginRecording, ReturnFromBeginFrame
<1>14. CASE AcquireOutdated
  BY <1>14, FrameAssumption DEF AcquireOutdated, RecreateSwapchain, ImagesGone, AcquireAgain, ReturnFromBeginFrame,
         WaitIdle
<1>15. CASE AcquireSurfaceLost
  BY <1>15, FrameAssumption DEF AcquireSurfaceLost, RecreateSurface, RecreateSwapchain, ImagesGone, AcquireAgain,
         ReturnFromBeginFrame, WaitIdle
<1>16. CASE CreateBackBufferTexture
  BY <1>16, FrameAssumption DEF CreateBackBufferTexture
<1>17. CASE PresentFails \/ ResizeFails
  BY <1>17, FrameAssumption DEF PresentFails, ResizeFails
<1>18. CASE GpuCompletes
  <2>1. /\ 1 \in DOMAIN queue /\ Head(queue) = queue[1]
        /\ \A i \in DOMAIN queue' : /\ i \in Nat \ {0} /\ i + 1 \in DOMAIN queue
                                    /\ queue'[i] = queue[i + 1]
    BY <1>18, QueueShifts DEF GpuCompletes
  <2>2. \A i \in DOMAIN queue : i \in Nat /\ queue[i].frame \in Frames /\ queue[i].value \in 1 .. MaxFrames
    BY QueueElements
  <2> QED
    BY <1>18, <2>1, <2>2, FrameAssumption DEF GpuCompletes
<1>19. CASE PresentConsumed
  BY <1>19, FrameAssumption DEF PresentConsumed
<1>20. CASE WindowChanges
  BY <1>20, FrameAssumption DEF WindowChanges
<1>21. CASE UNCHANGED vars
  BY <1>21
<1> QED
  BY <1>1, <1>2, <1>3, <1>4, <1>5, <1>6, <1>7, <1>8, <1>9, <1>10, <1>11, <1>12, <1>13,
     <1>14, <1>15, <1>16, <1>17, <1>18, <1>19, <1>20, <1>21 DEF Next, PresentStep

(* The swapchain, the acquired image and the back buffer stay in step.     *)
LEMMA ImageTrackedNext ==
  IInv /\ [Next]_vars => ImageTracked'
<1> SUFFICES ASSUME IInv, [Next]_vars PROVE ImageTracked'
  OBVIOUS
<1> USE DEF IInv, HostTypes, FlagTypes, ImageTracked, Recordable, vars, hostVars, swapVars, deferredVars, deviceVars, windowVars
<1>1. CASE Upload
  BY <1>1 DEF Upload, Retire, RetireValue, Recordable, WaitIdle
<1>2. CASE SetPresentParameters
  BY <1>2 DEF SetPresentParameters, RecreateSwapchain, WaitIdle
<1>3. CASE ScenePresents
  BY <1>3 DEF ScenePresents
<1>4. CASE Destroy
  BY <1>4 DEF Destroy, WaitIdle
<1>5. CASE TransitionBackBuffer
  BY <1>5 DEF TransitionBackBuffer
<1>6. CASE EndFrameSuspended
  BY <1>6 DEF EndFrameSuspended
<1>7. CASE EndFrame
  BY <1>7 DEF EndFrame
<1>8. CASE QueuePresent
  BY <1>8 DEF QueuePresent, ImagesGone, NextFrameIndex
<1>9. CASE BeginFrame
  BY <1>9 DEF BeginFrame, RecreateSurface, RecreateSwapchain, ImagesGone, WaitIdle
<1>10. CASE WaitForFence
  BY <1>10 DEF WaitForFence, DrainDeferred, Drained, FenceSignaled
<1>11. CASE StaySuspended
  BY <1>11 DEF StaySuspended, BeginRecording, ReturnFromBeginFrame
<1>12. CASE LeaveSuspension
  BY <1>12 DEF LeaveSuspension, RecreateSurface, RecreateSwapchain, ImagesGone, BeginRecording,
         ReturnFromBeginFrame, WaitIdle
<1>13. CASE AcquireNextImage
  BY <1>13 DEF AcquireNextImage, ImageFree, BeginRecording, ReturnFromBeginFrame
<1>14. CASE AcquireOutdated
  BY <1>14 DEF AcquireOutdated, RecreateSwapchain, ImagesGone, AcquireAgain, ReturnFromBeginFrame,
         WaitIdle
<1>15. CASE AcquireSurfaceLost
  BY <1>15 DEF AcquireSurfaceLost, RecreateSurface, RecreateSwapchain, ImagesGone, AcquireAgain,
         ReturnFromBeginFrame, WaitIdle
<1>16. CASE CreateBackBufferTexture
  BY <1>16 DEF CreateBackBufferTexture
<1>17. CASE PresentFails \/ ResizeFails
  BY <1>17 DEF PresentFails, ResizeFails
<1>18. CASE GpuCompletes
  BY <1>18 DEF GpuCompletes
<1>19. CASE PresentConsumed
  BY <1>19 DEF PresentConsumed
<1>20. CASE WindowChanges
  BY <1>20 DEF WindowChanges
<1>21. CASE UNCHANGED vars
  BY <1>21
<1> QED
  BY <1>1, <1>2, <1>3, <1>4, <1>5, <1>6, <1>7, <1>8, <1>9, <1>10, <1>11, <1>12, <1>13,
     <1>14, <1>15, <1>16, <1>17, <1>18, <1>19, <1>20, <1>21 DEF Next, PresentStep

(* The fence of a frame that will be submitted stays reset.                *)
LEMMA FenceResetNext ==
  IInv /\ [Next]_vars => FenceReset'
<1> SUFFICES ASSUME IInv, [Next]_vars PROVE FenceReset'
  OBVIOUS
<1> USE DEF IInv, HostTypes, FlagTypes, FenceReset, ImageTracked, ContextIdle, Idle, Recordable, vars, hostVars, swapVars, deferredVars, deviceVars, windowVars
<1>1. CASE Upload
  BY <1>1, FrameAssumption DEF Upload, Retire, RetireValue, Recordable, WaitIdle
<1>2. CASE SetPresentParameters
  BY <1>2, FrameAssumption DEF SetPresentParameters, RecreateSwapchain, WaitIdle
<1>3. CASE ScenePresents
  BY <1>3, FrameAssumption DEF ScenePresents
<1>4. CASE Destroy
  BY <1>4, FrameAssumption DEF Destroy, WaitIdle
<1>5. CASE TransitionBackBuffer
  BY <1>5, FrameAssumption DEF TransitionBackBuffer
<1>6. CASE EndFrameSuspended
  BY <1>6, FrameAssumption DEF EndFrameSuspended
<1>7. CASE EndFrame
  BY <1>7, FrameAssumption DEF EndFrame
<1>8. CASE QueuePresent
  BY <1>8, FrameAssumption DEF QueuePresent, ImagesGone, NextFrameIndex
<1>9. CASE BeginFrame
  BY <1>9, FrameAssumption DEF BeginFrame, RecreateSurface, RecreateSwapchain, ImagesGone, WaitIdle
<1>10. CASE WaitForFence
  BY <1>10, FrameAssumption DEF WaitForFence, DrainDeferred, Drained, FenceSignaled
<1>11. CASE StaySuspended
  BY <1>11, FrameAssumption DEF StaySuspended, BeginRecording, ReturnFromBeginFrame
<1>12. CASE LeaveSuspension
  BY <1>12, FrameAssumption DEF LeaveSuspension, RecreateSurface, RecreateSwapchain, ImagesGone, BeginRecording,
         ReturnFromBeginFrame, WaitIdle
<1>13. CASE AcquireNextImage
  BY <1>13, FrameAssumption DEF AcquireNextImage, ImageFree, BeginRecording, ReturnFromBeginFrame
<1>14. CASE AcquireOutdated
  BY <1>14, FrameAssumption DEF AcquireOutdated, RecreateSwapchain, ImagesGone, AcquireAgain, ReturnFromBeginFrame,
         WaitIdle
<1>15. CASE AcquireSurfaceLost
  BY <1>15, FrameAssumption DEF AcquireSurfaceLost, RecreateSurface, RecreateSwapchain, ImagesGone, AcquireAgain,
         ReturnFromBeginFrame, WaitIdle
<1>16. CASE CreateBackBufferTexture
  BY <1>16, FrameAssumption DEF CreateBackBufferTexture
<1>17. CASE PresentFails \/ ResizeFails
  BY <1>17, FrameAssumption DEF PresentFails, ResizeFails
<1>18. CASE GpuCompletes
  <2>1. /\ 1 \in DOMAIN queue /\ Head(queue) = queue[1]
        /\ \A i \in DOMAIN queue' : /\ i \in Nat \ {0} /\ i + 1 \in DOMAIN queue
                                    /\ queue'[i] = queue[i + 1]
    BY <1>18, QueueShifts DEF GpuCompletes
  <2>2. \A i \in DOMAIN queue : i \in Nat /\ queue[i].frame \in Frames /\ queue[i].value \in 1 .. MaxFrames
    BY QueueElements
  <2> QED
    BY <1>18, <2>1, <2>2, FrameAssumption DEF GpuCompletes
<1>19. CASE PresentConsumed
  BY <1>19, FrameAssumption DEF PresentConsumed
<1>20. CASE WindowChanges
  BY <1>20, FrameAssumption DEF WindowChanges
<1>21. CASE UNCHANGED vars
  BY <1>21
<1> QED
  BY <1>1, <1>2, <1>3, <1>4, <1>5, <1>6, <1>7, <1>8, <1>9, <1>10, <1>11, <1>12, <1>13,
     <1>14, <1>15, <1>16, <1>17, <1>18, <1>19, <1>20, <1>21 DEF Next, PresentStep


(* The types of the staging buffers, and the limit of the deferred list.   *)
LEMMA StagingTypesNext ==
  IInv /\ [Next]_vars => StagingTypes'
<1> SUFFICES ASSUME IInv, [Next]_vars PROVE StagingTypes'
  OBVIOUS
<1> USE DEF IInv, StagingTypes, vars, hostVars, swapVars, deferredVars, deviceVars, windowVars
<1>1. CASE Upload
  <2> DEFINE e == [id |-> uploads', value |-> RetireValue]
             kept == IF Cardinality(deferred) >= MaxDeferred THEN {} ELSE deferred
  <2>1. uploads' \in Staging /\ uploads' \in 0 .. MaxUploads
    BY <1>1, FrameAssumption DEF Upload, Staging
  <2>2. e \in [id : Staging, value : 1 .. MaxFrames + 1]
    BY <2>1, FrameAssumption DEF RetireValue, HostTypes
  <2>3. deferred' = kept \cup {e} /\ references' = references \cup {uploads'}
    BY <1>1 DEF Upload, Retire
  <2>4. IsFiniteSet(kept) /\ Cardinality(kept) < MaxDeferred /\ Cardinality(kept) \in Nat
    BY FS_EmptySet, FS_CardinalityType, FrameAssumption
  <2>5. kept \subseteq deferred
    OBVIOUS
  <2>6. destroyed' \subseteq Staging
    BY <1>1 DEF Upload, Retire
  <2> HIDE DEF e, kept
  <2>7. IsFiniteSet(kept \cup {e}) /\ Cardinality(kept \cup {e}) <= MaxDeferred
    <3>1. /\ IsFiniteSet(kept \cup {e})
          /\ \/ Cardinality(kept \cup {e}) = Cardinality(kept)
             \/ Cardinality(kept \cup {e}) = Cardinality(kept) + 1
      BY <2>4, FS_AddElement
    <3> QED
      BY <2>4, <3>1, FrameAssumption
  <2> QED
    BY <2>1, <2>2, <2>3, <2>5, <2>6, <2>7
<1>2. CASE SetPresentParameters
  BY <1>2 DEF SetPresentParameters, RecreateSwapchain, WaitIdle
<1>3. CASE ScenePresents
  BY <1>3 DEF ScenePresents
<1>4. CASE Destroy
  BY <1>4, FS_EmptySet, FrameAssumption DEF Destroy
<1>5. CASE TransitionBackBuffer
  BY <1>5 DEF TransitionBackBuffer
<1>6. CASE EndFrameSuspended
  BY <1>6 DEF EndFrameSuspended
<1>7. CASE EndFrame
  BY <1>7 DEF EndFrame
<1>8. CASE QueuePresent
  BY <1>8 DEF QueuePresent, ImagesGone, NextFrameIndex
<1>9. CASE BeginFrame
  BY <1>9 DEF BeginFrame, RecreateSurface, RecreateSwapchain, ImagesGone, WaitIdle
<1>10. CASE WaitForFence
  <2>1. deferred' \subseteq deferred
    BY <1>10 DEF WaitForFence, DrainDeferred
  <2>2. IsFiniteSet(deferred') /\ Cardinality(deferred') <= Cardinality(deferred)
    BY <2>1, FS_Subset
  <2>3. Cardinality(deferred') \in Nat /\ Cardinality(deferred) \in Nat
    BY <2>2, FS_CardinalityType
  <2>4. destroyed' \subseteq Staging
    BY <1>10 DEF WaitForFence, DrainDeferred, Drained
  <2> QED
    BY <1>10, <2>1, <2>2, <2>3, <2>4, FrameAssumption DEF WaitForFence, DrainDeferred
<1>11. CASE StaySuspended
  BY <1>11 DEF StaySuspended, BeginRecording, ReturnFromBeginFrame
<1>12. CASE LeaveSuspension
  BY <1>12 DEF LeaveSuspension, RecreateSurface, RecreateSwapchain, ImagesGone, BeginRecording,
         ReturnFromBeginFrame, WaitIdle
<1>13. CASE AcquireNextImage
  BY <1>13 DEF AcquireNextImage, ImageFree, BeginRecording, ReturnFromBeginFrame
<1>14. CASE AcquireOutdated
  BY <1>14 DEF AcquireOutdated, RecreateSwapchain, ImagesGone, AcquireAgain, ReturnFromBeginFrame,
         WaitIdle
<1>15. CASE AcquireSurfaceLost
  BY <1>15 DEF AcquireSurfaceLost, RecreateSurface, RecreateSwapchain, ImagesGone, AcquireAgain,
         ReturnFromBeginFrame, WaitIdle
<1>16. CASE CreateBackBufferTexture
  BY <1>16 DEF CreateBackBufferTexture
<1>17. CASE PresentFails \/ ResizeFails
  BY <1>17 DEF PresentFails, ResizeFails
<1>18. CASE GpuCompletes
  BY <1>18 DEF GpuCompletes
<1>19. CASE PresentConsumed
  BY <1>19 DEF PresentConsumed
<1>20. CASE WindowChanges
  BY <1>20 DEF WindowChanges
<1>21. CASE UNCHANGED vars
  BY <1>21
<1> QED
  BY <1>1, <1>2, <1>3, <1>4, <1>5, <1>6, <1>7, <1>8, <1>9, <1>10, <1>11, <1>12, <1>13,
     <1>14, <1>15, <1>16, <1>17, <1>18, <1>19, <1>20, <1>21 DEF Next, PresentStep

-----------------------------------------------------------------------------
(* The staging buffers of a scene that uploads in its first frame only, and *)
(* no more of them than the deferred list holds: the milestone scene.       *)

FirstFrameUploads == UploadFrames \subseteq {0} /\ MaxUploads <= MaxDeferred

\* Until the first frame ends nothing has been submitted or destroyed; afterwards the command
\* buffer being recorded refers to no staging buffer, and in the queue only the very first
\* submission does, before any timeline has moved.
FirstFrame ==
    /\ phase \notin {"scene", "transition", "endFrame", "failed", "destroyed"} => frameNumber > 0
    /\ references # {} => frameNumber = 0
    /\ frameNumber = 0 => /\ \A f \in Frames : completed[f] = 0
                          /\ queue = <<>>
                          /\ phase # "destroyed" => destroyed = {}
    /\ Cardinality(deferred) <= uploads
    /\ \A i \in DOMAIN queue :
          queue[i].uses # {} => i = 1 /\ \A f \in Frames : completed[f] = 0

StagingKept ==
    \A x \in destroyed : x \notin references /\ \A i \in DOMAIN queue : x \notin queue[i].uses

(* StagingKept is NoDestroyInUse, one staging buffer at a time.            *)
LEMMA KeptMeansUnused ==
  StagingKept <=> NoDestroyInUse
BY DEF StagingKept, NoDestroyInUse

(* Where the staging buffers of the first frame are.                       *)
LEMMA FirstFrameNext ==
  IInv /\ FirstFrame /\ FirstFrameUploads /\ [Next]_vars => FirstFrame'
<1> SUFFICES ASSUME IInv /\ FirstFrame /\ FirstFrameUploads, [Next]_vars PROVE FirstFrame'
  OBVIOUS
<1> USE DEF IInv, FirstFrame, HostTypes, vars, hostVars, swapVars, deferredVars, deviceVars, windowVars
<1>1. CASE Upload
  <2>1. frameNumber = 0 /\ uploads < MaxUploads /\ uploads' = uploads + 1 /\ phase = "scene"
    BY <1>1 DEF Upload, FirstFrameUploads
  <2>2. IsFiniteSet(deferred) /\ Cardinality(deferred) \in Nat /\ uploads \in Nat
    BY FS_CardinalityType, FrameAssumption DEF StagingTypes
  <2>3. Cardinality(deferred) < MaxDeferred
    BY <2>1, <2>2, FrameAssumption DEF FirstFrameUploads
  <2> DEFINE e == [id |-> uploads', value |-> RetireValue]
  <2>4. deferred' = deferred \cup {e}
    BY <1>1, <2>2, <2>3, FrameAssumption DEF Upload, Retire
  <2> HIDE DEF e
  <2>5. \/ Cardinality(deferred \cup {e}) = Cardinality(deferred)
        \/ Cardinality(deferred \cup {e}) = Cardinality(deferred) + 1
    BY <2>2, FS_AddElement
  <2>6. Cardinality(deferred') <= uploads'
    BY <2>1, <2>2, <2>4, <2>5
  <2>7. destroyed' = destroyed
    BY <1>1, <2>2, <2>3, FrameAssumption DEF Upload, Retire
  <2> QED
    BY <1>1, <2>1, <2>6, <2>7 DEF Upload
<1>2. CASE SetPresentParameters
  BY <1>2, FrameAssumption DEF SetPresentParameters, RecreateSwapchain, WaitIdle
<1>3. CASE ScenePresents
  BY <1>3, FrameAssumption DEF ScenePresents
<1>4. CASE Destroy
  <2>1. Cardinality(deferred') = 0 /\ uploads' = uploads /\ uploads \in Nat
    BY <1>4, FS_EmptySet, FrameAssumption DEF Destroy, StagingTypes
  <2> QED
    BY <1>4, <2>1 DEF Destroy
<1>5. CASE TransitionBackBuffer
  BY <1>5, FrameAssumption DEF TransitionBackBuffer
<1>6. CASE EndFrameSuspended
  BY <1>6, FrameAssumption DEF EndFrameSuspended
<1>7. CASE EndFrame
  <2> DEFINE s == [frame |-> frameIndex, value |-> timeline[frameIndex] + 1, uses |-> references]
  <2>1. s \in Submissions
    BY <1>7, SubmissionTyped
  <2>2. queue' = Append(queue, s)
    BY <1>7 DEF EndFrame
  <2> HIDE DEF s
  <2>3. \A i \in DOMAIN queue' : \/ i \in DOMAIN queue /\ queue'[i] = queue[i]
                                 \/ i = Len(queue) + 1 /\ i \notin DOMAIN queue /\ queue'[i] = s
    BY <2>1, <2>2, QueueGrows
  <2>4. \A i \in DOMAIN queue : i \in Nat /\ queue[i].frame \in Frames /\ queue[i].value \in 1 .. MaxFrames
    BY QueueElements
  <2>5. s.frame = frameIndex /\ s.value = timeline[frameIndex] + 1 /\ s.uses = references
    BY DEF s
  <2> QED
    BY <1>7, <2>3, <2>4, <2>5, FrameAssumption DEF EndFrame
<1>8. CASE QueuePresent
  BY <1>8, FrameAssumption DEF QueuePresent, ImagesGone, NextFrameIndex
<1>9. CASE BeginFrame
  BY <1>9, FrameAssumption DEF BeginFrame, RecreateSurface, RecreateSwapchain, ImagesGone, WaitIdle
<1>10. CASE WaitForFence
  <2>1. deferred' \subseteq deferred
    BY <1>10 DEF WaitForFence, DrainDeferred
  <2>2. IsFiniteSet(deferred) /\ uploads \in Nat
    BY FrameAssumption DEF StagingTypes
  <2>3. Cardinality(deferred') <= Cardinality(deferred)
    BY <2>1, <2>2, FS_Subset
  <2>4. Cardinality(deferred') \in Nat /\ Cardinality(deferred) \in Nat
    BY <2>1, <2>2, FS_Subset, FS_CardinalityType
  <2>5. Cardinality(deferred') <= uploads'
    BY <1>10, <2>2, <2>3, <2>4 DEF WaitForFence, DrainDeferred
  <2> QED
    BY <1>10, <2>5 DEF WaitForFence, HostTypes
<1>11. CASE StaySuspended
  BY <1>11, FrameAssumption DEF StaySuspended, BeginRecording, ReturnFromBeginFrame
<1>12. CASE LeaveSuspension
  BY <1>12, FrameAssumption DEF LeaveSuspension, RecreateSurface, RecreateSwapchain, ImagesGone, BeginRecording,
         ReturnFromBeginFrame, WaitIdle
<1>13. CASE AcquireNextImage
  BY <1>13, FrameAssumption DEF AcquireNextImage, ImageFree, BeginRecording, ReturnFromBeginFrame
<1>14. CASE AcquireOutdated
  BY <1>14, FrameAssumption DEF AcquireOutdated, RecreateSwapchain, ImagesGone, AcquireAgain, ReturnFromBeginFrame,
         WaitIdle
<1>15. CASE AcquireSurfaceLost
  BY <1>15, FrameAssumption DEF AcquireSurfaceLost, RecreateSurface, RecreateSwapchain, ImagesGone, AcquireAgain,
         ReturnFromBeginFrame, WaitIdle
<1>16. CASE CreateBackBufferTexture
  BY <1>16, FrameAssumption DEF CreateBackBufferTexture
<1>17. CASE PresentFails \/ ResizeFails
  BY <1>17, FrameAssumption DEF PresentFails, ResizeFails
<1>18. CASE GpuCompletes
  <2>1. /\ 1 \in DOMAIN queue /\ Head(queue) = queue[1]
        /\ \A i \in DOMAIN queue' : /\ i \in Nat \ {0} /\ i + 1 \in DOMAIN queue
                                    /\ queue'[i] = queue[i + 1]
    BY <1>18, QueueShifts DEF GpuCompletes
  <2>2. UNCHANGED <<phase, references, frameNumber, deferred, uploads, destroyed>>
    BY <1>18 DEF GpuCompletes
  <2>3. frameNumber # 0
    BY <1>18 DEF GpuCompletes
  <2>4. ASSUME NEW i \in DOMAIN queue' PROVE queue'[i].uses = {}
    <3>1. i + 1 # 1
      BY <2>1
    <3> QED
      BY <2>1, <3>1
  <2> QED
    BY <2>2, <2>3, <2>4
<1>19. CASE PresentConsumed
  BY <1>19, FrameAssumption DEF PresentConsumed
<1>20. CASE WindowChanges
  BY <1>20, FrameAssumption DEF WindowChanges
<1>21. CASE UNCHANGED vars
  BY <1>21
<1> QED
  BY <1>1, <1>2, <1>3, <1>4, <1>5, <1>6, <1>7, <1>8, <1>9, <1>10, <1>11, <1>12, <1>13,
     <1>14, <1>15, <1>16, <1>17, <1>18, <1>19, <1>20, <1>21 DEF Next, PresentStep

(* No staging buffer is destroyed while it is in use.                      *)
LEMMA StagingKeptNext ==
  IInv /\ FirstFrame /\ FirstFrameUploads /\ StagingKept /\ [Next]_vars => StagingKept'
<1> SUFFICES ASSUME IInv /\ FirstFrame /\ FirstFrameUploads /\ StagingKept, [Next]_vars PROVE StagingKept'
  OBVIOUS
<1> USE DEF IInv, FirstFrame, HostTypes, StagingKept, vars, hostVars, swapVars, deferredVars, deviceVars, windowVars
<1>1. CASE Upload
  <2>1. frameNumber = 0 /\ uploads < MaxUploads /\ phase = "scene"
    BY <1>1 DEF Upload, FirstFrameUploads
  <2>2. Cardinality(deferred) \in Nat /\ uploads \in Nat
    BY FS_CardinalityType, FrameAssumption DEF StagingTypes
  <2>3. Cardinality(deferred) < MaxDeferred
    BY <2>1, <2>2, FrameAssumption DEF FirstFrameUploads
  <2> QED
    BY <1>1, <2>1, <2>2, <2>3, FrameAssumption DEF Upload, Retire
<1>2. CASE SetPresentParameters
  BY <1>2 DEF SetPresentParameters, RecreateSwapchain, WaitIdle
<1>3. CASE ScenePresents
  BY <1>3 DEF ScenePresents
<1>4. CASE Destroy
  BY <1>4 DEF Destroy, WaitIdle
<1>5. CASE TransitionBackBuffer
  BY <1>5 DEF TransitionBackBuffer
<1>6. CASE EndFrameSuspended
  BY <1>6 DEF EndFrameSuspended
<1>7. CASE EndFrame
  <2> DEFINE s == [frame |-> frameIndex, value |-> timeline[frameIndex] + 1, uses |-> references]
  <2>1. s \in Submissions
    BY <1>7, SubmissionTyped
  <2>2. queue' = Append(queue, s)
    BY <1>7 DEF EndFrame
  <2> HIDE DEF s
  <2>3. \A i \in DOMAIN queue' : \/ i \in DOMAIN queue /\ queue'[i] = queue[i]
                                 \/ i = Len(queue) + 1 /\ i \notin DOMAIN queue /\ queue'[i] = s
    BY <2>1, <2>2, QueueGrows
  <2>4. \A i \in DOMAIN queue : i \in Nat /\ queue[i].frame \in Frames /\ queue[i].value \in 1 .. MaxFrames
    BY QueueElements
  <2>5. s.frame = frameIndex /\ s.value = timeline[frameIndex] + 1 /\ s.uses = references
    BY DEF s
  <2> QED
    BY <1>7, <2>3, <2>4, <2>5, FrameAssumption DEF EndFrame
<1>8. CASE QueuePresent
  BY <1>8 DEF QueuePresent, ImagesGone, NextFrameIndex
<1>9. CASE BeginFrame
  BY <1>9 DEF BeginFrame, RecreateSurface, RecreateSwapchain, ImagesGone, WaitIdle
<1>10. CASE WaitForFence
  <2>1. references' = {} /\ queue' = queue
    BY <1>10 DEF WaitForFence
  <2>2. SUFFICES ASSUME NEW x \in destroyed', x \notin destroyed
                 PROVE  \A i \in DOMAIN queue : x \notin queue[i].uses
    BY <2>1
  <2>3. PICK e \in deferred : e.value <= completed[frameIndex]
    BY <1>10, <2>2 DEF WaitForFence, DrainDeferred, Drained
  <2>4. e.value \in 1 .. MaxFrames + 1
    BY DEF StagingTypes
  <2>5. completed[frameIndex] # 0
    BY <2>3, <2>4, FrameAssumption
  <2> QED
    BY <2>5
<1>11. CASE StaySuspended
  BY <1>11 DEF StaySuspended, BeginRecording, ReturnFromBeginFrame
<1>12. CASE LeaveSuspension
  BY <1>12 DEF LeaveSuspension, RecreateSurface, RecreateSwapchain, ImagesGone, BeginRecording,
         ReturnFromBeginFrame, WaitIdle
<1>13. CASE AcquireNextImage
  BY <1>13 DEF AcquireNextImage, ImageFree, BeginRecording, ReturnFromBeginFrame
<1>14. CASE AcquireOutdated
  BY <1>14 DEF AcquireOutdated, RecreateSwapchain, ImagesGone, AcquireAgain, ReturnFromBeginFrame,
         WaitIdle
<1>15. CASE AcquireSurfaceLost
  BY <1>15 DEF AcquireSurfaceLost, RecreateSurface, RecreateSwapchain, ImagesGone, AcquireAgain,
         ReturnFromBeginFrame, WaitIdle
<1>16. CASE CreateBackBufferTexture
  BY <1>16 DEF CreateBackBufferTexture
<1>17. CASE PresentFails \/ ResizeFails
  BY <1>17 DEF PresentFails, ResizeFails
<1>18. CASE GpuCompletes
  <2>1. /\ 1 \in DOMAIN queue /\ Head(queue) = queue[1]
        /\ \A i \in DOMAIN queue' : /\ i \in Nat \ {0} /\ i + 1 \in DOMAIN queue
                                    /\ queue'[i] = queue[i + 1]
    BY <1>18, QueueShifts DEF GpuCompletes
  <2>2. \A i \in DOMAIN queue : i \in Nat /\ queue[i].frame \in Frames /\ queue[i].value \in 1 .. MaxFrames
    BY QueueElements
  <2> QED
    BY <1>18, <2>1, <2>2, FrameAssumption DEF GpuCompletes
<1>19. CASE PresentConsumed
  BY <1>19 DEF PresentConsumed
<1>20. CASE WindowChanges
  BY <1>20 DEF WindowChanges
<1>21. CASE UNCHANGED vars
  BY <1>21
<1> QED
  BY <1>1, <1>2, <1>3, <1>4, <1>5, <1>6, <1>7, <1>8, <1>9, <1>10, <1>11, <1>12, <1>13,
     <1>14, <1>15, <1>16, <1>17, <1>18, <1>19, <1>20, <1>21 DEF Next, PresentStep

-----------------------------------------------------------------------------
(* The theorems. *)

(* The first BeginFrame establishes the inductive invariant.               *)
LEMMA InitEstablishes ==
  Init => IInv
<1> SUFFICES ASSUME Init PROVE IInv
  OBVIOUS
<1> USE FrameAssumption DEF Init
<1>1. HostTypes /\ FlagTypes
  <2>1. fence \in [Frames -> BOOLEAN] /\ acquireSem \in [Frames -> BOOLEAN]
    OBVIOUS
  <2>2. /\ timeline \in [Frames -> 0 .. MaxFrames] /\ completed \in [Frames -> 0 .. MaxFrames]
        /\ buffer \in [Frames -> {"initial", "recording", "pending", "executed"}]
    OBVIOUS
  <2>3. frameIndex \in Frames
    BY DEF Frames
  <2> QED
    BY <2>1, <2>2, <2>3 DEF HostTypes, FlagTypes, Phases
<1>2. StagingTypes
  BY FS_EmptySet DEF StagingTypes
<1>3. QueueTypes
  BY DEF QueueTypes
<1>4. Bounds
  BY DEF Bounds, Frames
<1>5. QueueValues /\ OneSubmission /\ ContextIdle /\ RecordingIdle
  BY DEF QueueValues, OneSubmission, ContextIdle, RecordingIdle, Idle
<1>6. ImageTracked /\ FenceReset
  BY DEF ImageTracked, FenceReset, Recordable, Frames
<1> QED
  BY <1>1, <1>2, <1>3, <1>4, <1>5, <1>6 DEF IInv

(* The inductive invariant holds in every reachable state.                 *)
THEOREM Invariance ==
  Spec => []IInv
<1>1. IInv /\ [Next]_vars => IInv'
  BY HostTypesNext, FlagTypesNext, BoundsNext, QueueTypesNext, QueueValuesNext,
     OneSubmissionNext, ContextIdleNext, RecordingIdleNext, ImageTrackedNext, FenceResetNext,
     StagingTypesNext DEF IInv
<1> QED
  BY <1>1, InitEstablishes, PTL DEF Spec

(* Every variable keeps its type, the deferred list its limit and the      *)
(* frame index names a frame context (Tr2VulkanContext, DeferDestruction,  *)
(* QueuePresent).                                                          *)
THEOREM TypeCorrect ==
  Spec => []TypeOK
<1>1. IInv => TypeOK
  <2> SUFFICES ASSUME IInv PROVE TypeOK
    OBVIOUS
  <2>1. {suspended, swapchain, acquired, surfaceLost, minimized} \subseteq BOOLEAN
    BY DEF IInv, FlagTypes
  <2> QED
    BY <2>1 DEF IInv, TypeOK, HostTypes, FlagTypes, StagingTypes, QueueTypes, Phases
<1> QED
  BY <1>1, Invariance, PTL

(* BeginFrame resets the command pool of a frame context only when the GPU *)
(* has executed what was last recorded from it, for any number of frame    *)
(* contexts and images, through suspensions, recreated swapchains and lost *)
(* surfaces (VulkanContext::BeginFrame, EndFrame).                         *)
THEOREM PoolIdle ==
  Spec => []CommandPoolIdle
<1>1. IInv => CommandPoolIdle
  BY DEF IInv, RecordingIdle, Idle, CommandPoolIdle, InFlight
<1> QED
  BY <1>1, Invariance, PTL

(* The scene draws to, and Present presents, only the image acquired for   *)
(* this frame from the swapchain that exists (VulkanContext::BeginFrame,   *)
(* QueuePresent, Tr2RenderContextAL::Present, CreateBackBufferTexture).    *)
THEOREM ImageAcquired ==
  Spec => []DrawnIsAcquired
<1>1. IInv => DrawnIsAcquired
  BY DEF IInv, FlagTypes, ImageTracked, DrawnIsAcquired, BackBufferCurrent, PresentsOnlyAcquired
<1> QED
  BY <1>1, Invariance, PTL

(* A scene that uploads in its first frame only, and no more than the      *)
(* deferred list holds, never has a staging buffer destroyed that a        *)
(* submission or the command buffer being recorded refers to               *)
(* (VulkanContext::DrainDeferred, UpdateBuffer, UpdateSubresource).        *)
THEOREM StagingOutlivesUse ==
  ASSUME FirstFrameUploads
  PROVE  Spec => []NoDestroyInUse
<1> DEFINE I == IInv /\ FirstFrame /\ StagingKept
<1>1. Init => I
  <2> SUFFICES ASSUME Init PROVE FirstFrame /\ StagingKept
    BY InitEstablishes
  <2> QED
    BY FS_EmptySet DEF Init, FirstFrame, StagingKept, Frames
<1>2. I /\ [Next]_vars => I'
  BY FirstFrameUploads, FirstFrameNext, StagingKeptNext,
     HostTypesNext, FlagTypesNext, BoundsNext, QueueTypesNext, QueueValuesNext,
     OneSubmissionNext, ContextIdleNext, RecordingIdleNext, ImageTrackedNext, FenceResetNext,
     StagingTypesNext DEF IInv
<1>3. I => NoDestroyInUse
  BY KeptMeansUnused
<1> QED
  BY <1>1, <1>2, <1>3, PTL DEF Spec
=============================================================================
