--------------------------- MODULE GraphRecorder ---------------------------
(***************************************************************************)
(* Recording a compiled render graph (Tr2RenderContextVulkan.cpp) for a    *)
(* frame of the milestone scene (stage5_milestone_scene.cpp): the scene    *)
(* declares and compiles a graph, opens a graph frame, hands over the      *)
(* result, registers the texture or buffer behind each resource, records   *)
(* the surviving passes and closes the frame; Present then transitions the *)
(* presented image.  A failed call ends the scene.                         *)
(***************************************************************************)
EXTENDS RenderGraph

CONSTANTS
    TextureLayouts  \* the layouts a texture may be in when a frame starts

ASSUME RecorderAssumption == TextureLayouts \subseteq Layouts

VARIABLES
    scene,         \* where the scene is in its frame
    frameActive,   \* m_graphFrameActive
    graph,         \* m_graph
    atStart,       \* the layout each image's texture is in when the frame begins
    registered,    \* is the texture or buffer registered for a resource valid?
    layout,        \* the layout tracked on the texture of a resource
    activePass,    \* m_graphActivePass, NoPass for INVALID_PASS
    hasRendering,  \* m_graphPassHasRendering
    recorded,      \* the passes the scene's loop has recorded
    commands       \* the frame's command buffer

recorderVars ==
    <<scene, frameActive, graph, atStart, registered, layout, activePass, hasRendering, recorded, commands>>
vars == <<graphVars, recorderVars>>

NoPass == Present

\* The commands whose order matters.
BeginRendering(p) == [op |-> "beginRendering", pass |-> p]
EndRendering == [op |-> "endRendering"]
PassBody(p) == [op |-> "pass", pass |-> p]
BufferTransition(b) == [op |-> "bufferBarrier", resource |-> b.resource, src |-> b.src, dst |-> b.dst]
ImageTransition(b, found) ==
    [op |-> "imageBarrier", resource |-> b.resource, src |-> b.src, dst |-> b.dst,
     oldLayout |-> b.oldLayout, found |-> found]
UploadTransition(r, current) ==
    [op |-> "imageBarrier", resource |-> r, src |-> AnyMemory, dst |-> "TRANSFER_WRITE",
     oldLayout |-> current, found |-> current]

Init ==
    /\ GraphInit
    /\ scene = "declaring" /\ frameActive = FALSE /\ graph = EmptyResult
    /\ atStart = <<>> /\ registered = <<>> /\ layout = <<>> /\ activePass = NoPass
    /\ hasRendering = FALSE /\ recorded = 0 /\ commands = <<>>

SceneDeclares == scene = "declaring" /\ GraphNext /\ UNCHANGED recorderVars

\* Whatever an earlier frame registered is forgotten.  Earlier frames have left the
\* textures in layouts that no call compares with the declared ones.
BeginGraphFrame ==
    /\ scene = "declaring" /\ status = "compiled"
    /\ scene' = "begun"
    /\ frameActive' = TRUE /\ graph' = EmptyResult
    /\ \E start \in [{r \in Resources : resources[r].isImage} -> TextureLayouts] : atStart' = start
    /\ registered' = <<>> /\ layout' = <<>> /\ activePass' = NoPass
    /\ UNCHANGED <<graphVars, hasRendering, recorded, commands>>

SetGraphResult ==
    /\ scene = "begun"
    /\ scene' = "registering" /\ graph' = out
    /\ UNCHANGED <<graphVars, frameActive, atStart, registered, layout, activePass, hasRendering,
                   recorded, commands>>

\* The scene registers its resources in the order of their ids.
Registering(r, isImage) ==
    /\ scene = "registering" /\ frameActive
    /\ r = Len(registered) + 1 /\ r \in Resources /\ resources[r].isImage = isImage
    /\ \E valid \in BOOLEAN : registered' = Append(registered, valid)
    /\ UNCHANGED <<graphVars, scene, frameActive, graph, atStart, activePass, hasRendering,
                   recorded, commands>>

RegisterGraphTexture(r) == Registering(r, TRUE) /\ layout' = Append(layout, atStart[r])

RegisterGraphBuffer(r) == Registering(r, FALSE) /\ layout' = Append(layout, "UNDEFINED")

-----------------------------------------------------------------------------
(* BeginGraphPass, EndGraphPass, EndGraphFrame and Present. *)

BarriersBefore(barriers, p) ==
    Picked(barriers, {i \in DOMAIN barriers : barriers[i].beforePass = p})
AttachmentsOf(p) == {a \in graph.attachments : a.pass = p}

\* The barriers recorded before the first one whose resource is not valid.
ValidPrefix(barriers) ==
    LET invalid == {i \in DOMAIN barriers : ~registered[barriers[i].resource]}
    IN  IF invalid = {} THEN barriers ELSE SubSeq(barriers, 1, Min(invalid) - 1)

\* Barriers are recorded with the layouts the compiler computed; the layout
\* tracked on a texture follows them, and is the one the last of them left.
LayoutsAfter(barriers) ==
    [r \in DOMAIN layout |->
        LET on == {i \in DOMAIN barriers : barriers[i].resource = r}
        IN  IF on = {} THEN layout[r] ELSE barriers[Max(on)].newLayout]

ImageTransitions(barriers) ==
    [i \in DOMAIN barriers |->
        ImageTransition(barriers[i], LayoutsAfter(SubSeq(barriers, 1, i - 1))[barriers[i].resource])]

BufferTransitions(barriers) == [i \in DOMAIN barriers |-> BufferTransition(barriers[i])]

\* The compiled barriers before a pass, image barriers first, in resource order.
ImagesBefore(p) == BarriersBefore(graph.imageBarriers, p)
BuffersBefore(p) == BarriersBefore(graph.bufferBarriers, p)

BarriersValid(p) ==
    \A b \in Range(ImagesBefore(p)) \cup Range(BuffersBefore(p)) : registered[b.resource]
AttachmentsValid(p) == \A a \in AttachmentsOf(p) : registered[a.image]

\* The scene's loop goes through the surviving passes by id.
ExecutionOrder == Picked([p \in Passes |-> p], Range(graph.order))

\* The pass the loop comes to.
AtPass(p) ==
    /\ scene = "registering" /\ Len(registered) = Len(resources)
    /\ frameActive /\ activePass = NoPass
    /\ recorded < Len(ExecutionOrder) /\ p = ExecutionOrder[recorded + 1]

PassBarriers(p) ==
    ImageTransitions(ImagesBefore(p)) \o BufferTransitions(BuffersBefore(p))
        \o (IF AttachmentsOf(p) # {} THEN <<BeginRendering(p)>> ELSE <<>>)

\* What the scene's upload pass declares as transfer writes it fills, textures
\* first.  UpdateSubresource transitions the texture itself, from whatever layout
\* is tracked on it; UpdateBuffer records no barrier.
UploadsTo(p, r) == \E u \in DOMAIN Uses(r) : Uses(r)[u].pass = p /\ Uses(r)[u].access = "TRANSFER_WRITE"
TexturesUploaded(p) == {r \in Resources : resources[r].isImage /\ UploadsTo(p, r)}
BuffersUploaded(p) == {r \in Resources : ~resources[r].isImage /\ UploadsTo(p, r)}

UploadOrder(p) == Picked([r \in Resources |-> r], TexturesUploaded(p))
UploadTransitions(textures, layouts) ==
    [i \in DOMAIN textures |-> UploadTransition(textures[i], layouts[textures[i]])]

\* Mutant: UpdateSubresource leaves m_layout as it was.
LayoutsUploaded_Mutant(textures, layouts) == layouts

LayoutsUploaded(textures, layouts) ==
    [r \in DOMAIN layouts |-> IF r \in textures THEN "TRANSFER_DST_OPTIMAL" ELSE layouts[r]]

PassCommands(p) ==
    PassBarriers(p) \o UploadTransitions(UploadOrder(p), LayoutsAfter(ImagesBefore(p)))
        \o <<PassBody(p)>>

\* BeginGraphPass, and what the scene records before EndGraphPass.
BeginGraphPass(p) ==
    /\ AtPass(p)
    /\ BarriersValid(p) /\ AttachmentsValid(p)
    /\ layout' = LayoutsUploaded(TexturesUploaded(p), LayoutsAfter(ImagesBefore(p)))
    /\ hasRendering' = (AttachmentsOf(p) # {})
    /\ commands' = commands \o PassCommands(p)
    /\ activePass' = p /\ recorded' = recorded + 1
    /\ UNCHANGED <<graphVars, scene, frameActive, graph, atStart, registered>>

\* An invalid resource is noticed when its barrier comes up: the barriers before
\* it are in the command buffer already.
BeginGraphPassFails(p) ==
    /\ AtPass(p)
    /\ ~(BarriersValid(p) /\ AttachmentsValid(p))
    /\ LET images == ValidPrefix(ImagesBefore(p))
           buffers == IF images = ImagesBefore(p) THEN ValidPrefix(BuffersBefore(p)) ELSE <<>>
       IN  /\ layout' = LayoutsAfter(images)
           /\ commands' = commands \o (ImageTransitions(images) \o BufferTransitions(buffers))
    /\ scene' = "exited"
    /\ UNCHANGED <<graphVars, frameActive, graph, atStart, registered, activePass, hasRendering,
                   recorded>>

\* There is no memory to stage an upload, of a texture or of a buffer behind all of
\* them: the scene exits inside the pass.
UploadFails(p) ==
    /\ AtPass(p)
    /\ BarriersValid(p) /\ AttachmentsValid(p)
    /\ \E n \in 0 .. Len(UploadOrder(p)) :
          LET filled == SubSeq(UploadOrder(p), 1, n)
              layouts == LayoutsAfter(ImagesBefore(p))
          IN  /\ n < Len(UploadOrder(p)) \/ BuffersUploaded(p) # {}
              /\ layout' = LayoutsUploaded(Range(filled), layouts)
              /\ commands' = commands \o (PassBarriers(p) \o UploadTransitions(filled, layouts))
    /\ scene' = "exited"
    /\ activePass' = p /\ hasRendering' = (AttachmentsOf(p) # {})
    /\ UNCHANGED <<graphVars, frameActive, graph, atStart, registered, recorded>>

EndGraphPass ==
    /\ scene = "registering" /\ activePass # NoPass
    /\ commands' = commands \o (IF hasRendering THEN <<EndRendering>> ELSE <<>>)
    /\ activePass' = NoPass /\ hasRendering' = FALSE
    /\ UNCHANGED <<graphVars, scene, frameActive, graph, atStart, registered, layout, recorded>>

\* The scene has ended every pass by now.  The present transition the compiler
\* computed is left to Present.
EndGraphFrame ==
    /\ scene = "registering" /\ Len(registered) = Len(resources)
    /\ frameActive /\ activePass = NoPass /\ recorded = Len(ExecutionOrder)
    /\ scene' = "recorded" /\ frameActive' = FALSE
    /\ UNCHANGED <<graphVars, graph, atStart, registered, layout, activePass, hasRendering, recorded,
                   commands>>

\* Present transitions the back buffer, the presented image, from its tracked layout.
PresentFrame ==
    /\ scene = "recorded"
    /\ scene' = "presented"
    /\ layout' = [r \in Resources |-> IF resources[r].presented THEN "PRESENT_SRC" ELSE layout[r]]
    /\ UNCHANGED <<graphVars, frameActive, graph, atStart, registered, activePass, hasRendering,
                   recorded, commands>>

Next ==
    \/ SceneDeclares
    \/ BeginGraphFrame \/ SetGraphResult
    \/ \E r \in 1 .. MaxResources : RegisterGraphTexture(r) \/ RegisterGraphBuffer(r)
    \/ \E p \in 1 .. MaxPasses : BeginGraphPass(p) \/ BeginGraphPassFails(p) \/ UploadFails(p)
    \/ EndGraphPass \/ EndGraphFrame \/ PresentFrame

Spec == Init /\ [][Next]_vars

-----------------------------------------------------------------------------
(* Properties. *)

\* The graphs the scene's loop records in the compiled order: there going by id
\* and going by orderIndex are the same, as for the graph the scene declares.
InOrder == Conformant /\ ExecutionOrder = graph.order

\* Types, and rendering is open in the command buffer exactly while the active
\* pass has attachments.
TypeOK ==
    /\ GraphTypeOK
    /\ scene \in {"declaring", "begun", "registering", "recorded", "presented", "exited"}
    /\ frameActive \in BOOLEAN /\ hasRendering \in BOOLEAN
    /\ Len(registered) <= Len(resources) /\ Len(layout) = Len(registered)
    /\ Range(layout) \subseteq Layouts
    /\ atStart \in [DOMAIN atStart -> Layouts]
    /\ activePass \in {NoPass} \cup Passes
    /\ recorded \in 0 .. Len(graph.order)
    /\ LET opened == Cardinality({i \in DOMAIN commands : commands[i].op = "beginRendering"})
           closed == Cardinality({i \in DOMAIN commands : commands[i].op = "endRendering"})
       IN  opened - closed = (IF hasRendering THEN 1 ELSE 0)

\* The images whose declared initial layout says where their texture is: it is the
\* one the texture is in, or UNDEFINED when the contents may go, or the one an upload
\* leaves, when the first pass that uses the image uploads it.  No call checks this;
\* the scene's declarations have it unless its first frame is skipped.
WellDeclared ==
    {r \in Resources :
        /\ resources[r].isImage
        /\ \/ resources[r].initialLayout \in {"UNDEFINED", atStart[r]}
           \/ /\ resources[r].initialLayout = "TRANSFER_DST_OPTIMAL"
              /\ UploadsTo(graph.lifetimes[r].firstPass, r)}

\* While a pass is active every image it uses is in the layout its access needs,
\* although the barriers were computed along the declarations and recorded along
\* the execution order, a first use declared to be in its layout gets no barrier, and
\* the upload transitions behind the compiler's back.
ImagesInDeclaredLayout ==
    scene = "registering" /\ activePass # NoPass /\ InOrder =>
        \A r \in WellDeclared : \A u \in DOMAIN Uses(r) :
            Uses(r)[u].pass = activePass => layout[r] = LayoutOf(Uses(r)[u].access)

\* Vulkan's rule for a transition: its old layout is the one the image is in, or
\* UNDEFINED.  It holds of every barrier recorded on an image whose declaration says
\* where it is, failing calls included.
OldLayoutsTruthful ==
    InOrder =>
        \A i \in DOMAIN commands :
            commands[i].op = "imageBarrier" /\ commands[i].resource \in WellDeclared =>
                commands[i].oldLayout \in {"UNDEFINED", commands[i].found}

\* What Compile says of the recorder: "the recorder supplies the registered
\* layout as oldLayout".  The code does not meet it: m_graphLayouts is never read.
RegisteredLayoutSupplied ==
    \A i \in DOMAIN commands :
        commands[i].op = "imageBarrier" => commands[i].oldLayout = commands[i].found

\* What the scene says of its loop: "Record the passes in compiled execution order."
\* The loop does not meet it for a graph with a pass that depends on a later one.
RecordedInExecutionOrder ==
    LET recordedPasses == SelectSeq(commands, LAMBDA c : c.op = "pass")
    IN  \A i \in DOMAIN recordedPasses : recordedPasses[i].pass = graph.order[i]

AccessesOf(p, r) ==
    {Uses(r)[u] : u \in {v \in DOMAIN Uses(r) : Uses(r)[v].pass = p}}

IsBarrierOn(command, r) ==
    command.op \in {"imageBarrier", "bufferBarrier"} /\ command.resource = r

\* Whenever two recorded passes use a resource and one of them writes it, the
\* command buffer has a barrier waiting for the first access, and that barrier or
\* a later one before the second pass makes it visible to the second access.
ConflictsSynchronised ==
    InOrder =>
        \A i, j \in DOMAIN commands :
            /\ i < j
            /\ commands[i].op = "pass" /\ commands[j].op = "pass"
            => \A r \in Resources :
                 \A a \in AccessesOf(commands[i].pass, r), b \in AccessesOf(commands[j].pass, r) :
                    IsWrite(a) \/ IsWrite(b) =>
                        \E k, l \in i + 1 .. j - 1 :
                            /\ k <= l
                            /\ IsBarrierOn(commands[k], r) /\ commands[k].src = a.access
                            /\ IsBarrierOn(commands[l], r) /\ commands[l].dst = b.access

\* The present transition the compiler leaves in the result starts from the
\* layout the recorded passes really leave the image in.
PresentTransitionAccurate ==
    scene = "recorded" /\ InOrder =>
        \A b \in Range(graph.imageBarriers) :
            b.beforePass = Present /\ b.resource \in WellDeclared =>
                b.oldLayout \in {"UNDEFINED", layout[b.resource]}

\* Every transition starts from the layout its image is in: those recorded in
\* a pass and the one left for the present.
TransitionsTruthful == OldLayoutsTruthful /\ PresentTransitionAccurate
=============================================================================
