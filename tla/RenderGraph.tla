---------------------------- MODULE RenderGraph ----------------------------
(***************************************************************************)
(* The render graph compiler (Tr2RenderGraphALVulkan.cpp).  A caller       *)
(* declares passes, resources and the uses passes make of resources, in    *)
(* any order, and then calls Compile, which validates the declarations,    *)
(* orders the passes, drops dead ones, and derives the resource lifetimes, *)
(* the attachments and the barriers.  Compile is a pure transformation, so *)
(* it is one step here; what it computes is the operators below.           *)
(*                                                                         *)
(* Pass and resource ids count from 1 (from 0 in the code).  Names,        *)
(* extents, formats and clear values are left out.  The (stage, access)    *)
(* pair of a barrier is abstracted to the access it comes from: both       *)
(* GetImageAccessInfo and GetBufferAccessInfo map accesses to such pairs   *)
(* one to one.                                                             *)
(***************************************************************************)
EXTENDS Integers, Sequences, FiniteSets, SequencesExt, FiniteSetsExt

CONSTANTS
    MaxPasses,      \* MAX_PASS_COUNT
    MaxResources,   \* MAX_RESOURCE_COUNT
    MaxUses,        \* bound on the uses declared on a graph, all resources together
    MaxClears,      \* bound on the attachments set to be cleared
    ColorSlots,     \* the colour attachment slots of a pass (4 in the code)
    InitialLayouts, \* the initial layouts an image is declared with
    ImageReads,     \* the accesses a caller reads images with ...
    ImageWrites,    \* ... and writes them with
    BufferReads,
    BufferWrites

ASSUME BoundsAssumption ==
    /\ MaxPasses \in Nat \ {0} /\ MaxResources \in Nat \ {0}
    /\ MaxUses \in Nat /\ MaxClears \in Nat /\ ColorSlots \in Nat

ASSUME AccessAssumption ==
    /\ ImageReads \subseteq {"SHADER_READ", "TRANSFER_READ"}
    /\ ImageWrites \subseteq {"COLOR_ATTACHMENT", "DEPTH_ATTACHMENT", "TRANSFER_WRITE"}
    /\ BufferReads \subseteq {"VERTEX_READ", "INDEX_READ", "SHADER_READ", "TRANSFER_READ"}
    /\ BufferWrites \subseteq {"TRANSFER_WRITE"}

VARIABLES
    passes,     \* m_passes: a sequence of [cullable]
    resources,  \* m_resources: a sequence of [isImage, initialLayout, presented, uses]
    status,     \* whether Compile was called, and what it returned
    out         \* the CompileResult of Compile

graphVars == <<passes, resources, status, out>>

\* What a barrier names instead of a pass or of an access.
Present == 0
NoAccess == "NONE"
TopOfPipe == "TOP_OF_PIPE"
AnyMemory == "MEMORY"

\* The layout an image must be in for an access (GetImageAccessInfo).
LayoutOf(access) ==
    CASE access = "COLOR_ATTACHMENT" -> "COLOR_ATTACHMENT_OPTIMAL"
      [] access = "DEPTH_ATTACHMENT" -> "DEPTH_STENCIL_ATTACHMENT_OPTIMAL"
      [] access = "SHADER_READ"      -> "SHADER_READ_ONLY_OPTIMAL"
      [] access = "TRANSFER_WRITE"   -> "TRANSFER_DST_OPTIMAL"
      [] access = "TRANSFER_READ"    -> "TRANSFER_SRC_OPTIMAL"

Layouts == {"UNDEFINED", "PRESENT_SRC"} \cup
    {LayoutOf(a) : a \in {"COLOR_ATTACHMENT", "DEPTH_ATTACHMENT", "SHADER_READ",
                          "TRANSFER_WRITE", "TRANSFER_READ"}}

Passes == DOMAIN passes
Resources == DOMAIN resources
Uses(r) == resources[r].uses
IsWrite(use) == ~use.isRead
Attachments == {"COLOR_ATTACHMENT", "DEPTH_ATTACHMENT"}

EmptyResult == [order |-> <<>>, lifetimes |-> <<>>, attachments |-> {},
                imageBarriers |-> <<>>, bufferBarriers |-> <<>>]

-----------------------------------------------------------------------------
(* Declarations. *)

\* A caller compiles a graph once (the scene declares a new one every frame).
Declaring == status = "declaring"

AddImage ==
    /\ Declaring /\ Len(resources) < MaxResources
    /\ \E layout \in InitialLayouts :
          resources' = Append(resources, [isImage |-> TRUE, initialLayout |-> layout,
                                          presented |-> FALSE, uses |-> <<>>])
    /\ UNCHANGED <<passes, status, out>>

AddBuffer ==
    /\ Declaring /\ Len(resources) < MaxResources
    /\ resources' = Append(resources, [isImage |-> FALSE, initialLayout |-> "UNDEFINED",
                                       presented |-> FALSE, uses |-> <<>>])
    /\ UNCHANGED <<passes, status, out>>

AddPass ==
    /\ Declaring /\ Len(passes) < MaxPasses
    /\ passes' = Append(passes, [cullable |-> FALSE])
    /\ UNCHANGED <<resources, status, out>>

TotalUses == FoldLeft(LAMBDA n, resource : n + Len(resource.uses), 0, resources)

DeclareUse(isImage, isRead, accesses) ==
    /\ Declaring /\ TotalUses < MaxUses
    /\ \E p \in Passes, r \in Resources, access \in accesses :
          /\ resources[r].isImage = isImage
          /\ resources' = [resources EXCEPT ![r].uses =
                Append(@, [pass |-> p, isRead |-> isRead, access |-> access, loadOp |-> "LOAD"])]
    /\ UNCHANGED <<passes, status, out>>

PassReadsImage == DeclareUse(TRUE, TRUE, ImageReads)
PassWritesImage == DeclareUse(TRUE, FALSE, ImageWrites)
PassReadsBuffer == DeclareUse(FALSE, TRUE, BufferReads)
PassWritesBuffer == DeclareUse(FALSE, FALSE, BufferWrites)

MarkPassCullable ==
    /\ Declaring
    /\ \E p \in Passes : passes' = [passes EXCEPT ![p].cullable = TRUE]
    /\ UNCHANGED <<resources, status, out>>

Clears == UNION {{<<r, u>> : u \in {v \in DOMAIN Uses(r) : Uses(r)[v].loadOp = "CLEAR"}}
                 : r \in Resources}

\* Only the first attachment write the pass makes of the image is changed.
SetAttachmentClear ==
    /\ Declaring /\ Cardinality(Clears) < MaxClears
    /\ \E p \in Passes, r \in Resources :
          LET writes == {u \in DOMAIN Uses(r) : /\ Uses(r)[u].pass = p
                                                /\ IsWrite(Uses(r)[u])
                                                /\ Uses(r)[u].access \in Attachments}
          IN  /\ resources[r].isImage /\ writes # {}
              /\ resources' = [resources EXCEPT ![r].uses[Min(writes)].loadOp = "CLEAR"]
    /\ UNCHANGED <<passes, status, out>>

MarkPresented ==
    /\ Declaring
    /\ \E r \in Resources :
          /\ resources[r].isImage
          /\ resources' = [resources EXCEPT ![r].presented = TRUE]
    /\ UNCHANGED <<passes, status, out>>

-----------------------------------------------------------------------------
(* Compile. *)

\* The declarations Compile refuses before it orders anything.
InvalidImage(r) ==
    /\ resources[r].isImage
    /\ \/ resources[r].presented /\ Uses(r) = <<>>
       \/ /\ Uses(r) # <<>>
          /\ resources[r].initialLayout = "UNDEFINED"
          /\ Head(Uses(r)).isRead

InvalidDeclarations ==
    passes = <<>> \/ resources = <<>> \/ \E r \in Resources : InvalidImage(r)

\* The ordering edges: between consecutive uses of a resource, unless both read.
ConsecutivePairs(r) ==
    {<<Uses(r)[u - 1], Uses(r)[u]>> : u \in 2 .. Len(Uses(r))}

\* Mutant: reads are ordered among themselves too.
EdgeBetween_Mutant(previous, current) == TRUE

EdgeBetween(previous, current) == ~(previous.isRead /\ current.isRead)

\* Mutant: only a use that follows a write is ordered.
OrderingEdges_Mutant ==
    UNION {{<<pair[1].pass, pair[2].pass>> :
               pair \in {q \in ConsecutivePairs(r) : IsWrite(q[1])}} : r \in Resources}

OrderingEdges ==
    UNION {{<<pair[1].pass, pair[2].pass>> :
               pair \in {q \in ConsecutivePairs(r) : EdgeBetween(q[1], q[2])}} : r \in Resources}

SelfEdge == \E p \in Passes : <<p, p>> \in OrderingEdges

\* The passes whose in-degree is zero once the ordered ones are taken out.
Ready(order, edges) ==
    {p \in Passes \ Range(order) : \A e \in edges : e[2] = p => e[1] \in Range(order)}

\* One round of Kahn's algorithm; the priority queue yields the lowest id.
OrderNext(order, edges) ==
    IF Ready(order, edges) = {} THEN order ELSE Append(order, Min(Ready(order, edges)))

\* The order after so many rounds; there are never more rounds than passes.
TopologicalOrder ==
    LET edges == OrderingEdges
        ordered[n \in 0 .. Len(passes)] ==
            IF n = 0 THEN <<>> ELSE OrderNext(ordered[n - 1], edges)
    IN  ordered[Len(passes)]

\* A pass is kept for its own sake, for the present, or for a surviving reader.
HasReasonToSurvive(p, surviving) ==
    \/ ~passes[p].cullable
    \/ \E r \in Resources :
          \E w \in DOMAIN Uses(r) :
             /\ Uses(r)[w].pass = p /\ IsWrite(Uses(r)[w])
             /\ \/ resources[r].presented
                \/ \E u \in DOMAIN Uses(r) : /\ Uses(r)[u].isRead
                                             /\ Uses(r)[u].pass \in surviving \ {p}

Sweep(p, surviving) ==
    IF HasReasonToSurvive(p, surviving) THEN surviving \cup {p} ELSE surviving

\* Mutant: culling runs in execution order.
SurvivingPasses_Mutant(order) ==
    LET upTo[i \in 0 .. Len(order)] == IF i = 0 THEN {} ELSE Sweep(order[i], upTo[i - 1])
    IN  upTo[Len(order)]

\* Dead-pass culling runs in reverse execution order: the survivors among the
\* passes from each place of the order on.
SurvivingPasses(order) ==
    LET from[i \in 1 .. Len(order) + 1] ==
            IF i = Len(order) + 1 THEN {} ELSE Sweep(order[i], from[i + 1])
    IN  from[1]

\* The elements of a sequence at some of its positions, in their order.
Picked(seq, positions) ==
    LET picked[n \in 0 .. Len(seq)] ==
            IF n = 0 THEN <<>>
            ELSE IF n \in positions THEN Append(picked[n - 1], seq[n]) ELSE picked[n - 1]
    IN  picked[Len(seq)]

SurvivingUses(r, surviving) ==
    Picked(Uses(r), {u \in DOMAIN Uses(r) : Uses(r)[u].pass \in surviving})

SurvivingOrder(order, surviving) ==
    Picked(order, {i \in DOMAIN order : order[i] \in surviving})

\* Mutant: the last pass is only set together with the first.
LifetimeOf_Mutant(uses) ==
    IF uses = <<>> THEN [used |-> FALSE, firstPass |-> Present, lastPass |-> Present]
    ELSE [used |-> TRUE, firstPass |-> Head(uses).pass, lastPass |-> Head(uses).pass]

\* First and last surviving use, in the order the uses were declared.
LifetimeOf(uses) ==
    IF uses = <<>> THEN [used |-> FALSE, firstPass |-> Present, lastPass |-> Present]
    ELSE [used |-> TRUE, firstPass |-> Head(uses).pass, lastPass |-> Last(uses).pass]

Lifetimes(surviving) ==
    [r \in Resources |-> LifetimeOf(SurvivingUses(r, surviving))]

\* Colour writes of a pass fill the slots in resource order, then in use order;
\* the depth write takes the slot after them.  Transfer writes take none.
WritesOf(p, access) ==
    {w \in {<<r, u>> : r \in Resources, u \in 1 .. MaxUses} :
        /\ resources[w[1]].isImage /\ w[2] \in DOMAIN Uses(w[1])
        /\ Uses(w[1])[w[2]].pass = p
        /\ IsWrite(Uses(w[1])[w[2]])
        /\ Uses(w[1])[w[2]].access = access}

ColorSlot(p, w) ==
    Cardinality({v \in WritesOf(p, "COLOR_ATTACHMENT") :
                    v[1] < w[1] \/ (v[1] = w[1] /\ v[2] < w[2])})

Attachment(p, w, slot) ==
    [pass |-> p, image |-> w[1], use |-> w[2], slot |-> slot,
     isDepth |-> slot = ColorSlots, loadOp |-> Uses(w[1])[w[2]].loadOp]

PassAttachments(surviving) ==
    UNION {{Attachment(p, w, ColorSlot(p, w)) :
              w \in {v \in WritesOf(p, "COLOR_ATTACHMENT") : ColorSlot(p, v) < ColorSlots}}
           \cup {Attachment(p, w, ColorSlots) : w \in WritesOf(p, "DEPTH_ATTACHMENT")}
           : p \in surviving}

\* Mutant: as for buffers, the first use gets no barrier.
NeedsImageBarrier_Mutant(uses, initialLayout, i) ==
    /\ i > 1
    /\ \/ LayoutOf(uses[i].access) # LayoutOf(uses[i - 1].access)
       \/ IsWrite(uses[i - 1]) \/ IsWrite(uses[i])

\* The barrier before the i-th surviving use of an image.
NeedsImageBarrier(uses, initialLayout, i) ==
    IF i = 1 THEN LayoutOf(uses[i].access) # initialLayout
    ELSE \/ LayoutOf(uses[i].access) # LayoutOf(uses[i - 1].access)
         \/ IsWrite(uses[i - 1]) \/ IsWrite(uses[i])

\* Mutant: the current layout is not carried from use to use.
ImageBarrier_Mutant(r, uses, i) ==
    [beforePass |-> uses[i].pass, resource |-> r,
     src |-> IF i = 1 THEN TopOfPipe ELSE uses[i - 1].access,
     dst |-> uses[i].access,
     oldLayout |-> resources[r].initialLayout,
     newLayout |-> LayoutOf(uses[i].access)]

ImageBarrier(r, uses, i) ==
    [beforePass |-> uses[i].pass, resource |-> r,
     src |-> IF i = 1 THEN TopOfPipe ELSE uses[i - 1].access,
     dst |-> uses[i].access,
     oldLayout |-> IF i = 1 THEN resources[r].initialLayout ELSE LayoutOf(uses[i - 1].access),
     newLayout |-> LayoutOf(uses[i].access)]

\* Mutant: the present transition starts from the declared layout.
PresentBarrier_Mutant(r, uses) ==
    [beforePass |-> Present, resource |-> r,
     src |-> IF uses = <<>> THEN NoAccess ELSE Last(uses).access,
     dst |-> AnyMemory, oldLayout |-> resources[r].initialLayout, newLayout |-> "PRESENT_SRC"]

\* The transition of a presented image, after the last pass.
PresentBarrier(r, uses) ==
    [beforePass |-> Present, resource |-> r,
     src |-> IF uses = <<>> THEN NoAccess ELSE Last(uses).access,
     dst |-> AnyMemory,
     oldLayout |-> IF uses = <<>> THEN resources[r].initialLayout ELSE LayoutOf(Last(uses).access),
     newLayout |-> "PRESENT_SRC"]

ImageBarriersOf(r, uses) ==
    LET needed == Picked([i \in DOMAIN uses |-> i],
                    {i \in DOMAIN uses : NeedsImageBarrier(uses, resources[r].initialLayout, i)})
    IN  [k \in DOMAIN needed |-> ImageBarrier(r, uses, needed[k])]
        \o (IF resources[r].presented THEN <<PresentBarrier(r, uses)>> ELSE <<>>)

\* Mutant: a write after a read is not a hazard.
NeedsBufferBarrier_Mutant(uses, i) == i > 1 /\ IsWrite(uses[i - 1])

NeedsBufferBarrier(uses, i) ==
    /\ i > 1
    /\ \/ IsWrite(uses[i - 1]) \/ IsWrite(uses[i])
       \/ uses[i].access # uses[i - 1].access

BufferBarrier(r, uses, i) ==
    [beforePass |-> uses[i].pass, resource |-> r,
     src |-> uses[i - 1].access, dst |-> uses[i].access]

BufferBarriersOf(r, uses) ==
    LET needed == Picked([i \in DOMAIN uses |-> i],
                    {i \in DOMAIN uses : NeedsBufferBarrier(uses, i)})
    IN  [k \in DOMAIN needed |-> BufferBarrier(r, uses, needed[k])]

\* The barriers of a resource of one kind, and of all of them, resource by resource.
BarriersFor(r, isImage, surviving) ==
    LET uses == SurvivingUses(r, surviving)
    IN  IF resources[r].isImage # isImage \/ Uses(r) = <<>> THEN <<>>
        ELSE IF isImage THEN ImageBarriersOf(r, uses) ELSE BufferBarriersOf(r, uses)

BarriersOf(isImage, surviving) ==
    FlattenSeq([r \in Resources |-> BarriersFor(r, isImage, surviving)])

Compiled(order) ==
    LET surviving == SurvivingPasses(order)
    IN  [order |-> SurvivingOrder(order, surviving),
         lifetimes |-> Lifetimes(surviving),
         attachments |-> PassAttachments(surviving),
         imageBarriers |-> BarriersOf(TRUE, surviving),
         bufferBarriers |-> BarriersOf(FALSE, surviving)]

CompileFails ==
    /\ Declaring
    /\ InvalidDeclarations \/ SelfEdge
    /\ status' = "invalid"
    /\ UNCHANGED <<passes, resources, out>>

CompileFindsCycle ==
    /\ Declaring
    /\ ~InvalidDeclarations /\ ~SelfEdge
    /\ Len(TopologicalOrder) # Len(passes)
    /\ status' = "cycle"
    /\ UNCHANGED <<passes, resources, out>>

CompileSucceeds ==
    /\ Declaring
    /\ ~InvalidDeclarations /\ ~SelfEdge
    /\ LET order == TopologicalOrder
       IN  /\ Len(order) = Len(passes)
           /\ out' = Compiled(order)
    /\ status' = "compiled"
    /\ UNCHANGED <<passes, resources>>

GraphInit ==
    /\ passes = <<>> /\ resources = <<>>
    /\ status = "declaring" /\ out = EmptyResult

Declare ==
    \/ AddImage \/ AddBuffer \/ AddPass
    \/ PassReadsImage \/ PassWritesImage \/ PassReadsBuffer \/ PassWritesBuffer
    \/ MarkPassCullable \/ SetAttachmentClear \/ MarkPresented

Compile == CompileFails \/ CompileFindsCycle \/ CompileSucceeds

GraphNext == Declare \/ Compile

GraphSpec == GraphInit /\ [][GraphNext]_graphVars
-----------------------------------------------------------------------------
(* Properties. *)

UseRecords == [pass : 1 .. MaxPasses, isRead : BOOLEAN,
               access : ImageReads \cup ImageWrites \cup BufferReads \cup BufferWrites,
               loadOp : {"LOAD", "CLEAR"}]

\* Types: declarations name declared passes only, a result lists each pass at
\* most once, and its barriers and attachments name surviving passes or the
\* present, existing resources and slots of the fixed range.
GraphTypeOK ==
    /\ Len(passes) <= MaxPasses /\ Len(resources) <= MaxResources
    /\ \A p \in Passes : passes[p] \in [cullable : BOOLEAN]
    /\ \A r \in Resources :
          /\ resources[r].isImage \in BOOLEAN /\ resources[r].presented \in BOOLEAN
          /\ resources[r].initialLayout \in Layouts
          /\ \A u \in DOMAIN Uses(r) : Uses(r)[u] \in UseRecords /\ Uses(r)[u].pass \in Passes
    /\ status \in {"declaring", "invalid", "cycle", "compiled"}
    /\ IsInjective(out.order) /\ Range(out.order) \subseteq Passes
    /\ \A b \in Range(out.imageBarriers) :
          /\ b.beforePass \in Range(out.order) \cup {Present}
          /\ b.resource \in Resources /\ {b.oldLayout, b.newLayout} \subseteq Layouts
    /\ \A b \in Range(out.bufferBarriers) :
          b.beforePass \in Range(out.order) /\ b.resource \in Resources
    /\ \A a \in out.attachments : a.pass \in Range(out.order) /\ a.slot \in 0 .. ColorSlots

\* The graphs the compiler's ordering edges are complete for: either no resource
\* has two consecutive reads, or every resource is used by passes of rising id.
NoConsecutiveReads ==
    \A r \in Resources : \A u \in 2 .. Len(Uses(r)) :
        IsWrite(Uses(r)[u - 1]) \/ IsWrite(Uses(r)[u])

DeclaredInOrder ==
    \A r \in Resources : \A u \in 2 .. Len(Uses(r)) : Uses(r)[u - 1].pass < Uses(r)[u].pass

Conformant == NoConsecutiveReads \/ DeclaredInOrder

Survives(p) == p \in Range(out.order)
OrderIndex(p) == CHOOSE i \in DOMAIN out.order : out.order[i] = p
RunsBefore(p, q) == Survives(p) /\ Survives(q) /\ OrderIndex(p) < OrderIndex(q)

\* Of two uses of a resource of which one writes, the one declared first is
\* executed first, however far apart the two were declared: the edges between
\* neighbours (348-379) and the lowest-id-first queue together order them all.
ExecutionFollowsDeclaration ==
    status = "compiled" /\ Conformant =>
        \A r \in Resources : \A i, j \in DOMAIN Uses(r) :
            LET before == Uses(r)[i]
                after  == Uses(r)[j]
            IN  /\ i < j /\ before.pass # after.pass
                /\ IsWrite(before) \/ IsWrite(after)
                /\ Survives(before.pass) /\ Survives(after.pass)
                => RunsBefore(before.pass, after.pass)

\* "render graph contains a cycle" is returned only when no sequence of the
\* passes at all respects the edges between neighbouring uses.
CycleMeansNoOrder ==
    status = "cycle" =>
        \A position \in [Passes -> Passes] :
            \E r \in Resources : \E u \in 2 .. Len(Uses(r)) :
                /\ IsWrite(Uses(r)[u - 1]) \/ IsWrite(Uses(r)[u])
                /\ position[Uses(r)[u - 1].pass] >= position[Uses(r)[u].pass]

\* A set of passes nothing may be dropped from: the passes that must stay by
\* themselves, and every pass whose output one of the set reads later.
ClosedUnderNeed(kept) ==
    \A p \in Passes :
        \/ p \in kept
        \/ /\ passes[p].cullable
           /\ \A r \in Resources : \A w \in DOMAIN Uses(r) :
                 Uses(r)[w].pass = p /\ IsWrite(Uses(r)[w]) =>
                    /\ ~resources[r].presented
                    /\ \A u \in w + 1 .. Len(Uses(r)) :
                          Uses(r)[u].isRead /\ Uses(r)[u].pass # p => Uses(r)[u].pass \notin kept

\* Dead-pass culling keeps exactly what is needed: the survivors are closed under
\* need, and no smaller set is.  The single reverse sweep (429-440) is enough.
SurvivorsExactlyNeeded ==
    status = "compiled" /\ Conformant =>
        /\ ClosedUnderNeed(Range(out.order))
        /\ \A kept \in SUBSET Range(out.order) :
              ClosedUnderNeed(kept) => kept = Range(out.order)

\* Lifetimes enclose use: no surviving pass that uses a resource runs before the
\* first or after the last pass of the resource's lifetime, and a resource is
\* reported unused only when no surviving pass uses it.
LifetimesEncloseUses ==
    status = "compiled" /\ Conformant =>
        \A r \in Resources : \A u \in DOMAIN Uses(r) :
            LET life == out.lifetimes[r]
            IN  Survives(Uses(r)[u].pass) =>
                    /\ life.used
                    /\ ~RunsBefore(Uses(r)[u].pass, life.firstPass)
                    /\ ~RunsBefore(life.lastPass, Uses(r)[u].pass)

\* Culling and lifetimes agree with need: the passes kept are those needed, and a
\* resource lives as long as they use it (Compile).
SurvivorsAndLifetimes == SurvivorsExactlyNeeded /\ LifetimesEncloseUses

\* The header's description of a lifetime: "Execution order indices of the first
\* and last surviving uses" (passes and indices both count from 1 here).  The
\* code does not meet it: it stores pass ids.
LifetimesAreOrderIndices ==
    status = "compiled" =>
        \A r \in Resources :
            LET indices == {OrderIndex(Uses(r)[u].pass) :
                              u \in {v \in DOMAIN Uses(r) : Survives(Uses(r)[v].pass)}}
            IN  out.lifetimes[r].used =>
                    /\ out.lifetimes[r].firstPass = Min(indices)
                    /\ out.lifetimes[r].lastPass = Max(indices)

\* Compile promises to refuse an image that "is read before its first write":
\* in the compiled order no pass reads an image with undefined contents before
\* the first pass that writes it has run.
NoReadBeforeFirstWrite ==
    status = "compiled" =>
        \A r \in Resources : \A u \in DOMAIN Uses(r) :
            /\ resources[r].isImage /\ resources[r].initialLayout = "UNDEFINED"
            /\ Uses(r)[u].isRead /\ Survives(Uses(r)[u].pass)
            => \E w \in DOMAIN Uses(r) :
                  /\ IsWrite(Uses(r)[w])
                  /\ \/ Uses(r)[w].pass = Uses(r)[u].pass
                     \/ RunsBefore(Uses(r)[w].pass, Uses(r)[u].pass)
=============================================================================
