------------------------------- MODULE FrameRefs ------------------------------
(***************************************************************************)
(* A machine that gives the frame references (FrameRefTypes) a meaning: a  *)
(* frame of reads and writes to the parts of one resource is captured in   *)
(* command buffers (CaptureQueueSubmit in the Vulkan driver) and replayed  *)
(* twice from what its references ask for.  A part has two halves, so that *)
(* a partial write leaves something.                                       *)
(***************************************************************************)
EXTENDS FrameRefTypes, Sequences

CONSTANTS
    Subresources,     \* of the one resource
    MaxAccesses       \* bound on the accesses of the frame

ASSUME MaxAccessesAssumption == MaxAccesses \in Nat

-----------------------------------------------------------------------------
VARIABLES
    phase,        \* "capture", then "replay"
    accesses,     \* the accesses of the frame, with what was read
    contents,     \* of the halves of each subresource
    bound,        \* references by descriptors in the command buffer
    recorded,     \* references by commands in the command buffer
    refs,         \* references of the frame
    kind,         \* "image" or "memory", whose subresources are ranges of bytes
    policy, round, next

frameRefsVars == <<phase, accesses, contents, bound, recorded, refs, kind, policy, round, next>>

Halves == {1, 2}

\* Contents of a half: the access that wrote it, or one of these.
Initial == 0
Cleared == -1
Junk == -2
Undefined == -3

\* Contents that are the same everywhere.
All(value) == [s \in Subresources |-> [h \in Halves |-> value]]

NoRefs == [s \in Subresources |-> eFrameRef_None]

FrameRefsInit ==
    /\ phase = "capture" /\ accesses = <<>> /\ contents = All(Initial)
    /\ bound = NoRefs /\ recorded = NoRefs /\ refs = NoRefs
    /\ kind \in {"image", "memory"} /\ policy = "NoOpt" /\ round = 0 /\ next = 1

\* What the n-th access, a, makes of the contents of its subresource; what is
\* left after a discard is undefined.
After(a, n, halves) ==
    CASE a.type = eFrameRef_Read -> halves
      [] a.type = eFrameRef_PartialWrite -> [halves EXCEPT ![a.half] = n]
      [] a.type = eFrameRef_CompleteWrite -> [h \in Halves |-> n]
      [] a.type = eFrameRef_CompleteWriteAndDiscard -> [h \in Halves |-> Undefined]

\* Only a partial write has a half.
Perform(s, type, half) ==
    /\ phase = "capture" /\ Len(accesses) < MaxAccesses
    /\ type # eFrameRef_PartialWrite => half = 1
    /\ type = eFrameRef_Read => Undefined \notin {contents[s][h] : h \in Halves}
    /\ LET a == [sub |-> s, type |-> type, half |-> half, seen |-> contents[s]] IN
         /\ accesses' = Append(accesses, a)
         /\ contents' = [contents EXCEPT ![s] = After(a, Len(accesses) + 1, @)]
    /\ UNCHANGED <<phase, refs, kind, policy, round, next>>

\* A command names what it accesses.
Command(s, type, half) ==
    /\ Perform(s, type, half)
    /\ recorded' = [recorded EXCEPT ![s] = ComposeFrameRefs(@, type)]
    /\ UNCHANGED bound

\* A shader reads, or as storage reads and writes, what a descriptor is bound
\* to; all that is known is the binding.
BindRef(type) == IF type = eFrameRef_Read THEN eFrameRef_Read ELSE eFrameRef_ReadBeforeWrite

Shader(s, type, half) ==
    /\ Perform(s, type, half)
    /\ bound' = [bound EXCEPT ![s] = ComposeFrameRefsUnordered(@, BindRef(type))]
    /\ UNCHANGED recorded

\* As Submit, with the references of commands before those of descriptors.
SubmitCommandsFirst ==
    /\ phase = "capture"
    /\ refs' = [s \in Subresources |->
                   ComposeFrameRefs(ComposeFrameRefs(refs[s], recorded[s]), bound[s])]
    /\ bound' = NoRefs /\ recorded' = NoRefs
    /\ UNCHANGED <<phase, accesses, contents, kind, policy, round, next>>

\* CaptureQueueSubmit: the references of descriptors first, to be conservative.
Submit ==
    /\ phase = "capture"
    /\ refs' = [s \in Subresources |->
                   ComposeFrameRefs(ComposeFrameRefs(refs[s], bound[s]), recorded[s])]
    /\ bound' = NoRefs /\ recorded' = NoRefs
    /\ UNCHANGED <<phase, accesses, contents, kind, policy, round, next>>

\* The requirement of the whole.
MaxInitReq(p, initialized) == InitReq(Whole({refs[s] : s \in Subresources}), p, initialized)

\* Apply_InitialState: memory is treated range by range; for an image the parts
\* are what one call of MaxInitReq covers (the depth and stencil of a mip of a
\* layer, or the slices of one), and before the first replay all of it is copied.
Requirement(s, p, initialized) ==
    IF kind = "memory" THEN InitReq(refs[s], p, initialized)
    ELSE IF initialized THEN MaxInitReq(p, initialized) ELSE "Copy"

Initialised(p, initialized, before) ==
    [s \in Subresources |->
        CASE Requirement(s, p, initialized) = "Copy"  -> [h \in Halves |-> Initial]
          [] Requirement(s, p, initialized) = "Clear" -> [h \in Halves |-> Cleared]
          [] OTHER -> before[s]]

\* The first replay begins with memory nobody has initialised.
FirstReplay(p) ==
    /\ phase = "capture" /\ bound = NoRefs /\ recorded = NoRefs
    /\ phase' = "replay" /\ policy' = p /\ round' = 1 /\ next' = 1
    /\ contents' = Initialised(p, FALSE, All(Junk))
    /\ UNCHANGED <<accesses, bound, recorded, refs, kind>>

NextReplay ==
    /\ phase = "replay" /\ round = 1 /\ next > Len(accesses)
    /\ round' = 2 /\ next' = 1
    /\ contents' = Initialised(policy, TRUE, contents)
    /\ UNCHANGED <<phase, accesses, bound, recorded, refs, kind, policy>>

ReplayAccess ==
    /\ phase = "replay" /\ next <= Len(accesses)
    /\ LET a == accesses[next] IN contents' = [contents EXCEPT ![a.sub] = After(a, next, @)]
    /\ next' = next + 1
    /\ UNCHANGED <<phase, accesses, bound, recorded, refs, kind, policy, round>>

Writes == {eFrameRef_PartialWrite, eFrameRef_CompleteWrite, eFrameRef_CompleteWriteAndDiscard}

FrameRefsNext ==
    \/ \E s \in Subresources, h \in Halves, t \in Writes \cup {eFrameRef_Read} : Command(s, t, h)
    \/ \E s \in Subresources, h \in Halves, t \in {eFrameRef_Read, eFrameRef_PartialWrite} :
           Shader(s, t, h)
    \/ Submit
    \/ \E p \in InitPolicy : FirstReplay(p)
    \/ NextReplay \/ ReplayAccess

FrameRefsSpec == FrameRefsInit /\ [][FrameRefsNext]_frameRefsVars

-----------------------------------------------------------------------------
\* Types.
FrameRefsTypeOK ==
    /\ phase \in {"capture", "replay"} /\ policy \in InitPolicy
    /\ Len(accesses) <= MaxAccesses /\ round \in 0 .. 2 /\ next \in 1 .. MaxAccesses + 1
    /\ {bound, recorded, refs} \subseteq [Subresources -> FrameRefType]
    /\ \A s \in Subresources : bound[s] \in {eFrameRef_None, eFrameRef_Read, eFrameRef_ReadBeforeWrite}

\* Whatever the policy, a read in a replay, the second one included, sees what
\* it saw in the captured frame: references that were composed within command
\* buffers, across them, with descriptors of unknown order and over the parts
\* of a resource never ask for too little (resource_manager.h:173, "for correct
\* replay").
ReadsSeeTheSame ==
    phase = "replay" /\ next <= Len(accesses) /\ accesses[next].type = eFrameRef_Read =>
        contents[accesses[next].sub] = accesses[next].seen

\* What a user finds in memory before a replay is never left over from the
\* previous one, unless the policy is Fastest: it is the initial contents, or,
\* with ClearUnread, cleared (resource_manager.h:189 to 211).
BeginsClean ==
    phase = "replay" /\ next = 1 /\ kind = "memory" /\ policy # "Fastest" =>
        \A s \in Subresources, h \in Halves :
            \/ contents[s][h] = Initial
            \/ policy = "ClearUnread" /\ contents[s][h] = Cleared

\* resource_manager.h:189: the policy CopyAll "ensures each subresource begins
\* each replay with the correct initial data", of images too.
CopyAllRestoresImages ==
    phase = "replay" /\ next = 1 /\ kind = "image" /\ policy = "CopyAll" =>
        \A s \in Subresources, h \in Halves : contents[s][h] = Initial
=============================================================================
