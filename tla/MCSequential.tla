------------------------------ MODULE MCSequential -----------------------------
(* The parts of the program that a lock makes sequential and that share no    *)
(* state, each on its own instance: a behaviour picks a part and stays with   *)
(* it.                                                                        *)
(*                                                                            *)
(* The registry has two devices and two windows, each pair with up to two     *)
(* swapchains.  The frame makes three accesses to two subresources.  There is *)
(* one image, bound to the one memory.  An address space of four points is    *)
(* the least with an interval that has others on both sides and is split.     *)
(* Sparse resources have a few pages, and two calls bind them.  Frames of four *)
(* draw calls and of one are debugged.                                        *)
EXTENDS CapturerRegistry, FrameRefs, InitialContents, Intervals, MCSparseBindings,
        MCDebugSession

VARIABLE part

MCDevices == {10, 20}
MCWindows == {1, 2}
MCParent  == [r \in Resources |-> IF r = 2 THEN 1 ELSE NoParent]

Init ==
    /\ part \in {"registry", "frameRefs", "initialContents", "intervals", "sparse", "debugSession"}
    /\ RegistryInit /\ FrameRefsInit /\ InitialContentsInit /\ IntervalsInit
    /\ SparseInit /\ DebugInit
    \* choices the part makes for itself
    /\ part # "frameRefs" => kind = "image"
    /\ part # "initialContents" => ~refAllResources
    /\ part # "sparse" => layout = BufferLayout(5)
    /\ part # "debugSession" => /\ debugFrame = <<NoTrace>> /\ isDrawCallDebug
                                /\ sourceBreakpoints = {}

Next ==
    /\ UNCHANGED part
    /\ \/ part = "registry" /\ RegistryNext
       \/ part # "registry" /\ UNCHANGED registryVars
    /\ \/ part = "frameRefs" /\ FrameRefsNext
       \/ part # "frameRefs" /\ UNCHANGED frameRefsVars
    /\ \/ part = "initialContents" /\ InitialContentsNext
       \/ part # "initialContents" /\ UNCHANGED initialContentsVars
    /\ \/ part = "intervals" /\ IntervalsNext
       \/ part # "intervals" /\ UNCHANGED intervalsVars
    /\ \/ part = "sparse" /\ SparseNext
       \/ part # "sparse" /\ UNCHANGED sparseVars
    /\ \/ part = "debugSession" /\ DebugNext
       \/ part # "debugSession" /\ UNCHANGED debugVars

Spec == Init /\ [][Next]_<<part, registryVars, frameRefsVars, initialContentsVars, intervalsVars,
                          sparseVars, debugVars>>

\* Types of all the parts.
TypeOK == /\ RegistryTypeOK /\ FrameRefsTypeOK /\ InitialContentsTypeOK /\ IntervalsTypeOK
          /\ PageTableTypeOK /\ DebugTypeOK
================================================================================
