----------------------------- MODULE MCCaptureFile -----------------------------
(* A file writer below the sections of capture files, each on its own         *)
(* instance: a behaviour picks one.  The writer has three blocks of two bytes *)
(* and a write may need all of them and more.  There are a capture, a copy of *)
(* it and the temporary file; two sections besides the frame capture, of      *)
(* which one has a longer header.                                             *)
EXTENDS FileWriter, RDCFile

VARIABLE part

MCHeaderSize == [n \in Names \cup {FrameCapture} |-> IF n = "notes" THEN 2 ELSE 1]

Init ==
    /\ part \in {"writer", "sections"}
    /\ WriterInit /\ SectionsInit
    \* choices the part makes for itself
    /\ part # "writer" => ~m_Thread
    /\ part # "sections" => m_Filename = "capture"

Next ==
    /\ UNCHANGED part
    /\ \/ part = "writer" /\ WriterNext /\ UNCHANGED sectionVars
       \/ part = "sections" /\ SectionsNext /\ UNCHANGED writerVars

Spec == Init /\ [][Next]_<<part, writerVars, sectionVars>> /\ WriterFairness
===============================================================================
