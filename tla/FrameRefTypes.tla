----------------------------- MODULE FrameRefTypes ----------------------------
(***************************************************************************)
(* How a captured frame uses a resource or a part of it                    *)
(* (renderdoc/core/resource_manager.h): the FrameRefType of an access, how *)
(* the references of several accesses compose, and what has to be done     *)
(* before each replay for a policy (InitReq).                              *)
(***************************************************************************)
EXTENDS Integers

-----------------------------------------------------------------------------
(* Reference types, numbered as in the code, which takes maxima of them.   *)

eFrameRef_None                    == 0
eFrameRef_PartialWrite            == 1
eFrameRef_CompleteWrite           == 2
eFrameRef_Read                    == 3
eFrameRef_ReadBeforeWrite         == 4
eFrameRef_WriteBeforeRead         == 5
eFrameRef_CompleteWriteAndDiscard == 6

FrameRefType == 0 .. 6

IncludesRead(refType) ==
    refType \in {eFrameRef_Read, eFrameRef_WriteBeforeRead, eFrameRef_ReadBeforeWrite}

IncludesWrite(refType) ==
    refType \in {eFrameRef_PartialWrite, eFrameRef_CompleteWrite, eFrameRef_WriteBeforeRead,
                 eFrameRef_ReadBeforeWrite, eFrameRef_CompleteWriteAndDiscard}

IsDirtyFrameRef(refType) == refType \notin {eFrameRef_None, eFrameRef_Read}

IsCompleteWriteFrameRef(refType) ==
    refType \in {eFrameRef_CompleteWrite, eFrameRef_CompleteWriteAndDiscard}

\* References whose order is known.
ComposeFrameRefs(first, second) ==
    CASE first \in {eFrameRef_None, eFrameRef_PartialWrite} ->
             IF second = eFrameRef_None THEN first
             ELSE IF first = eFrameRef_PartialWrite /\ second = eFrameRef_Read
                  THEN eFrameRef_WriteBeforeRead
                  ELSE second
      [] first \in {eFrameRef_Read, eFrameRef_WriteBeforeRead} ->
             IF IncludesWrite(second) THEN eFrameRef_ReadBeforeWrite ELSE first
      [] OTHER -> first

\* CompleteWriteAndDiscard is only a CompleteWrite when maxima are taken.
WithoutDiscard(refType) ==
    IF refType = eFrameRef_CompleteWriteAndDiscard THEN eFrameRef_CompleteWrite ELSE refType

Larger(x, y) == IF WithoutDiscard(x) > WithoutDiscard(y) THEN WithoutDiscard(x) ELSE WithoutDiscard(y)

\* References whose order is not known.
ComposeFrameRefsUnordered(first, second) ==
    IF \/ IncludesRead(first) /\ IncludesWrite(second)
       \/ IncludesRead(second) /\ IncludesWrite(first)
    THEN eFrameRef_ReadBeforeWrite
    ELSE Larger(first, second)

\* The reference of a whole from those of its parts.
ComposeFrameRefsDisjoint(x, y) ==
    IF eFrameRef_ReadBeforeWrite \in {x, y} THEN eFrameRef_ReadBeforeWrite ELSE Larger(x, y)

\* The same for a set of parts, in whatever order a loop composes them.
Whole(types) ==
    IF eFrameRef_ReadBeforeWrite \in types THEN eFrameRef_ReadBeforeWrite
    ELSE CHOOSE t \in {eFrameRef_None} \cup {WithoutDiscard(u) : u \in types} :
             \A u \in types : WithoutDiscard(u) <= t

-----------------------------------------------------------------------------
(* What has to be done before a replay.                                    *)

InitPolicy == {"NoOpt", "CopyAll", "ClearUnread", "Fastest"}

Once(req, initialized) == IF initialized THEN "None" ELSE req

\* As InitReq, with partly written parts reset only once.
InitReqPartialOnce(refType, p, initialized) ==
    IF p = "NoOpt" \/ IsCompleteWriteFrameRef(refType) THEN "Copy"
    ELSE Once("Copy", initialized)

InitReq(refType, p, initialized) ==
    CASE p = "NoOpt" -> "Copy"
      [] p = "CopyAll" ->
             IF refType \in {eFrameRef_None, eFrameRef_Read} THEN Once("Copy", initialized)
             ELSE "Copy"
      [] p = "ClearUnread" ->
             (CASE refType = eFrameRef_None -> Once("Clear", initialized)
                [] refType = eFrameRef_Read -> Once("Copy", initialized)
                [] refType \in {eFrameRef_ReadBeforeWrite, eFrameRef_WriteBeforeRead} -> "Copy"
                [] OTHER -> "Clear")
      [] p = "Fastest" ->
             (CASE refType \in {eFrameRef_Read, eFrameRef_WriteBeforeRead} ->
                       Once("Copy", initialized)
                [] refType = eFrameRef_ReadBeforeWrite -> "Copy"
                [] OTHER -> Once("Clear", initialized))
=============================================================================
