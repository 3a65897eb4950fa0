---------------------------- MODULE InitialContents ---------------------------
(***************************************************************************)
(* The resource manager while frames are captured                          *)
(* (renderdoc/core/resource_manager.h as the Vulkan driver uses it): which *)
(* resources a frame refers to, and when their initial contents are        *)
(* fetched.  A resource that has not been written for some time is         *)
(* postponed, one that was only ever overwritten is skipped; both are      *)
(* fetched when the frame turns out to need them.                          *)
(*                                                                         *)
(* m_Lock and m_CapTransitionLock make every action here one step; the     *)
(* capturing thread takes one step per critical section, and the threads   *)
(* of the application go on in between.                                    *)
(***************************************************************************)
EXTENDS FrameRefTypes, FiniteSets, FiniteSetsExt

CONSTANTS
    Resources,    \* ids, ordered as in the sorted array of times
    Parent,       \* the memory an image is bound to, NoParent for memory
    Tracked,      \* IsPostponableRes: memory and images that are not storable
    Hazards       \* what the application may do besides, of the next two

NoParent == 0

\* Between the end of the frame and the last byte of the capture file other
\* threads submit work and destroy resources.
UseWhileWriting == "useWhileWriting"

\* Memory is freed before the image bound to it is destroyed.
MemoryFirst == "memoryFirst"

ASSUME ResourcesAssumption ==
    /\ Resources \subseteq Nat \ {NoParent} /\ IsFiniteSet(Resources)
    /\ Parent \in [Resources -> Resources \cup {NoParent}]
    /\ \A r \in Resources : Parent[r] < r
    /\ Tracked \subseteq Resources
    /\ Hazards \subseteq {UseWhileWriting, MemoryFirst}

\* Ages count in units of the threshold the code compares them with, and stop
\* where no comparison tells them apart.
PERSISTENT_RESOURCE_AGE == 1
SKIP_RESOURCE_AGE == 1
Older(age) == IF age > PERSISTENT_RESOURCE_AGE THEN age ELSE age + 1

\* struct ResourceRefTimes, as ages; -1 is a firstSkipTime of 0.0.
Never == -1
ResourceRefTimes == [write : 0 .. PERSISTENT_RESOURCE_AGE + 1, skip : -1 .. SKIP_RESOURCE_AGE + 1]
NotListed == [write |-> Never, skip |-> Never]

VARIABLES
    m_State,                      \* of the driver
    m_CurrentResourceMap,         \* ids of the resources that exist
    m_DirtyResources,
    m_ResourceRecords,            \* RefCount of the record, 0 when there is none
    m_FrameReferencedResources,   \* eFrameRef_None for what is not in the map
    m_InitialContents,            \* "none", or what was fetched
    m_PostponedResourceIDs,
    m_SkippedResourceIDs,
    m_ResourceRefTimes,           \* NotListed, or times
    DataWritten,                  \* records whose chunks are in the file
    stage,                        \* of the capturing thread
    old,                          \* beyond the threshold at m_captureStartTime
    refAllResources,              \* the capture option
    file,                         \* what the capture file holds
    fresh,                        \* ids that were not given to a resource yet
    atStart,                      \* resources that existed when the frame began
    changed,                      \* and those whose contents have changed since
    kept                          \* age of the last write that left contents to keep

managerVars == <<m_CurrentResourceMap, m_DirtyResources, m_ResourceRecords, m_ResourceRefTimes>>
frameVars   == <<m_FrameReferencedResources, m_InitialContents, m_PostponedResourceIDs,
                 m_SkippedResourceIDs>>
captureVars == <<m_State, stage, old, DataWritten, file, atStart>>
worldVars   == <<refAllResources, fresh, changed, kept>>
initialContentsVars == <<managerVars, frameVars, captureVars, worldVars>>

IsActiveCapturing == m_State = "ActiveCapturing"

Referenced == {r \in Resources : m_FrameReferencedResources[r] # eFrameRef_None}

\* With refAllResources everything is wanted in the file.
Wanted == IF refAllResources THEN Resources ELSE Referenced

EmptyFile == [chunks |-> {}, contents |-> [r \in Resources |-> "none"], needed |-> {}]

-----------------------------------------------------------------------------
(* Records.                                                                *)

AddRef(records, r) == IF r = NoParent THEN records ELSE [records EXCEPT ![r] = @ + 1]

RefCounts == [Resources -> Int]

\* ResourceRecord::Delete: the last reference lets go of the parents.
Delete[r \in Resources] ==
    [records \in RefCounts |->
        LET left == [records EXCEPT ![r] = @ - 1] IN
        IF left[r] > 0 \/ Parent[r] = NoParent THEN left ELSE Delete[Parent[r]][left]]

\* The records ResourceRecord::Insert reaches from r.
Lineage[r \in Resources] ==
    {r} \cup (IF Parent[r] = NoParent THEN {} ELSE Lineage[Parent[r]])

-----------------------------------------------------------------------------
(* Times of writes.                                                        *)

\* As UpdateLastWriteTime, when any complete write leaves nothing to keep.
UpdateLastWriteTimeAnyComplete(id, refType) ==
    IF ~IsDirtyFrameRef(refType) THEN m_ResourceRefTimes
    ELSE [m_ResourceRefTimes EXCEPT ![id] =
            [write |-> 0,
             skip |-> CASE ~IsCompleteWriteFrameRef(refType) -> Never
                        [] IsCompleteWriteFrameRef(refType) ->
                               IF @.skip = Never THEN 0 ELSE @.skip]]

UpdateLastWriteTime(id, refType) ==
    IF ~IsDirtyFrameRef(refType) THEN m_ResourceRefTimes
    ELSE [m_ResourceRefTimes EXCEPT ![id] =
            [write |-> 0,
             skip |-> CASE refType # eFrameRef_CompleteWriteAndDiscard -> Never
                        [] refType = eFrameRef_CompleteWriteAndDiscard ->
                               IF @.skip = Never THEN 0 ELSE @.skip]]

HasPersistentAge(id) ==
    m_ResourceRefTimes[id] = NotListed \/ m_ResourceRefTimes[id].write >= PERSISTENT_RESOURCE_AGE

HasSkippableAge(id) == m_ResourceRefTimes[id].skip >= SKIP_RESOURCE_AGE

ShouldPostpone(id) == id \in Tracked /\ HasPersistentAge(id)
ShouldSkip(id)     == id \in Tracked /\ HasSkippableAge(id)

\* Every 20 submits and at every present, old entries are retired.
CleanBackgroundFrameReferences ==
    /\ ~IsActiveCapturing
    /\ m_ResourceRefTimes' =
          [r \in Resources |->
              IF /\ m_ResourceRefTimes[r].write > PERSISTENT_RESOURCE_AGE
                 /\ m_ResourceRefTimes[r].skip = Never
              THEN NotListed ELSE m_ResourceRefTimes[r]]
    /\ UNCHANGED <<m_CurrentResourceMap, m_DirtyResources, m_ResourceRecords,
                   frameVars, captureVars, worldVars>>

\* The entry ReleaseCurrentResource erases: the first one that is not less.
LowerBound(id) ==
    {r \in Resources : /\ r >= id /\ m_ResourceRefTimes[r] # NotListed
                       /\ \A q \in id .. r - 1 :
                             q \in Resources => m_ResourceRefTimes[q] = NotListed}

Aged(times) ==
    IF times = NotListed THEN NotListed
    ELSE [write |-> Older(times.write),
          skip  |-> IF times.skip = Never THEN Never ELSE Older(times.skip)]

Tick ==
    /\ m_ResourceRefTimes' = [r \in Resources |-> Aged(m_ResourceRefTimes[r])]
    /\ kept' = [r \in Resources |-> Older(kept[r])]
    /\ UNCHANGED <<m_CurrentResourceMap, m_DirtyResources, m_ResourceRecords,
                   frameVars, captureVars, refAllResources, fresh, changed>>

-----------------------------------------------------------------------------
(* References and initial contents.                                        *)

\* Prepare_InitialState reads what the resource holds now; there is nothing to
\* read when it, or the memory it is bound to, has gone.
Prepare_InitialState(id) ==
    IF ~({id, Parent[id]} \ {NoParent} \subseteq m_CurrentResourceMap) THEN "lost"
    ELSE IF id \in changed THEN "later" ELSE "start"

NothingToPrepare == UNCHANGED <<m_InitialContents, m_PostponedResourceIDs>>

PrepareNow(id) ==
    /\ m_InitialContents' = [m_InitialContents EXCEPT ![id] = Prepare_InitialState(id)]
    /\ m_PostponedResourceIDs' = m_PostponedResourceIDs \ {id}

\* SkipOrPostponeOrPrepare_InitialState and, for a write, then
\* Prepare_InitialStateIfPostponed.
SkipOrPostponeOrPrepare(id, refType) ==
    /\ m_SkippedResourceIDs' = m_SkippedResourceIDs \ {id}
    /\ \/ id \in m_SkippedResourceIDs /\ IsCompleteWriteFrameRef(refType) /\ NothingToPrepare
       \/ /\ id \in m_SkippedResourceIDs /\ ~IsDirtyFrameRef(refType) /\ id \in Tracked
          /\ m_PostponedResourceIDs' = m_PostponedResourceIDs \cup {id}
          /\ m_InitialContents' = [m_InitialContents EXCEPT ![id] = "empty"]
       \/ /\ id \in m_SkippedResourceIDs /\ ~IsCompleteWriteFrameRef(refType)
          /\ IsDirtyFrameRef(refType) \/ id \notin Tracked
          /\ PrepareNow(id)
       \/ /\ id \notin m_SkippedResourceIDs
          /\ IF IsDirtyFrameRef(refType) /\ id \in m_PostponedResourceIDs
             THEN PrepareNow(id) ELSE NothingToPrepare

\* records are the reference counts when it is called.
MarkResourceFrameReferenced(id, refType, records) ==
    /\ m_ResourceRefTimes' = UpdateLastWriteTime(id, refType)
    /\ \/ /\ ~IsActiveCapturing
          /\ m_ResourceRecords' = records
          /\ UNCHANGED frameVars
       \/ /\ IsActiveCapturing
          /\ SkipOrPostponeOrPrepare(id, refType)
          /\ m_FrameReferencedResources' =
                [m_FrameReferencedResources EXCEPT ![id] = ComposeFrameRefs(@, refType)]
          /\ m_ResourceRecords' = IF id \in Referenced THEN records ELSE AddRef(records, id)

\* As ClearReferencedResources, for resources that still exist.
ClearExistingResources ==
    /\ m_DirtyResources' = m_DirtyResources \cup
          {r \in Referenced : IncludesWrite(m_FrameReferencedResources[r])}
    /\ m_ResourceRecords' = FoldSet(LAMBDA r, records : Delete[r][records],
                                    m_ResourceRecords, Referenced \cap m_CurrentResourceMap)
    /\ m_FrameReferencedResources' = [r \in Resources |-> eFrameRef_None]

\* What the frame wrote is dirty from now on, and its records are let go.
ClearReferencedResources ==
    /\ m_DirtyResources' = m_DirtyResources \cup
          {r \in Referenced : IncludesWrite(m_FrameReferencedResources[r])}
    /\ m_ResourceRecords' = FoldSet(LAMBDA r, records : Delete[r][records],
                                    m_ResourceRecords, Referenced)
    /\ m_FrameReferencedResources' = [r \in Resources |-> eFrameRef_None]

FreeInitialContents ==
    /\ m_InitialContents' = [r \in Resources |-> "none"]
    /\ m_PostponedResourceIDs' = {}
    /\ m_SkippedResourceIDs' = {}

-----------------------------------------------------------------------------
(* The application.                                                        *)

\* While the file is written, the application waits for its present to return.
ApplicationRuns == stage \in {"ended", "chunks", "contents", "needed"} => UseWhileWriting \in Hazards

\* What was written last is still there and would be missed.
Keeps(refType) == IsDirtyFrameRef(refType) /\ refType # eFrameRef_CompleteWriteAndDiscard

\* vkBindBufferMemory for memory and vkCreateImage and vkBindImageMemory: dirty
\* at once, and an image is taken to be written.
Create(r) ==
    /\ ApplicationRuns /\ r \in fresh
    /\ Parent[r] \in m_CurrentResourceMap \cup {NoParent}
    /\ fresh' = fresh \ {r}
    /\ m_CurrentResourceMap' = m_CurrentResourceMap \cup {r}
    /\ m_DirtyResources' = m_DirtyResources \cup {r}
    /\ LET records == AddRef([m_ResourceRecords EXCEPT ![r] = 1], Parent[r]) IN
       IF Parent[r] # NoParent
       THEN /\ MarkResourceFrameReferenced(r, eFrameRef_ReadBeforeWrite, records)
            /\ kept' = [kept EXCEPT ![r] = 0]
       ELSE /\ m_ResourceRecords' = records
            /\ UNCHANGED <<m_ResourceRefTimes, frameVars, kept>>
    /\ UNCHANGED <<captureVars, refAllResources, changed>>

\* vkQueueSubmit, under m_CapTransitionLock: the references of what is
\* submitted are marked, then the GPU does it.
QueueSubmit(r, refType) ==
    /\ ApplicationRuns /\ stage # "prepared"
    /\ {r, Parent[r]} \ {NoParent} \subseteq m_CurrentResourceMap
    /\ MarkResourceFrameReferenced(r, refType, m_ResourceRecords)
    /\ changed' = IF IsDirtyFrameRef(refType) THEN changed \cup {r} ELSE changed
    /\ kept' = IF Keeps(refType) THEN [kept EXCEPT ![r] = 0] ELSE kept
    /\ old' = IF IsDirtyFrameRef(refType) THEN old \ {r} ELSE old
    /\ UNCHANGED <<m_CurrentResourceMap, m_DirtyResources, m_State, stage, DataWritten, file,
                   atStart, refAllResources, fresh>>

\* As ReleaseCurrentResource, without the last chance to fetch.
ReleaseUnprepared(id) ==
    /\ NothingToPrepare
    /\ m_CurrentResourceMap' = m_CurrentResourceMap \ {id}
    /\ m_DirtyResources' = m_DirtyResources \ {id}
    /\ m_ResourceRefTimes' = [r \in Resources |->
          IF r \in LowerBound(id) THEN NotListed ELSE m_ResourceRefTimes[r]]

ReleaseCurrentResource(id) ==
    /\ IF IsActiveCapturing /\ id \in m_PostponedResourceIDs
       THEN PrepareNow(id) ELSE NothingToPrepare
    /\ m_CurrentResourceMap' = m_CurrentResourceMap \ {id}
    /\ m_DirtyResources' = m_DirtyResources \ {id}
    /\ m_ResourceRefTimes' = [r \in Resources |->
          IF r \in LowerBound(id) THEN NotListed ELSE m_ResourceRefTimes[r]]

\* vkFreeMemory and vkDestroyImage.
Destroy(r) ==
    /\ ApplicationRuns /\ r \in m_CurrentResourceMap
    /\ MemoryFirst \notin Hazards => \A q \in m_CurrentResourceMap : Parent[q] # r
    /\ ReleaseCurrentResource(r)
    /\ m_ResourceRecords' = Delete[r][m_ResourceRecords]
    /\ UNCHANGED <<m_FrameReferencedResources, m_SkippedResourceIDs, captureVars, worldVars>>

-----------------------------------------------------------------------------
(* The capturing thread.                                                   *)

\* StartFrameCapture before it takes m_CapTransitionLock.
StartFrameCapture ==
    /\ stage = "idle" /\ ~IsActiveCapturing
    /\ stage' = "starting"
    /\ old' = {r \in Resources : m_ResourceRefTimes[r].write > PERSISTENT_RESOURCE_AGE}
    /\ ClearReferencedResources
    /\ UNCHANGED <<m_CurrentResourceMap, m_ResourceRefTimes, m_InitialContents,
                   m_PostponedResourceIDs, m_SkippedResourceIDs, m_State, DataWritten, file,
                   atStart, worldVars>>

\* What PrepareInitialContents looks at.
Preparable == {r \in m_DirtyResources \cap m_CurrentResourceMap : m_ResourceRecords[r] > 0}
Skippable  == {r \in Preparable : ShouldSkip(r)}
Postponable == {r \in Preparable \ Skippable : ShouldPostpone(r)}

PrepareInitialContents ==
    /\ stage = "starting"
    /\ stage' = "prepared"
    /\ m_SkippedResourceIDs' = m_SkippedResourceIDs \cup Skippable
    /\ m_PostponedResourceIDs' = m_PostponedResourceIDs \cup Postponable
    /\ m_InitialContents' = [r \in Resources |->
          CASE r \in Postponable -> "empty"
            [] r \in Preparable \ (Skippable \cup Postponable) -> "start"
            [] OTHER -> m_InitialContents[r]]
    /\ atStart' = m_CurrentResourceMap /\ changed' = {} /\ file' = EmptyFile
    /\ UNCHANGED <<managerVars, m_FrameReferencedResources, m_State, old, DataWritten,
                   refAllResources, fresh, kept>>

\* The lock is released.
BeginActiveCapture ==
    /\ stage = "prepared"
    /\ stage' = "capturing" /\ m_State' = "ActiveCapturing"
    /\ UNCHANGED <<managerVars, frameVars, old, DataWritten, file, atStart, worldVars>>

EndFrameCapture ==
    /\ stage = "capturing"
    /\ stage' = "ended" /\ m_State' = "BackgroundCapturing"
    /\ UNCHANGED <<managerVars, frameVars, old, DataWritten, file, atStart, worldVars>>

InsertReferencedChunks ==
    /\ stage = "ended"
    /\ stage' = "chunks"
    /\ LET reached == UNION {Lineage[r] : r \in {q \in Wanted : m_ResourceRecords[q] > 0}} IN
         /\ file' = [file EXCEPT !.chunks = reached \ DataWritten]
         /\ DataWritten' = DataWritten \cup reached
    /\ UNCHANGED <<managerVars, frameVars, m_State, old, atStart, worldVars>>

Serialised == {r \in Wanted : m_InitialContents[r] # "none" /\ m_ResourceRecords[r] > 0}

\* What was postponed is fetched now; what has been written is freed.
InsertInitialContentsChunks ==
    /\ stage = "chunks"
    /\ stage' = "contents"
    /\ m_PostponedResourceIDs' = m_PostponedResourceIDs \ Serialised
    /\ file' = [file EXCEPT !.contents = [r \in Resources |->
          IF r \notin Serialised THEN "none"
          ELSE IF r \in m_PostponedResourceIDs THEN Prepare_InitialState(r)
          ELSE m_InitialContents[r]]]
    /\ m_InitialContents' = [r \in Resources |->
          IF r \in Serialised THEN "empty" ELSE m_InitialContents[r]]
    /\ UNCHANGED <<managerVars, m_FrameReferencedResources, m_SkippedResourceIDs, m_State, old,
                   DataWritten, atStart, worldVars>>

\* The replay creates contents for what is listed, and frees any other.
Serialise_InitialContentsNeeded ==
    /\ stage = "contents"
    /\ stage' = "needed"
    /\ file' = [file EXCEPT !.needed =
          {r \in Referenced : IsDirtyFrameRef(m_FrameReferencedResources[r])} \cup
          {r \in Wanted : m_InitialContents[r] # "none"}]
    /\ UNCHANGED <<managerVars, frameVars, m_State, old, DataWritten, atStart, worldVars>>

\* ResetLastWriteTimes: the capture was no time in which nothing was written.
ResetLastWriteTimes ==
    m_ResourceRefTimes' = [r \in Resources |->
        IF r \in old \/ m_ResourceRefTimes[r] = NotListed THEN m_ResourceRefTimes[r]
        ELSE [m_ResourceRefTimes[r] EXCEPT !.write = 0]]

\* The end of EndFrameCapture.
FinishFrameCapture ==
    /\ stage = "needed"
    /\ stage' = "idle"
    /\ ResetLastWriteTimes /\ ClearReferencedResources /\ FreeInitialContents
    /\ DataWritten' = {}
    /\ UNCHANGED <<m_CurrentResourceMap, m_State, old, file, atStart, worldVars>>

DiscardFrameCapture ==
    /\ stage = "capturing"
    /\ stage' = "idle" /\ m_State' = "BackgroundCapturing"
    /\ ClearReferencedResources /\ FreeInitialContents
    /\ DataWritten' = {}
    /\ UNCHANGED <<m_CurrentResourceMap, m_ResourceRefTimes, old, file, atStart, worldVars>>

-----------------------------------------------------------------------------
InitialContentsInit ==
    /\ m_State = "BackgroundCapturing" /\ stage = "idle"
    /\ m_CurrentResourceMap = {} /\ m_DirtyResources = {} /\ fresh = Resources
    /\ m_ResourceRecords = [r \in Resources |-> 0]
    /\ m_FrameReferencedResources = [r \in Resources |-> eFrameRef_None]
    /\ m_InitialContents = [r \in Resources |-> "none"]
    /\ m_PostponedResourceIDs = {} /\ m_SkippedResourceIDs = {}
    /\ m_ResourceRefTimes = [r \in Resources |-> NotListed]
    /\ DataWritten = {} /\ old = {} /\ file = EmptyFile
    /\ refAllResources \in BOOLEAN
    /\ atStart = {} /\ changed = {}
    /\ kept = [r \in Resources |-> PERSISTENT_RESOURCE_AGE + 1]

SubmittedRefs == {eFrameRef_Read, eFrameRef_PartialWrite, eFrameRef_CompleteWrite,
                  eFrameRef_CompleteWriteAndDiscard}

InitialContentsNext ==
    \/ \E r \in Resources : Create(r) \/ Destroy(r)
    \/ \E r \in Resources, refType \in SubmittedRefs : QueueSubmit(r, refType)
    \/ CleanBackgroundFrameReferences \/ Tick
    \/ StartFrameCapture \/ PrepareInitialContents \/ BeginActiveCapture
    \/ EndFrameCapture \/ DiscardFrameCapture
    \/ InsertReferencedChunks \/ InsertInitialContentsChunks
    \/ Serialise_InitialContentsNeeded \/ FinishFrameCapture

InitialContentsSpec == InitialContentsInit /\ [][InitialContentsNext]_initialContentsVars

-----------------------------------------------------------------------------
Contents == {"none", "empty", "start", "later", "lost"}

\* Types.
InitialContentsTypeOK ==
    /\ m_State \in {"BackgroundCapturing", "ActiveCapturing"}
    /\ stage \in {"idle", "starting", "prepared", "capturing", "ended", "chunks", "contents", "needed"}
    /\ {m_CurrentResourceMap, m_DirtyResources, m_PostponedResourceIDs, m_SkippedResourceIDs,
        DataWritten, old, fresh, atStart, changed} \subseteq SUBSET Resources
    /\ m_ResourceRecords \in [Resources -> Nat]
    /\ m_FrameReferencedResources \in [Resources -> FrameRefType]
    /\ m_InitialContents \in [Resources -> Contents]
    /\ m_ResourceRefTimes \in [Resources -> ResourceRefTimes \cup {NotListed}]
    /\ file \in [chunks : SUBSET Resources, contents : [Resources -> Contents], needed : SUBSET Resources]
    /\ kept \in [Resources -> 0 .. PERSISTENT_RESOURCE_AGE + 1] /\ refAllResources \in BOOLEAN

\* The replay has to find what the resource held before the frame.
LeftToReplay(r) ==
    /\ r \in atStart /\ r \in Referenced
    /\ ~IsCompleteWriteFrameRef(m_FrameReferencedResources[r])

\* The capture file holds, for everything the frame reads or partly writes, the
\* contents it had when the frame began, and the replay is told to keep them:
\* whatever was skipped and postponed, and whatever was written or destroyed
\* since, contents are fetched in time.
StartContentsKept ==
    stage = "needed" => \A r \in Resources : LeftToReplay(r) =>
        file.contents[r] = "start" /\ r \in file.needed

\* The record of everything the frame refers to is in the file with those it
\* depends on, also when the application destroyed the resource or its memory
\* before the file was written, and in every capture, not only the first.
RecordsInFile ==
    stage \in {"chunks", "contents", "needed"} =>
        \A r \in Referenced : Lineage[r] \subseteq file.chunks

\* A record has as many references as it has users: the application's
\* resource, the frame, and the records bound to it.  None is leaked or deleted
\* while it is in use (RDCASSERT(ref >= 0) in ResourceRecord::Delete).
RecordsCounted ==
    \A r \in Resources :
        m_ResourceRecords[r] =
            Cardinality({"application" : x \in {r} \cap m_CurrentResourceMap})
          + Cardinality({"frame" : x \in {r} \cap Referenced})
          + Cardinality({q \in Resources : Parent[q] = r /\ m_ResourceRecords[q] > 0})

\* A record lives as long as anything needs it and no longer, from frame to
\* frame, and while a file is written it is in that file.
RecordsKept == RecordsCounted /\ RecordsInFile

\* "if the firstSkipTime is longer than SKIP_RESOURCE_AGE ago then we know the
\* resource has only ever been skipped (or not written) for that long"
\* (resource_manager.h:790): what is skipped at the start of a frame held
\* nothing worth keeping.
SkippedWasOnlyDiscarded ==
    \A r \in m_CurrentResourceMap : HasSkippableAge(r) => kept[r] >= SKIP_RESOURCE_AGE

\* What is left out of a capture was not worth keeping, and the rest is what it was
\* when the frame began.
ContentsKept == StartContentsKept /\ SkippedWasOnlyDiscarded
=============================================================================
