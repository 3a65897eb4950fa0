# A verification project for RenderDoc

TLA+ models of the parts of RenderDoc where several threads, processes or
machines act on shared state, the TLC runs that check them on small instances,
and proofs, checked by TLAPS, of what must hold on every instance. Every
definition is translated from the source; `PROJECT.json` names the lines each
one stands for, the bug (mutant) that each property is shown to catch, the
hazards the properties are aimed at, and the findings.

Contents

1. [The system](#1-the-system)
2. [Modules](#2-modules)
3. [Models and code](#3-models-and-code)
4. [Runs](#4-runs)
5. [Proofs](#5-proofs)
6. [Findings and disagreements](#6-findings-and-disagreements)
7. [What is not modelled](#7-what-is-not-modelled)
8. [Plan](#8-plan)

## 1. The system

RenderDoc is a frame debugger. A library is injected into an application; it
wraps the graphics APIs, records a frame when asked to (a *capture*) and writes
a file. The same library, in another process, replays the file under the
control of a UI, locally or through a server on another machine.

| Component | State | Operations | Correct when |
|---|---|---|---|
| Frame capturer registry (`core/core.cpp`, class `RenderDoc`) | ordered map (device, window) → capturer and reference count, set of bare devices, the active window; one lock | add, remove, match with wildcards, cycle, set active | the active window is always a registered one; a lookup finds what is registered, and never another device's capturer |
| Frame capture in class `RenderDoc` | `m_Cap`, queued frames, `m_CapturesActive`, title, current file, list of captures; locks on some | trigger, queue, cycle, start, end, discard, `FinishCaptureWriting` | nothing is captured that was not asked for; a file is not overwritten; metadata belongs to the capture |
| Vulkan driver: frame boundaries (`driver/vulkan/vk_core.cpp`) | capture state, first-frame and app-controlled flags, failure flag, frame counter, swapchains per window | first frame, present, start, end, discard | every capture ends; the driver gets the captures it starts |
| In-application API (`replay/app_api.cpp`) | none | forwards to class `RenderDoc` | as `renderdoc_app.h` documents |
| Target control, application side (`core/target_control.cpp`) | a server thread, a thread per client, the name of the client, shutdown flags, callbacks into a thread's stack | accept, lookup, kick, join, claim, spawn, busy; report, obey commands, leave | one client at a time; the UI learns what happened; threads end |
| Target control, `TargetControl` object | socket, copies in progress, name of the busy client | connect, receive a message, send a command, shut down | as `renderdoc_replay.h` documents |
| Live capture window (`qrenderdoc/.../LiveCapture.cpp`) | connection thread, slots for commands | queue a command, delete and save captures | no command is lost |
| Replay manager (`qrenderdoc/Code/ReplayManager.cpp`) | render thread, queue of invokes, remote connection, lock | open, close, sync and async invokes, connect, ping | a blocking caller is answered; one thread talks to a server at a time |
| Remote server (`core/remote_server.cpp`) | active client, its flags, list of threads, files of a session; tickers on the same socket | accept, handshake, busy, packets, clean up, reap, shut down | sessions do not overlap; threads are reaped or joined; files live as long as their session; an answer matches its request |
| Frame references (`core/resource_manager.h`, `.cpp`) | reference type per resource or part, by command buffer and by frame; policy of a replay | compose in order, in unknown order, over parts; requirement before a replay | a replay reads what the captured frame read |
| Initial contents and records (`core/resource_manager.h`, Vulkan's use of it) | dirty, referenced, postponed and skipped resources, times of writes, reference counts of records | mark, skip, postpone, prepare, serialise, release | a frame's inputs are in the capture; a record lives as long as it is needed |
| Intervals (`core/intervals.h`) | map from the start of an interval to its value | update, merge | equal to the function on points it stands for, in the shortest form |
| Replay proxy, replay controller, outputs | state of the API at an event | lock-step calls | single-threaded by contract |
| Capture files (`serialise/rdcfile.cpp`) | table of the sections of a file, the section that is being written and what the callbacks of its writer have captured | open, copy, add a section, replace one in place | who opens the file next finds every section as it was written last |
| Streams (`serialise/streamio.*`) | blocks that go round between the thread that writes and the one that owns the file, a window of bytes over a file or socket | write, flush, delete; read, skip | bytes arrive in order; after a flush that succeeds they are written; nobody waits for ever |
| Sparse page table (`core/sparse_page_table.*`, the drivers' use of it) | a mapping per subresource or tail of mips, single or page by page | bind boxes, ranges of tiles, ranges of bytes; copy between tables; load and bind again in a replay | every page is bound to what the application bound it to, also in a replay |
| Wrapped pool (`common/wrapped_pool.h`) | slots | allocate, free | equal to the set of slots it stands for |
| Debug sessions of the JetBrains service (`jetbrains/renderdoc-service`) | draw call, position in its trace, calls on the way there, breakpoints, state shown by the front end | step, resume, set breakpoints | no breakpoint is passed; the front end sees where the session is |

`PROJECT.json` lists the rest (other drivers, shaders, hooking, operating
system layer, UI widgets, ...), all of them outside the models.

How they interact:

- The application's threads call the wrapped API; a present goes through the
  driver (`WrappedVulkan::Present`) to class `RenderDoc`
  (`ShouldTriggerCapture`, `StartFrameCapture`), which looks the capturer up
  and calls back into the driver, which may be a different device.
- Target control threads write `m_Cap`, the queued frames, the active window
  and the `retrieved` flag of captures directly, and poll everything else; they
  are given progress by a callback that writes to the client thread's stack.
- A UI owns a `TargetControl` object per connection, polls `ReceiveMessage` and
  sends commands that name captures by index.
- The UI's replay manager runs the replay controller on a thread of its own and
  talks to a remote server on that thread, on the UI's and on a connecting one.
- A remote server has a thread that accepts and reaps, and one per connection;
  the thread of the active connection has a ticker that writes to its socket
  while a capture is opened or its callstacks are resolved.
- While a frame is captured, submits of any thread mark resources; what they do
  decides which initial contents are fetched, when, and which the file gets.
  The references end up in the file and decide what every replay resets.
- The file gets its sections through an `RDCFile`, one at a time: the object hands
  out a stream writer, and learns of the end of the section by callbacks of that
  writer. Below a stream writer that compresses or not is a `FileWriter`, which may
  have a thread of its own.

What is hard: the hand-over from one UI to the next while the old thread ends
by itself; indices into a list that is compacted; a single title, file name and
counter for captures of several devices; the several ways to start and end a
capture; one report per tick; process exit with threads running; lost
connections; threads that end by themselves and are noticed by a field they
clear; contents fetched late because they were thought not to be needed;
references whose order is not known; blocks in four lists of two threads, and an
error that one of them notices after the other was told that all is well; files
that are changed in place by steps that may fail. `PROJECT.json` has the list under `hazards`, each with the line
and the properties aimed at it.

## 2. Modules

```
CapturerRegistry
   ^
FrameCapture ---------- FrameCaptureProofs (also of the registry)
   ^
MCFrameCapture (constants of two configurations)

SingleClient   <--- refines --- TargetControl ---- TargetControlProofs
                                  ^
                                MCTargetControl (three configurations)

SessionService <--- refines --- RemoteServer ----- RemoteServerProofs

ReplayManager ---------- ReplayManagerProofs

FrameRefTypes <-- FrameRefs --------+
   ^    ^  ^                        +-- ResourceManagerProofs
   |    |  +----- InitialContents --+
   |    |
   +----+-------- Intervals <---------- AlgorithmProofs

PageMappings
   ^
PageTable
   ^
SparseBindings <---------------- SparseBindingsProofs
   ^
MCSparseBindings (shapes of resources)

ByteSink <--- refines --- FileWriter --+
RDCFile -------------------------------+---- CaptureFileProofs
MCCaptureFile: FileWriter, RDCFile side by side

LineBreakpointsMapper
   ^
DebugSession <------------------ AlgorithmProofs
   ^
MCDebugSession (a frame)

MCSequential: CapturerRegistry, FrameRefs, InitialContents, Intervals,
              SparseBindings, DebugSession side by side
```

- `CapturerRegistry`: the registry alone, under any sequence of calls.
  `FrameCapture` extends it and uses its operations; the property
  `RegistrySpec` says that within the bigger module the registry still behaves
  as specified, so that what is proved of it carries over.
- `FrameCapture`: triggers, the in-application API, presents, the driver and
  the writing of files, for any number of devices with a thread each.
- `SingleClient`: what target control promises about clients, in three actions.
- `TargetControl`: both ends of every connection, the sockets between them and
  the application's side of what is reported. It implements `SingleClient`.
- `SessionService`: what a remote server promises about sessions, in four.
- `RemoteServer`: the server, its threads and tickers, and the `RemoteServer`
  objects at the other end. It implements `SessionService`.
- `ReplayManager`: the replay side of the UI, on its own: it meets the rest of
  the system at the remote server, which is a connection that may break here.
- `FrameRefTypes`: the reference types and the pure functions on them, used by
  the three modules below.
- `FrameRefs`: a machine that gives the references a meaning, by capturing a
  frame of reads and writes and replaying it twice.
- `InitialContents`: the resource manager across captures, with the Vulkan
  driver's calls of it.
- `Intervals`: the map of intervals, one loop iteration at a time.
- `PageMappings`: the mapping of one subresource, its splitting and its joining.
- `PageTable`: the table of a resource and the functions that change it. Loops are
  functions of the number of iterations, so that they can be proved about.
- `SparseBindings`: the calls of the D3D12 and Vulkan drivers, with what each
  means for an application, and what a replay does with the table of a capture.
- `ByteSink`: what a stream writer relies on, in six actions.
- `FileWriter`: a file written by a thread of its own, or at once. It implements
  `ByteSink`.
- `RDCFile`: the sections of capture files, in memory and in the file.
- `LineBreakpointsMapper`: where a line of a source file is in the text a shader
  was compiled from.
- `DebugSession`: sessions of shader debugging, command by command.
- `MCSequential` composes the six modules whose operations a lock, or a caller that
  waits for each, makes sequential. They share no variable; a behaviour picks one part and stays with
  it, so its states are those of the parts, added up and not multiplied.
- `MCCaptureFile` does the same with `FileWriter` and `RDCFile`.
- `*Proofs`: theorems. `MC*.tla`: constants for TLC.

The two halves meet at captures and triggers: `TargetControl` has `m_Cap`, the
queue and the list as `FrameCapture` does, but a capture is two steps of the
application, `BeginCapture` and `FinishCaptureWriting`, whose detail is
`FrameCapture`. `InitialContents` is what happens between that start and that
end to the resources; its stages are those of a capture in
`FrameCapture` (idle, starting, capturing, ended), and it adds the steps in which
the file is written.

## 3. Models and code

### CapturerRegistry

Every operation holds `m_CapturerListLock` from beginning to end and is one
action. Pointers are numbers and `NULL` is 0, because the map's order
(`DeviceOwnedWindow::operator<`) and the lookup from `lower_bound` depend on how
pointers compare. A capturer is identified with the device that owns it, as in
the Vulkan driver. `MaxRefs` bounds the reference count of a pair; it matters
only that it can exceed one.

### FrameCapture

| Code | Model |
|---|---|
| `TriggerCapture`, `QueueCapture`, `CycleActiveWindow`, `SetCaptureTitle` | actions of any thread, at any time |
| `RENDERDOC_StartFrameCapture` etc. | `Api*FrameCapture(d, devWnd)` on the thread of `d` |
| `vkQueuePresentKHR` | `QueuePresent` (frame counter, keys), then per swapchain `Present` and `PresentTrigger` |
| `WrappedVulkan::Present` up to its trigger check | `Present(d)` |
| `ShouldTriggerCapture` and the start it leads to | `PresentTrigger(d)` |
| `EndFrameCapture`, `CreateRDC` | `EndFrameCapture`, choosing the path |
| the writing of the file | the time a thread spends with `pc = "write"` |
| `FinishCaptureWriting` and the return | `FinishCaptureWriting(d)` |
| `vkCreateInstance`, `vkCreateDevice`, `FirstFrame`, surfaces, swapchains, their destruction | `Lifecycle(d)` |

Abstractions and assumptions:

- API calls and markers for a device are made on the thread that renders with
  it (`OnItsThread`). The code does not demand it in an assertion; without it
  the driver's own fields are raced on.
- The frame counter saturates at `MaxFrame`; later frames are alike but for the
  file name, which then repeats (more chances for a clash, not fewer).
- A window has at most one surface and one swapchain per device.
- Preparing initial contents fails or not, nondeterministically; so does
  creating the file.
- `m_CaptureTitle` is represented by the captures that were in progress when it
  was set, which is what the property about titles compares.
- `AdvanceFrame` polls keys in `Tick`; a key press is a choice there.
- `ShouldTriggerCapture` is one action: the unlocked decrement of `m_Cap` racing
  with an assignment is a hazard of its own and is not modelled.
- `MaxRequests` bounds the captures asked for, `MaxStrayEnds` the calls that end
  a capture nobody started, and `ApiQueries` the arguments the application uses.
- `capture`, `requested` and `started` are history.

### TargetControl

The server thread is split at every access to state a client thread also
touches, a client thread at every access the server or the application can
observe:

| Code | Model |
|---|---|
| `AcceptClient`, handshake, version check | `ServerAccept` |
| read of the name under its lock | `ServerLookup` |
| set the client shutdown flag | `ServerKick` |
| `JoinThread`, `CloseThread`, reset | `ServerJoin` |
| write of the name under its lock | `ServerClaim` |
| `CreateThread` | `ServerSpawn` |
| Busy | `ServerBusy` |
| end of the loop | `ServerStop`, or `ServerAcceptFails` |
| start of the client thread: reply, callback, `ValidateCaptures` | `ThreadHandshake`, `ThreadSetCallback`, `ThreadValidate` |
| the loop: one report, one packet | `ThreadTick`, `ThreadCommand` |
| leaving: socket, callback, name | end of tick or command, `ThreadClearCallback`, `ThreadClearName` |
| `RemoveHooks`, its wait, `~RenderDoc` | `RemoveHooks`, `RemoveHooksReturns`, `Exit` |
| `TargetControl` constructor, `ReceiveMessage`, commands, `Shutdown` | `UIConnect`, `UIHandshake`, `UIReceive`, `UILost`, `UIRequest`, `UIDelete`, `UICopy`, `UIShutdown` |

Abstractions and assumptions:

- A member of `Clients` is one connection; each object connects once.
- `Scenarios` names who connects, how many captures are asked for, which
  commands are sent and which events of the environment happen; a behaviour
  picks one of them in `Init` and keeps it (`scenario`), so that one run checks
  one UI with every failure and two UIs without them. The proofs hold for any
  set of scenarios.
- A chunk on a socket is a record that arrives whole or not at all. A socket
  buffers `MaxQueue` chunks, then a send blocks; once the connection is broken a
  send may succeed (and vanish) or fail, and what is in flight may be lost.
  `Break`, the close of either end and the buffering are external: they model
  the operating system from how `target_control.cpp` uses it.
- One tick takes a snapshot of the application and sends the first difference in
  the code's order; snapshot and send are one action (`ThreadTick`), because
  the difference is computed from the snapshot only and everything reported
  grows or is compared again on the next tick.
- The progress throttle is a choice: a partial value may be held back, a final
  one never is. Progress is *none*, *part* or *done*.
- A trigger of *n* frames is one of one frame here; counts are `FrameCapture`'s.
- `file` and `path` in the records are not on the wire; they remember what the
  sender meant and are read by properties only.
- `SetProgress` is one action; see the hazard at `core.h:421`.
- UIs of protocol versions below 9 exist only as the version number they
  announce; those below 2 are rejected, those below 4 and 7 do not get window
  counts and show requests.

### ReplayManager

| Code | Model |
|---|---|
| `AsyncInvoke`, `BlockInvoke`, a flag that is waited for | a `Command` with `wait` "no", "block", "flag"; `blocked` has the callers |
| `PushInvoke` of the UI | one step: only the UI stops the replay thread |
| `PushInvoke` of another thread | `WorkerInvoke` (its check), `WorkerPush` (the queue) |
| `ReplayManager::run` | `ReplayCreate` to `ReplayClosed`, a step per access to shared state |
| `LoadCapture`, `LoadCaptureThreaded`, `OpenCapture` | `UILoadCapture`, `UIOpened`, `UIFetched` |
| `CloseCapture`, `OnCaptureClosed`, `CloseThread` | `UICloseCapture`, `UIOrphan`, `UIClosed` |
| `ListFolder`, `GetHomeFolder`, `GetRemoteSupport`, `DeleteCapture` | `UIRequest`, `UIRequested`; `DeleteCapture` with a capture open is a command |
| copies, `ExecuteAndInject` | `UIHelp`, `HelperLock`, `HelperTalked`, `UIHelped` |
| `messageCheck`, `PingRemote` | `CheckLoaded`, `CheckUnloaded`, `UIPinged`, `UIDisconnect` |
| `setRemoteHost`, `ConnectToRemoteServer` | `SetRemoteHost`, `ConnectToRemoteServer` |
| `RemoteManager`'s shutdown of a server | `ShutdownServer` |

Abstractions and assumptions:

- A call of a remote server is a conversation that begins in one step and ends
  in a later one (`talk`); whether it succeeds matters for opening a capture and
  for pings only.
- The loader thread and the UI that shows its progress dialog are one thread.
- `crashed` ends a behaviour in which somebody dereferences an `m_Remote` that
  was reset after the check; properties say nothing about what follows.
- `WhileOpen` names what a user can do while a capture is open, or about to be,
  that the code does not cope with (section 6): browse folders, shut the server
  down, open a capture before a connection is made. It is empty in
  `MCReplayManager`, which therefore speaks of users who do none of the three.
- Tags, fatal errors, the timer of a command and `CancelReplayLoop` are left out.

### RemoteServer

| Code | Model |
|---|---|
| the loop of `BecomeRemoteServer`: `killReplay`, accept, the flag of the active client | `ServerAccept` |
| the rest of a round: reap the first dead thread, check the address, start a thread | `ServerReap` |
| `accept()` fails | `ServerAcceptFails` |
| after the loop: tell the active thread, forget it; join all | `ServerStop`, `ServerJoin` |
| `HandleHandshakeClient` | `ThreadHandshake` |
| the loop of `ActiveRemoteClientThread`, one packet | `ThreadQuery`, `ThreadCopy`, `ThreadTakeOwnership`, `ThreadShutdown`, `ThreadOpen` to `ThreadTellOpened`, `ThreadClose`, `ThreadInitResolver` to `ThreadTellResolved` |
| the ticker threads | `Tick` |
| a read that fails, or waits too long | `ThreadReadFails`, `ThreadTimeout` |
| after the loop: driver, files; then the socket | `ThreadCleanup`, `ThreadCloses` |
| `RENDERDOC_CreateRemoteServerConnection`, the calls of a `RemoteServer`, `ShutdownConnection` | `UIConnect`, `UIHandshake`, `UIRequest`, `UIReceive`, `UILost`, `UIShutdown` |

Abstractions and assumptions:

- A member of `Clients` is a connection, both ends of it, and the `ClientThread`
  made for it. `NULL` is `NoClient`.
- Requests that are answered at once and change nothing the model has (ping,
  lists, the calls of the replay proxy, copies to the UI) are one request,
  `Query`.
- The paths of copies are numbered from zero in every session, which is the worst
  case of their names: the time in them has a resolution of a minute.
- A UI opens a second capture only after it closed the first, and closes or
  resolves only what it has open: `RemoteServer` objects are used that way by
  `CaptureContext`. The server itself asserts the first.
- `Scenarios` is a set of sets: each behaviour is one of a UI that uses the calls
  of one set, with the failures named in it. `foreignCallstacks` is in none of
  the scenarios of a passing run (section 6).
- `asked` and `opened` are what the caller waits for and has; `disk` remembers who
  wrote a path.

### SessionService

`serving` is a server before its `join`, `holder` the active connection,
`working` the connections whose thread is inside `ActiveRemoteClientThread`.

### FrameRefTypes and FrameRefs

The reference types are the numbers of the enumeration, because the code takes
maxima of them. `ComposeFrameRefs`, `ComposeFrameRefsUnordered`,
`ComposeFrameRefsDisjoint`, `InitReq` and the predicates are the functions of
those names. `Whole` is the loop of `MaxInitReq` in closed form
(`WholeIsLoop`).

The machine has the subresources of one resource, an image or a piece of memory,
each in two halves so that a partial write leaves something. Contents are the
number of the access that wrote them. Accesses by commands (`Command`) are
composed in order; accesses by shaders (`Shader`) only as bindings, in unknown
order; `Submit` composes the references of the bindings first, then those of the
commands, as `CaptureQueueSubmit` does. `FirstReplay` and `NextReplay` reset what
`Apply_InitialState` resets for the chosen policy, and `ReplayAccess` performs the
recorded accesses again. What `Clear` and never initialised memory hold differs
from everything else. A read is of a subresource that holds no undefined half: an
application that reads what it discarded is not entitled to anything.

### InitialContents

| Code | Model |
|---|---|
| `MarkResourceFrameReferenced`, `SkipOrPostponeOrPrepare_InitialState`, `UpdateLastWriteTime` | operators of those names, in `QueueSubmit` and `Create` |
| `vkQueueSubmit` under `m_CapTransitionLock` | `QueueSubmit` |
| `vkCreateImage`, `vkBindImageMemory`, `vkBindBufferMemory` | `Create` |
| `vkDestroyImage`, `vkFreeMemory`, `ReleaseCurrentResource`, `ResourceRecord::Delete` | `Destroy` |
| `CleanBackgroundFrameReferences` | the action of that name |
| `StartFrameCapture` up to and under the transition lock | `StartFrameCapture`, `PrepareInitialContents`, `BeginActiveCapture` |
| `EndFrameCapture`: state, chunks of records, initial contents, list of needed ones, the rest | `EndFrameCapture`, `InsertReferencedChunks`, `InsertInitialContentsChunks`, `Serialise_InitialContentsNeeded`, `FinishFrameCapture` |
| `DiscardFrameCapture` | the action of that name |

Times are ages in units of the threshold they are compared with, and saturate.
Contents are *start* (as when the frame began), *later* or *lost*. `Hazards` names
what an application may do that the manager does not cope with (section 6); the
passing run has none of it. `kept`, `changed` and `atStart` are history.

### Intervals

`StartPoints` is the map; `i` and `j` are the iterators of `update` and `merge`,
by their start points; one iteration of a loop is one step, because `split` and
`mergeLeft` change the map under the iterators. `expected` is the composition
point by point and is read by properties only. Points are `0 .. UINT64_MAX - 1`
for any bound; values are any set closed under composition, reference types here.

### PageMappings, PageTable and SparseBindings

| Code | Model |
|---|---|
| struct `PageRangeMapping`: `getPage`, `createPages`, `simplifyUnmapped` and the loops over pages | operators of those names, and `BindPages` |
| `PageTable::Initialise` | `BufferLayout`, `ImageLayout` |
| `setMipTailRange`, `setImageBoxRange`, `setImageWrappedRange` | operators of those names; an iteration over tails is `SetOneTail`, over subresources `SetWrapped` |
| `copyImageBoxRange`, `copyImageWrappedRange` | operators of those names; between tails `CopyTail` in both, an iteration is `CopyWrapped` |
| `UpdateTileMappings` | `UpdateTileMappings`, with `UpdateBox` and `UpdateWrapped` for a region, one `SetBox` or `UpdateTiles` at a time |
| `CopyTileMappings` | the action of that name |
| `ResourceInfo::Update` for binds of images, of buffers and of opaque memory | `UpdateImage`, `UpdateOpaque` |
| `DoSerialise` of a mapping, `SparseBinds`, the binds of the Vulkan replay | `Loaded`, `Joins` and `BindPage`, `ReplayedPages` |

`tables` has the page tables of two resources of the same `layout`. `boundTo` is
what the API says the calls mean: `tiles` lists the tiles of the resource in the
order of the API, a region is a list of them (`RegionTiles`), ranges are a list of
pages (`RangePages`), and the *n*-th tile gets the *n*-th page. A behaviour starts
with a layout and makes up to `MaxBindings` calls; a call with two regions counts as
all of them, because it is itself a sequence.

Abstractions and assumptions:

- Images have two dimensions; the third is treated as the second by every loop.
  Aspects are subresources like any others and are left out.
- Numbers of bytes are those of a toy page; 32-bit arithmetic is modulo
  `UINT_MAX + 1` where the code has it (a number of tiles times the size of one).
- Regions are within the resource, Vulkan binds are aligned and bind no page of
  memory twice, as the APIs demand. `FitsIn`, `NotAliased` and the sets of regions
  and ranges say so.
- `IsLayout` is what the layouts are known to be: those that `Initialise` makes from
  what the driver asks the API. Where slices have a tail each, the tails are of the
  same whole number of pages and no longer than the distance between them. D3D12
  counts both in tiles (`d3d12_device_rescreate_wrap.cpp:586`); on Vulkan the size and
  the stride are multiples of the size of a block (`vk_resource_funcs.cpp:2611`).
- `copyImageWrappedRange` that reaches the last subresource touches the element
  after it (`sparse_page_table.cpp:822`). That memory is taken to be left alone.
- `TableHazards` names the calls the code gets wrong (section 6). It is empty in the
  passing run; with each of the names alone TLC finds `BindingsKept` violated.

### FileWriter and ByteSink

| Code | Model |
|---|---|
| `MakeDefault`, `MakeThreaded` | `WriterInit`, with `m_Thread` or without |
| `WriteUnthreaded` | the action of that name |
| `WriteThreaded` | `WriteIntoBlock` when the write fits into a block, else `BeginWrite`, `FillBlock`, `ExchangeBlocks` |
| `Flush` | `BeginFlush`, `FlushBlock`, `FlushPoll` or `FlushNoThread`, `FlushFile` |
| the destructor | `Delete`, the steps of a flush, `KillThread`, `JoinThread` |
| `ThreadEntry` | `ThreadContinues` or `ThreadEnds`, `ThreadExchange`, `ThreadWrite` |

Abstractions and assumptions:

- A byte is its position in the stream, so that a byte that is lost, repeated or out
  of place is seen.
- A critical section under the spin lock is one step, with what the thread does to
  its own lists next to it.
- `fwrite` may write a part and fail, `fflush` may fail. Both are modelled from how
  the code uses them.
- A call that fails is followed by the deletion of the writer, as
  `StreamWriter::HandleError` does.
- `confirmed`, `lost` and `submitted` are history; they are what `ByteSink` speaks of.
- A sleep of `Flush` or of the thread is the time between two of its steps.

### RDCFile

| Code | Model |
|---|---|
| `Open`, `Init` and its loop over the sections | `Open`, `Parsed` |
| a section appended to a file by hand, as the comment in `Init` allows | `AppendByHand` |
| `CopyFileTo` | the action of that name |
| `WriteSection`, by what it finds in the table | `AppendSection`, `OverwriteFrameCapture`, `RewriteFrameCapture`, `ReplaceSection` |
| the header of the section, and the sections moved in front of it | `StartSection` |
| writes to the stream writer it returns | `WriteSectionData` |
| the callbacks when that is deleted | `CloseSection` |

A file is a sequence of cells, one for the file header, some for each section header
and one per byte of data, with the write it comes from. `contents` has the last
write of each section and `intact` the files that no write failed in: both are
history.

Abstractions and assumptions:

- Sections are told apart by their name only; the code compares types first and
  names for the unknown type.
- Below a stream writer is a `ByteSink`: the data arrives in its order, or a part of
  it does, and the writer may not have noticed. That is all of the composition; the
  blocks of `FileWriter` have no meaning for sections.
- `lenient` is a section longer than the window of the reader, which `SkipBytes`
  leaves by a seek that does not fail at the end of the file (`streamio.h:218`).
- The process may end after any step; then the file is opened again. A failing write
  and an end of the process are both counted by `MaxSectionFailures`.
- The header of a section appended by hand is not longer than a binary one, as the
  texts that `Init` accepts are. Its data is not empty (section 6).
- When sections could not be moved, their offsets are those they would have had: the
  code does not look.
- An object that writes a section is not asked for a second one at the same time
  (section 6).

### LineBreakpointsMapper and DebugSession

| Code | Model |
|---|---|
| `try_register_sources_usages_in_file`, the set of usages of a path | `Sections`, `SectionPath`, `SourceEnd`, `Usages` |
| `map_source_line`, `lower_bound` in that set | `map_source_line`, `Found` |
| `RenderDocDrawCallDebugSession` and its data: the position, the stack of calls | a record with `pos`, `calltrace`, `callstackSize`, `breakpoints` |
| `do_instruction_step`, `do_source_step`, the loops of its commands | `do_instruction_step`, `do_source_step` (an iteration is `SourceIteration`), `StepsUntil` (`StepIteration`) and `DrawCall` |
| `resume_to_next_not_null_stack` | the operator of that name, an iteration is `ResumeIteration` |
| `RenderDocDebugSession`: `step_into`, `step_over`, `step_out`, `resume` | `StepInto`, `StepOver`, `StepOut`, `Resume` |
| its `add_*` and `remove_*` of breakpoints | `AddSourceBreakpoint`, `RemoveSourceBreakpoint`, `AddLineBreakpoint`, `RemoveLineBreakpoint` |
| `debug_vertex`, `debug_pixel`; `try_debug_vertex`, `try_debug_pixel` | `StartDrawCall`; `StartFrame` |
| `update_session_state` | the operator of that name |

A text is a sequence of markers and other lines. A trace has of each instruction its
line and column, and the functions it is in. `sessionState` is what the front end is
told: a stack, or null at the end; step index -1 is a draw call in the tree of
actions. `shownSession` is the draw call whose trace and text the front end was sent
last, and `lineBreakpoints` are the lines of the text it has breakpoints on: both
are history.

Abstractions and assumptions:

- Draw calls are in a sequence, the order in which `get_next_action` visits them; of
  the tree of actions nothing else is used.
- A shader has one file of source, or none: then a position is in the disassembly,
  where neighbouring instructions have different lines.
- Vertices and pixels differ in how a trace is got, and whether there is one.
- Variables and the values of constants are copied along and left out.
- The front end sends no command when the state is null. It does not set a line
  breakpoint on a line that has a source breakpoint, or the other way round.
- A loop is a function of the number of iterations, up to one more than there are
  instructions (`Iterations`) or draw calls; each of them takes one or ends the loop.
- `DebugAssumption` excludes what the code gives up at (section 6): instructions
  without a line inside of a called function, or where one returns to, and text that
  has a line of a file twice.
- It says of traces what the replay of SPIR-V makes of them: an instruction calls one
  function (`ThreadState::EnterFunction` pushes one frame, `spirv_debug.cpp:107`), no
  function calls itself, and two functions are not on one line and column. Lines of a
  disassembly count from 1 (`shader_types.h:608`) and differ between neighbours. A text
  with markers starts with one.

### SingleClient

`holder` is `m_SingleClientName`, `working` the connections whose thread is
inside `TargetControlClientThread`, `served` those that ever had one.

## 4. Runs

| Run | Instance | Asks |
|---|---|---|
| `MCSequential` | the six modules of `MCSequential`, bounds below | can the active window go stale, does the search from `lower_bound` miss anything; does a replay read what the frame read; does a capture get the contents of its start, and are records counted and written; are intervals the composition of what was merged; does a page table, and a replay, bind what the application bound; does a debugger pass a breakpoint, or show another place than it is at |
| `MCFrameCapture` | 2 devices that come and go, 1 window each, 2 triggers | does a lookup by a driver find itself, does a title reach the wrong capture, does the counter miss a capture, is the registry used as specified |
| `MCFrameCaptureSolo` | 1 device, 2 windows, every way to ask, 2 requests, 2 frames, 1 stray end | is anything captured unasked, is a file overwritten within one device, does every triggered capture end |
| `MCTargetControlServe` | 3 UIs, one too old, shutdown and exit | one client at a time, refinement of `SingleClient`; is every connection answered, does a kick take over, do threads end |
| `MCTargetControlCommands` | 1 UI with every command and every failure; 2 UIs, 2 captures, deletion of files and by command | are all types, bounds and counts of requests kept; do indices keep their meaning across a compaction and a kick |
| `MCTargetControlPresent` | 1 UI, 2 captures, 1 child, 1 window, show requests, a presenting application | does the UI learn of everything, is a trigger answered |
| `MCReplayManager` | 2 captures, 2 connections, 1 script, 2 commands queued | does one thread at a time talk to a server, is anybody left waiting, does a command reach the wrong capture, are connections kept and shut down |
| `MCRemoteServer` | 2 connections of any kind, five scenarios | refinement of `SessionService`; is a deleted thread used, do files of sessions mix or stay, do answers match requests; is everybody answered, is the server freed, does it return when it is to stop |
| `MCCaptureFile` | a writer with 3 blocks of 2 bytes, or without a thread; 3 files, 2 sections besides the frame capture, a failure in each | is a block lost, taken twice or out of order, is a flush more than a promise, does a call return; does a file keep what was written to it, and its frame capture whatever fails |
| `MCShutdownIgnored`, `MCCopyAllImages`, `MCReusedPages` | as above, or smaller | findings, section 6 |

Related questions share a property where one mutant cannot show them all:

| Property | Conjunction of |
|---|---|
| `TypeOK` | the type invariants of the six sequential modules |
| `ContentsKept` | `StartContentsKept` (what the frame needs is in the capture, as it was at the start) and `SkippedWasOnlyDiscarded` |
| `RecordsKept` | `RecordsCounted` (no record dies while it is used or leaks) and `RecordsInFile` |
| `BindingsKept` | `PagesAreBound` (of the table), `UnmappedIsKnown` and `ReplayBindsPages` (of a mapping that is not reused) |
| `IntervalsComposed` | `ValuesAreComposed` and `NoNeedlessIntervals` |
| `UIsAreServed` | `ConnectionAnswered` and `KickTakesOver` |
| `CommandsReachTheirCapture` | `CommandIdsMeanWhatWasSeen` and `OnlyAskedForAreRetrieved` |
| `EverythingIsReported` | `CapturesReported`, `UICatchesUp` and `ShowIsPassedOn` |
| `CapturesAreShown` | `TriggerAnswered` and `ProgressSettles` |
| `CapturesAsAsked` | `NoUnaskedCapture` and `CaptureFileIntact` |
| `SectionsOnDisk` | `TableOnDisk` and `FrameCaptureStays` |
| `ConnectionsKept` | `OneConversation`, `OpenCaptureKeepsConnection` and `NoConnectionLeaks` |
| `CommandsAreKept` | `WaitedForCommandExists` and `UICommandsOnTheirCapture` |
| `NobodyWaitsForEver` | `UIComesBack`, `WorkerAnswered` and `OrphanIsShutDown` |
| `ThreadsAreKnown` | `ActiveIsAlive` and `NoThreadIsForgotten` |
| `FilesFollowSessions` | `CopiesIntact` and `NoLeftovers` |
| `ServerGoesOn` | `HandshakeAnswered`, `CallerAnswered`, `ServerIsFreed` and `ServerReturns` |

Deadlock is checked for frame capture, where an application can always present
again. It is not for the others, which rightly stop: target control and the
replay manager when the hooks are removed, every UI has gone or the bounds are
used up; the remote server when it has returned; a file writer that is deleted and
files whose bounds are used up; in `MCSequential` a replay or a
debug session that has ended or a resource whose calls are used up.

Bounds. In the registry two of each pointer are enough for every relation
between a query and two pairs; each of the eight pairs of comparisons of
`operator<` occurs. In `FrameCapture` two captures in progress at once need two
devices, and every conflict (title, path, counter) is between two captures. In
`TargetControl` ids matter once there are two captures, as an index into a
list of one cannot shift onto another; reports compete as soon as there is one of
each kind; `MaxQueue = 1` makes every send after the first block until the other
end reads; two connections suffice for a hand-over, the third is there for the
protocol version and for a kick of a client that kicked. In `ReplayManager` a
stale command needs a second capture, and a connection is leaked or confused with
another as soon as there are two. In `RemoteServer` a session and what follows it
need two connections; one path per session is enough to collide, because both
sessions start numbering at zero. A scenario is a set of calls and failures that
touch the same state; all at once would only multiply unrelated progress. In
`FrameRefs` three accesses are a write, a read and another write, in any split
between commands and shaders and over two subresources; the proof covers any
number. `InitialContents` has an image and the
memory it is bound to, because marks, contents and records of one depend on the
other. `Intervals` over four points has intervals with a neighbour on both sides
that are split at either end, and the proof covers any number. `SparseBindings` has
five layouts: a buffer and an image whose edges cut pages and whose slices have a
tail each, with a gap between them, on Vulkan; a buffer, an image with a tail and an
array without on D3D12. The first of two calls (`MaxBindings = 2`) leaves every kind of
mapping (whole, reused, split, partly unmapped), the second meets it. Two offsets in the heap make a
run that may or may not continue another; `UINT_MAX = 63` is above every number of
bytes these layouts need, and below twice the largest offset. `DebugSession` has a
frame of four draw calls and one without any that can be debugged: a loop that calls
a function of an included file, comes back to the middle of a line and has an
instruction without a line; one without a trace; one without source; and the first
again, so that a state of one draw call can be taken for that of another. Breakpoints
are on four lines of sources, one of which is in no text, and on any line of a trace.
In `MCCaptureFile` a writer has a block to write to, one on the way and one that is
written; a write of seven bytes needs more than all of them and waits for the first to
come back, nine bytes are such a write and a short one before or after it, and of two
flushes one meets what the other left. Two sections with headers of different sizes
and with or without data are enough for one that is replaced by a shorter or longer
one, at the end or in front of another that moves; three writes and one section
appended by hand make up and change such a file, and one failure at any step is
followed by whatever can still be done.

Fairness. `FairSpec` of `TargetControl`: weak fairness of the server thread and
of every client thread (the operating system runs threads), and of the UI's
reads (the loop of `LiveCapture::connectionThreadEntry` calls `ReceiveMessage`
until it is told to stop). Strong fairness of the ticks that send something:
the throttle of progress holds a report back for a fixed time, not for ever.
No fairness of the network, of the application or of what a user does.
`PresentingSpec` adds that the application goes on presenting, so that captures
begin and end; without it a trigger is rightly never answered.
`FairSpec` of `FrameCapture`: weak fairness of a driver's steps, which run on
the application's thread, and strong fairness of the present of each window
that has a swapchain: a render loop comes back to every window it has.
`FairSpec` of `ReplayManager`: weak fairness of the replay thread, the UI and a
worker that is about to queue; strong fairness of the helper thread and of the
dialog that waits for it, since the timer of `messageCheck` takes the lock and
the UI for a moment every 175 ms, and both are ready all the time in between.
No fairness of servers, of the connecting thread or of what a user does.
`FairSpec` of `RemoteServer`: weak fairness of the server thread, of the threads
of connections and their timeouts (`StreamReader` gives up by a clock), and of
the reads of a caller that waits. No fairness of the network, of the tickers, of
failures or of new requests.
`WriterFairness` of `FileWriter`: weak fairness of the steps of a call, and of the
thread. Both poll a spin lock that is held for a few assignments and sleep in
between. A file system that fails returns; one that never returns is left out.
`ShowIsPassedOn` assumes that the windows settle: windows that change on every
tick would hold the request back, as it is the last thing a tick looks at.

Which run exercises what: `Copy`, `Queue` and `Cycle` commands, driver status
changes and broken connections are in `MCTargetControlCommands`; API calls and
markers in `MCFrameCaptureSolo`; the destruction of windows and devices in
`MCFrameCapture`. Submits and destructions while a file
is written happen only when `Hazards` allows them, in no run of the set.

## 5. Proofs

For every value of the constants (any number of devices, windows, connections,
captures, commands, accesses, subresources, points, pages or lines), under the named
assumptions of the modules:

| Theorem | Says |
|---|---|
| `RegistryTypeCorrect`, `ActiveWindowAlwaysRegistered`, `MatchClosestWindowComplete` (`FrameCaptureProofs`) | types, the active window, and the search from `lower_bound` |
| `FrameCaptureImplementsRegistry`, `FrameCaptureActiveWindow`, `FrameCaptureMatchComplete` (`FrameCaptureProofs`) | `FrameCapture` uses the registry only through its operations, so the above holds in every run of it |
| `DriverFindsItself` (`FrameCaptureProofs`) | a driver that has a device, looked up by itself and any of its windows or none, is found and not another one |
| `TitlesBelongToCaptures`, `CapturesAreAsAsked`, `NothingUnaskedStarts`, `FrameCaptureTypeCorrect` (`FrameCaptureProofs`) | a listed capture with a title was in progress when it was set; none is made that nobody asked for; with one device each keeps its file; types of the whole state |
| `CapturesAreCounted` (`FrameCaptureProofs`) | with finitely many devices and captures started by triggers only, `IsFrameCapturing` sees every capture |
| `OneClientServed`, `CallbackOwned`, `KickJoinsServingThread`, `ImplementsSingleClient` (`TargetControlProofs`) | the hand-over, and its refinement of `SingleClient` |
| `CommandsReach`, `TargetControlTypeCorrect` (`TargetControlProofs`) | a delete or copy reaches the capture its UI saw under the id, and only what was asked for is marked; types and bounds of the whole state, with every request counted once |
| `EveryThreadIsKnown`, `NoTwoSessions`, `ImplementsSessionService` (`RemoteServerProofs`) | threads are reaped when they are dead and never forgotten, sessions exclude each other, and the refinement of `SessionService` |
| `FilesAreOwned`, `AnswersAreMatched`, `RemoteServerTypeCorrect` (`RemoteServerProofs`) | copies stay while their session lasts and go with it; who reads gets the answer to what it asked, after the progress of it; types of the whole state, and no queue overflows |
| `CommandsStay`, `ReplayManagerTypeCorrect` (`ReplayManagerProofs`) | a command somebody waits for exists, what the UI asks is never executed on a later capture; types of the whole state |
| `ConnectionsLast` (`ReplayManagerProofs`) | if `WhileOpen` is empty: one conversation at a time on a connection, which outlives the captures opened over it and does not leak |
| `WholeIsLoop`, `ReplaysReadTheSame`, `ReplaysBeginClean` (`ResourceManagerProofs`) | under every policy a replay reads what the captured frame read; under all but the fastest it begins with that or, where `ClearUnread` clears, with nothing of an earlier replay |
| `RecordsStay` (`ResourceManagerProofs`) | records have as many references as users, from frame to frame, and what a frame refers to is in its file with all it depends on |
| `ContentsStay`, `SkippedIsNotMissed` (`ResourceManagerProofs`) | if `Hazards` is empty, the file of a frame holds what everything it reads or partly writes held at its start; always, what is skipped held nothing worth keeping |
| `FrameRefsTypeCorrect`, `InitialContentsTypeCorrect` (`ResourceManagerProofs`) | types and bounds of the state of a frame and its replays, and of captured frames |
| `IntervalsAreComposed`, `IteratorsAreValid` (`AlgorithmProofs`) | between calls the map is the composition of all updates and merges, in shortest form; the iterators exist whenever they are used |
| `SplitKeepsPages`, `SimplifyKeepsPages`, `BindPagesBindsThese` (`SparseBindingsProofs`) | for any size of page and any number of them: splitting a mapping, or joining it again, changes no page; binding some of its pages gives those the memory asked for and leaves the others |
| `VulkanBindingsAreKept` (`SparseBindingsProofs`) | for any memory, size of pages, buffers and images on Vulkan, and any number of binds: the table says of every page what it was bound to, knows which subresources have no memory, and a replay binds the same |
| `WrappedRangeBindsTiles` (`SparseBindingsProofs`) | on D3D12, for buffers, images and their tails: a range of pages from any page on is bound to the tiles that follow in the order of the API, and the call returns where the next subresource begins |
| `UpdateBindsTiles` (`SparseBindingsProofs`) | on D3D12, for any table and any `UpdateTileMappings` that is none of the hazards and does not name the resource as a whole: each tile of the regions is bound to its page of the ranges, the last one where it is named twice, and skipped ones stay |
| `BlocksStay`, `ImplementsSink` (`CaptureFileProofs`) | for any number and size of blocks no block is lost, however the two threads interleave; the file and the blocks on their way are the bytes submitted; a writer is a `ByteSink` |
| `SectionsLast` (`CaptureFileProofs`) | for any files, names, sizes of headers and lengths: a file in which no write failed is parsed to the table of its sections with their last data, which is the one in memory too; the frame capture stays at the front as it was written, whatever failed |
| `FrontEndSeesPositionHolds`, `CommandsStopInTimeHolds` (`AlgorithmProofs`) | for any frames, traces and breakpoints: a debug session is where the front end shows it, which has the trace and text of that draw call; no command passes a breakpoint, or a line it should stop at, and resume finds breakpoints only |
| `DebugTypeCorrect` (`AlgorithmProofs`) | types of the state of a session: the position is in the trace, and the front end shows an instruction of the frame |
| `MapsToCopies`, `CopiesAreFound` (`AlgorithmProofs`) | a breakpoint of a source file is set on copies of its line only; if the text has no line twice, it is set on the copy |

The assumptions are that pointers are non-zero naturals, `NoClient` is not a
client, the bounds are numbers, and the values of intervals are closed under
composition, parents have smaller ids than what is bound to them (memory is made
first), `Resources` is finite, a page has a byte or more, the bytes of a page divide
2^32 (`WidthAssumption`), there are offsets in a heap, and layouts are those of
`IsLayout` (section 3). They hold of the code by what the constants
stand for. Five theorems have a hypothesis of their own, and need it:
`CapturesAreCounted` (no captures by device handle, finitely many devices),
`CapturesAreAsAsked` (one device), `ConnectionsLast` (`WhileOpen` is empty),
`ContentsStay` (`Hazards` is empty) and `VulkanBindingsAreKept` (two of the
`TableHazards` do not happen). Without it the property is violated by what
section 6 lists under "Disagreements".

*Registry.* `RegistryInv` is the type invariant with `ActiveWindowRegistered`;
it is inductive. That a nonempty set of pairs has a first element (which the
code takes from its map) needs the pairs to be pairs of naturals; `FirstExists`
finds it by the least device, then the least window. `MatchComplete` follows
from the order: a registered pair that wildcard-matches a query is never before
it (`MatchIsNotBefore`), because `NULL` is the least pointer.

*FrameCapture.* Each action is one registry action or leaves the registry
alone. Only `RENDERDOC_StartFrameCapture` needs an argument: the window it makes
active is the match of a query and so a legal argument of `SetActiveWindow`
(`ApiStartOnRegistry`).
`DriverMatchesItself` is not inductive: the lookup falls back to any device, so
it finds another driver as soon as one that has a device is not registered, or
not with a window that it has a swapchain on. `DriversInv` says that both are
registered, of every driver and at every step. The actions that capture and
present do not touch these two fields (`CaptureStepKeepsRegistered`), those that
create and destroy register and unregister in the same step
(`LifecycleKeepsRegistered`), and a pair or a device that a query names matches
only what belongs to that device (`RegisteredMatchesItself`).

Captures are followed by what a step does to them: the thread of a device starts
one, passes, drops one, writes one or lists one, of its own device only (`Move`),
and other threads at most set a title (`TitleMove`). `ThreadPlaced` says where a
thread is in `Present` and which file it writes. A title, once set, names every
capture in progress until one of them is listed with it, because a start takes it
away (`TitleCovers`). The counter is at least the number of devices that capture
or write (`CountInv`); an end by device handle that ends nothing would break it.
With one device there is one frame number at a time, so no two captures have the
same path; two devices may well pick the same.

*TargetControl.* None of the three safety properties is inductive. The invariant
`IInv` adds

- `CoreTypes`: types of the six variables the hand-over consists of;
- `ClaimantIsNew`: while the server decides, the connection has no thread yet;
- `ClaimFindsNobody`: between the join (or the lookup of an empty name) and the
  claim the name is empty, and between the claim and the spawn it is the new one;
- `HandleIsServing`: a serving thread is the one whose handle the server holds,
  so that a join waits for the right one.

Everything else is payload: the actions of the application, the UIs and the
network leave those variables alone (`OthersKeepCore`). The refinement maps
`ServerClaim` to `Claim`, `ServerSpawn` to `Start`, `ThreadClearName` to
`Finish`, and every other step to a stutter.

What a command names is found in what a UI has seen, and that in what it was sent:
reports arrive in order and without gaps (`ReportsArrive`), what was reported is a
beginning of the list, as the thread reads it (`SentIsInTheList`), and commands in
flight name what was seen (`CommandsSeen`). The list is compacted when a thread
enters its loop, before it reports anything of it. The
bounds are those of a count (`Counted`): what was asked for is a command in
flight, waits in a counter, is being made, or has been written.

*RemoteServer.* `ThreadsAreKnown` is not inductive either: that the server's
`active` is in its list needs that the connection it is about to add has no
thread (`ConnectionIsNew`), and that a thread in a session is the active one
(`SessionIsActive`). With these and the types of the core, every step is local:
only `ThreadHandshake` makes a connection active, and only if there is none,
and only `ServerReap` and `ServerStop` take that back.

Files and answers have an invariant of their own (`Traffic`). A path is taken when
a copy arrives, so there is one for each if those in flight are counted with them
(`Fits`). A file belongs to the session whose thread has its path in its list,
until it is cleaned up (`FilesOwned`). A conversation is in one of three states
while its link is up: the request is unread, it is worked on and there is nothing
but progress on the way, or the answer is (`Talk`); a link that is down stays so.

*ReplayManager.* `Control` places the three threads: the replay thread runs from
the loading of a capture to the end of its closing, and in its loop while
`m_Running`. `Talks` says who is in a conversation and holds the lock. Commands are
added, taken, executed, dropped with the rest when a capture is closed, or left
alone (`QueueMove`), and `Queued` is proved of these moves. That the commands which
are dropped release only the callers of `BlockInvoke` is enough because nobody
waits for a flag at that time: the UI waits for one command at a time, and then it
does not close (`UIWaitsOnce`). For the connections, the one of the replay thread
is `m_Remote` until it is orphaned (`RendererHasConnection`), and the UI keeps the
user from all that would get in its way (`NobodyInterferes`); the replay thread
takes no lock for most calls, so nothing else does.

*FrameRefs.* The reference of a part is a summary of what was done to it. `Means`
says of which sequences of accesses a type is a summary, without mentioning
composition: `Read` of those that read first, `CompleteWrite` of those that
overwrite everything before anything is read, and so on. `RefsMean` says that
what has been gathered is such a summary of all accesses so far, in order of
submission; it is preserved because `ComposeFrameRefs` is associative, and
because references of bindings, which have no order, count as earlier than the
commands of their submit (`DescriptorsFirst`), which can only make the summary
more careful. `ContentsFollow`, `SeenFollows` and `ReplayFollows` tie the three
runs of the frame (captured, first and second replay) to one function of the
accesses and of what memory held at the start. What is left is a fact about each
type: whatever it does not reset, nobody reads. The types need that the next access is
at most the one after the last (`WithinBounds`).

*InitialContents.* `Delete` and the loop over the referenced records are recursive
functions; what they satisfy has to be proved of them first (`DeleteIs`,
`DeleteAllIs`: a function with that property exists, from one parent and one set to
the next). A record from which one reference too many is taken (`CountedButFor`)
is counted again when `Delete` is done, here and in its lineage, and no count has
grown (`DeleteGivesBack`, by the least id for which it fails). So every step keeps
the counts (`RecordsInv`), and as `DataWritten` is empty when a file is begun, all
that is reached from a record goes into it.
For contents `InTime` has a case for each way in which a resource is on time:
skipped and untouched, postponed and unchanged and still there, fetched or
completely overwritten first, or gone and not asked for. `PrepareInitialContents`
puts everything that exists in one of them, since what exists is dirty and has a
record; each submission and each destruction moves a resource from one to another
before it changes it. That a resource was only discarded for as long as its times
say is a comparison of two ages that grow together (`SkippedSince`); it does not
matter which entries are erased. For the types, lineages are within `Resources`
(`LineageType`, by the least id that would have another), and files are followed on their
own (`FileTypes`).

*Intervals.* `IInv` has the types of the iterators, `WorkIsPending` (every point
has its expected value, or will have once the running call has composed the
rest) and `ShortButForOne` (no needless interval, but perhaps the one at the
iterator). The map is only looked at through `ValueAt`: `split` and `mergeLeft`
leave it alone (`SplitKeeps`, `MergeLeftKeeps`), so one iteration of either loop
changes one stretch of points (`OneStretch`). `MergeLoop` further needs that the
other map's iterator is at the interval that holds the current point, the loop
invariant the code states in a comment (`intervals.h:258`).

*PageMappings and SparseBindings.* A single mapping stands for the pages `getPage`
computes from it; the first three theorems say that whatever is done to it is done to
these (`PagesReplaced`, `GetPageType`). Above that:

- a box of an image covers the pages of its rows, each once (`ImageBoxIs`), and a
  range of bytes of the tails covers the rest of one tail, whole ones, and the beginning
  of another (`SomeTailsAre`, `TheTailIs`). Between them the code steps over the gap
  after a tail in the resource and in memory: the address of a page of a tail is its
  distance from the first one that was bound, because the gap is a whole number of
  pages, and this is where `IsLayout` is needed;
- the runs of a replay, up to any page, have the pages up to there (`RunsRight`,
  `BindPageIs`).

These hold for every layout, of D3D12 too. `VulkanTables` is the inductive invariant.
It has the type of a table (`IsTable`: a mapping is single, or has all of its pages and
nothing else), that it `Says` what every page is bound to, and that no page of memory is
bound twice. The last part is what `BindingsKept` needs of a buffer on
Vulkan: the replay joins a page to a run if its memory follows that of the run's *first*
page (`vk_initstate.cpp:747`), so three pages bound to 0, 1 and 1 would come back as 0,
1 and 2. The second hypothesis is about a bind of exactly all bytes of several tails, where
`setMipTailRange` moves on an offset that it has already moved (section 6).

On D3D12, `TilesAt` says where in the order of the API the tiles of each subresource
are: one after the other, those of a tail in place of the first mip in it
(`PositionsAre`, from the function that builds the order). An iteration of
`setImageWrappedRange` binds the rest of a subresource or of what is asked for
(`SetWrappedIs`), so that after any number of them the tiles up to somewhere are bound
and the loop goes on with the next (`WrappedRight`), which is `WrappedRangeBindsTiles`.
It is about layouts whose slices have tails of their own (`TailsApart`: the driver gives
images a stride, `d3d12_device_rescreate_wrap.cpp:582`) with no more pages than the
width of a page in texels (`TailsFit`): after a tail the loop takes the index in it for
a coordinate in the next slice (`sparse_page_table.cpp:553`). It leaves out a range
that goes around past the end of a resource that is all tail, which is the hazard
`unboundedBuffer`.

`UpdateTileMappings` is then followed call by call: each binds a piece, the next *k* of
the tiles to the next *k* of the pages (`IsPiece`, `PieceSet`), and a table that has the
first *N* of them bound has the first *N* + *k* after it (`PieceBinds`). `AtPage` relates
the place in the ranges, which the code keeps as a range and how much of it is used, to
*N*. A box is one piece where it fits into the range, else one for each tile
(`UpdateBoxIs`); a region without one is at most two, since each iteration uses up the
range or the region (`WrapNext`), and the second begins where the first returned, which
is right only at the beginning of a subresource (`EndsAtTile`, the hazard
`rangeEndsInside`). `RegionTilesAre` and `AllPagesAre` say which tiles and pages the API
means by regions and ranges, so that after the last region (`UpdatedTableIs`) the whole
is what `Bind` says.

*LineBreakpointsMapper.* `MapsToCopies` holds of any text, because what
`lower_bound` finds is only used if the line is in it. `CopiesAreFound` needs that
no line of a file is in two sections (`NothingTwice`): then their ends differ, so
the set keeps each of them (`SectionNumbers` relates an end to the markers around
it), and the first that ends no earlier than a line is the one that has it.

*DebugSession.* The loops are functions of the number of iterations, and those are
functions of a trace; what a loop does is found from what an iteration does, by the
least number for which it fails (`Counting`), with a measure that each iteration lowers
(`Iterating`). From the bottom up:

- `SessionRight` of a session says that its stack of calls has, of every function that
  is not over, the line it was called at (`CallsRight`, against `CallerAt`, which looks
  for it in the trace); an instruction keeps that, whether it calls, returns or stays
  (`InstructionStep`);
- `do_source_step` gets to the next instruction that `Enters` another line, and to no
  later one, or to the end (`NextLine`, `SourceSteps`). What it compares with, the
  line it left and the line of the call, stays right from iteration to iteration
  (`SourceLoops`): here the assumptions on a trace are needed, since the code tells a
  return to the middle of a line from a new one by line and column only;
- a command passes only entered lines at which its loop goes on (`PassesBy`,
  `Commanded`), and `resume` of a frame only draw calls in which there is nothing to
  stop at (`Resumed`).

`DebugInv` then is what each command keeps: the frame and its draw calls are right
(`FrameRight`); the session is `SessionRight`, of the draw call of the current action,
and has the breakpoints of the user in it, those of source files where their lines are
in the text and those of the lines (`SessionIsAt`); and the front end was sent what the
state names (`ShownIs`). The second theorem compares two states: of every instruction
between them, `Passed`, it is shown in which loop it was passed and that the loop saw no
breakpoint at it. That the breakpoints of the session are those of the user at every
time is why `HasBreakpoint`, which looks at texts, can be answered by `AtBreakpoint`,
which looks at a set (`HitsAreBreakpoints`, from `MapsToCopies` and `CopiesAreFound`).
A source breakpoint that is removed must not take along what another one has mapped to
the same line (`MappedApart`). `DebugInv` also gives the types.

*FileWriter.* The bytes on their way are a `Chain`: there are positions at which one
block ends and the next one begins, from the end of the file to what was submitted.
A chain can be cut, joined and extended by a block, so that the lists may be moved
from hand to hand as a whole, and `DataOf` of a chain is one stretch of bytes
(`DataOfChain`, by the least block for which it fails). `WriterInv` says that
the lists are such a chain, one after the other (`Stretches`), that blocks have data
on their way to the file and none on their way back (`DataIsOnTheWay`), and that there
are as many as in the beginning, with the same bases (`NoneIsLost`). Then a flush that
has counted all of them back has nothing left on the way (`AllAreBack`), which is
what `Confirm` and `Close` of `ByteSink` ask for. An error of the thread is handed
over together with the block that failed, so who has the block knows the error
(`ErrorsAreKnown`).

*RDCFile.* `Whole` says that the sections of a table follow each other from behind the
file header up to an offset, each with its header and the data of its last write. A
whole prefix survives whatever is written behind it (`SamePrefix`), grows by a section
(`SectionAppended`), and loses one when those behind it are moved over it by its size
(`SectionRemoved`); and what `Init` parses is the table of a file that is whole up to
its end (`ParsedLayout`). The parser and the two loops of `WriteSection` are recursive
functions, so it is first proved that they exist and what each of their steps computes
(`RestExists`, by the last offset without a table; `MovedUpIs`, `CellsOfIs`).
`SectionsOnDisk` speaks of files that nobody writes to, and is not inductive. The
invariant `SectionsInv` adds

- `Behind`: while a section is written to a file in which no write failed, the file is
  whole up to the header of that section, and nothing is behind it that its data will
  not overwrite or the callbacks not cut off;
- `Writing`: the section goes behind the frame capture, or is the frame capture and the
  first one, in every file; once its data is written, it is there;
- `Table`: the table in memory has the frame capture first and nothing else where that
  is, even when a write failed, so that no later section is written over it;
- `Fronts`: the frame capture that was written last, with its header, is in front.

The last three hold of files that a write failed in too, which is what keeps the frame
capture. That a file of which only the header is left does not count as one with a
frame capture needs that `Init` fails without one, which is why `Table` says what an
empty table means.

Only model-checked: all liveness (out of the prover's reach);
`BindingsKept` of the layouts of D3D12 as a whole, which besides `UpdateBindsTiles` needs
the update of all of a resource at once and `CopyTileMappings`; `ReusedPagesReplayed`
is violated; and the types of page tables (`PageTableTypeOK`). `TypeOK` of `MCSequential`
is the conjunction of the types of its parts, each of which has its theorem but for these.

## 6. Findings and disagreements

Shown by a run:

- `MCShutdownIgnored`: a request to shut the server down is a flag of the
  `ClientThread`. The server thread looks at it once a round, and reaps a thread
  whose socket is gone first; if the session ends in between, the flag is deleted
  with it and the server goes on. `renderdoc_replay.h:1944` says it blocks until
  a connection asks for a shutdown.
- `MCCopyAllImages`: `MaxInitReq` composes the references of the parts of a range
  as if they were alternatives; `Read` is above both kinds of write, so a depth and
  stencil image of which one aspect is written, in part or completely, and the other
  only read is not reset
  under `CopyAll`, against `resource_manager.h:189` and `195`.
- `MCReusedPages`: `singlePageReused` is not in the file (`DoSerialise` of
  `PageRangeMapping`), so a subresource that was bound to one page throughout is
  bound to consecutive pages by a replay. `sparse_page_table.h:66` says that the flag
  is there to tell the two apart.

### Disagreements

Read in the code while modelling, present in the models unless said otherwise,
without a run:

- Two devices that write captures of the same frame number at the same time pick
  the same file name (`core.cpp:1386`), against the comment at 1385. With the two
  devices of `MCFrameCapture` TLC finds `CaptureFileIntact` (in `CapturesAsAsked`)
  violated after twelve steps; it is therefore checked and proved with one device.
- A UI that is told Busy may get an empty name, when the client leaves between
  the decision and the second, unlocked, read of the name
  (`target_control.cpp:543`); `renderdoc_replay.h:1174` promises the name.
- `GetHomeFolder` and `ListFolder` test for the replay thread the wrong way round
  (`ReplayManager.cpp:113`, `139`), so with a capture open the UI thread talks to
  the server itself, next to the replay thread; `QRDInterface.h:1465` and `1477`
  promise a callback on the replay thread. With `WhileOpen = {"Browse"}` TLC finds
  `OneConversation` violated.
- With `WhileOpen = {"ShutdownServer"}` it finds `OpenCaptureKeepsConnection`
  (in `ConnectionsKept`) violated (`RemoteManager.cpp:602` deletes the connection
  of an open capture), and with `{"Connect"}` `OpenCaptureKeepsConnection` and `NoConnectionLeaks`: a
  connection that is made after a capture was opened replaces `m_Remote`
  (`MainWindow.cpp:2089`), against the comment at `MainWindow.cpp:2168`, "don't
  allow changing context while capture is open", and `OnCaptureClosed` lets the
  user start a second one.
- `m_Remote` is used after an unlocked check (`ReplayManager.cpp:85`, `174`,
  `208`, `386`, `407`); TLC reaches states in which it is null by then.
- A command that another thread queues while the capture is being closed stays
  in the queue and is executed on the next capture (`ReplayManager.cpp:423`).
- A query without a window that names an unregistered device falls back to the
  first device (`core.cpp:819`); `renderdoc_app.h:527` says that the specified
  device is captured.
- An end or discard with nothing to end still decrements `m_CapturesActive`
  (`core.cpp:882`, `894`), after which `IsFrameCapturing` (`renderdoc_app.h:537`)
  misses a capture. `IsFrameCapturingSeesCapture` is therefore checked with
  captures started by triggers only, in `MCFrameCapture`.
- `EndFrameCapture` returns 1 for a capture that failed (`vk_core.cpp:2255`;
  `renderdoc_app.h:542`), and `DiscardFrameCapture` returns 1 when there was
  nothing to discard (`vk_core.cpp:2729`; `renderdoc_app.h:548`).
- `m_FirstFrameCapture` survives when frame 0 is ended by the active window
  (`vk_core.cpp:2799`), so a later present of another window can end a later
  capture; the comment at 2798 speaks of the first present only.
- `ValidateCaptures` takes deleted captures out of the list (`core.cpp:1982`,
  called from `target_control.cpp:164`), so the indices of `GetCapture` move;
  `renderdoc_app.h:429` says that deleted captures remain in the list.
- Two `CopyCapture` requests for one capture share one path
  (`target_control.cpp:698`), so the second copy is saved to an empty path;
  `renderdoc_replay.h:1204` promises the path that was given.
- A capture that a UI asks to delete is marked so that "it will be deleted on
  shutdown" (`target_control.cpp:379`), but the destructor goes through the marks
  before it stops the threads (`core.cpp:548`): a command handled in between marks a
  capture whose file stays. TLC reaches such states in `MCTargetControlCommands`.
- A request of `ShowReplayUI` may go to a later client, or stay for one that
  does not know it (`target_control.cpp:316`; `renderdoc_app.h:475`).
- `RemoveHooks` waits for the server thread, which does not wait for the client
  thread (`target_control.cpp:552`); the comment at `core.cpp:595` wants
  everything to be gone before the hooks are removed.
- `InitResolver` of a capture whose callstacks belong to another operating system
  never reports that it is done (`linux_callstack.cpp:287`,
  `win32_callstack.cpp:1115`), so the thread of the session stays in its ticker
  (`remote_server.cpp:631`); with the scenario
  `{"Open", "InitResolver", "foreignCallstacks"}` TLC finds `CallerAnswered`
  violated (`renderdoc_replay.h:1319`).
- `TakeOwnershipCapture` has the server delete the file at the end of the session
  (`remote_server.cpp:922`); `renderdoc_replay.h:1442` says that it is kept "until
  the server closes" (`OwnedCapturesAreKept`, which no run checks).
- A second `OpenLog` after one that failed meets the assertion at
  `remote_server.cpp:512`, because the first leaves its file behind; the callers
  in the UI do not do that, and neither does the model.
- When `accept` fails the server returns at once (`remote_server.cpp:1072`),
  while threads still use an `ActiveClient` on its stack. The model lets the
  threads go on, and says nothing of what they read.
- A handshake that is going on when the server stops may make itself the active
  connection after `active` was cleared (`remote_server.cpp:1132`); nobody tells
  it to stop, and the server waits for it. `ServerReturns` excludes it.
- A connection that is accepted in the round in which the server stops is neither
  served nor closed (`remote_server.cpp:1047`).
- A UI is told Busy between the end of a session and the round that reaps it.
- Contents that were postponed are fetched after the transition lock has been
  released (`vk_core.cpp:2613`), when other threads may have changed or destroyed
  the resource; `how_works.rst:21` says they are saved while the frame is captured.
  With `Hazards = {"useWhileWriting"}` TLC finds `StartContentsKept` (in `ContentsKept`) violated.
- `ReleaseCurrentResource` erases the write times found by `lower_bound` without
  comparing the id (`resource_manager.h:1966`), so the times of the next resource
  may go; it then counts as never written, which only costs a copy.
- Memory that is freed before the image bound to it is destroyed loses the
  contents of a postponed image: with `Hazards = {"memoryFirst"}` TLC finds
  `StartContentsKept` violated (Vulkan allows it).

Sparse bindings, each with the name in `TableHazards` that admits it:

- `CopyTileMappings` without a box passes a number of bytes where
  `copyImageWrappedRange` counts tiles (`d3d12_command_queue_wrap.cpp:427`,
  `sparse_page_table.h:257`), so it copies on past the region (`wrappedCopy`).
- `setImageWrappedRange` takes texels but returns tiles, and does not carry from *x*
  to *y* (`sparse_page_table.cpp:538`); `UpdateTileMappings` passes the result back when a range ends inside
  of a region (`d3d12_command_queue_wrap.cpp:291`) (`rangeEndsInside`).
- Page by page copies between tails write every page to the first one and forget
  where the tail is (`sparse_page_table.cpp:612`, `725`); a single page that is
  reused is moved on (`tailCopy`).
- A box of a buffer whose last page is not whole has more pages than
  `getMipTailSliceSize()` divided by the size of one, so that a copy of all of it is
  taken for one between subresources (`sparse_page_table.cpp:590`) (`cutTail`).
- Binding all of several tails adds `i * byteStride` to an offset it has already
  moved (`sparse_page_table.cpp:183`): the second tail gets the memory of the first
  (`allTails`).
- A copy of a single mapping to a smaller subresource ignores where in the source
  it begins and how wide that is (`sparse_page_table.cpp:638`, `755`)
  (`smallerCopy`).
- Regions with a box that share a range each start at its beginning
  (`d3d12_command_queue_wrap.cpp:175`) (`boxSharesRange`).
- "All of it" is `~0U` tiles times the size of one, which is no longer `~0U`
  (`d3d12_command_queue_wrap.cpp:111`), so a resource that is all tail is bound again
  and again with later offsets (`unboundedBuffer`). For the same reason all of a resource
  with more tiles than 2^32 bytes have is not bound to its end
  (`d3d12_command_queue_wrap.cpp:292`) (`largeRegion`).
- The replay of a Vulkan buffer joins a page to a run if it follows the run's first
  page (`vk_initstate.cpp:745`). Pages that are bound twice, which aliasing allows, may
  be joined wrongly (`aliased`).
- Offsets of 4 GB and more in a heap are computed in 32 bits (`farOffset`).
- A box of a buffer indexes the subresources a buffer does not have; the model
  has no such call.

Streams and capture files:

- The frame capture of a file that has other sections cannot be written again, though
  the comment at `rdcfile.cpp:984` says how: `Create` makes the temporary file the one
  of the object and reopens it for reading (`rdcfile.cpp:834`), so that the header
  cannot be written. The file itself stays as it was. Modelled
  (`RewriteFrameCapture`).
- "Only one section can be written at once" (`rdcfile.cpp:966`) is checked after the
  file under the section that is being written was closed and opened again (941). The
  model asks for one at a time.
- Until a section is complete its header has the length 0, so an end of the process in
  between leaves data where the next header is expected: the file is refused as
  corrupted (`rdcfile.cpp:648`) with the frame capture that is still in it. So is one
  in which sections could not be moved, which nobody notices (1162). `TableOnDisk`
  is therefore about files in which no write failed, `FrameCaptureStays` about all.
- `~FileWriter` ignores the result of its flush (`streamio.cpp:725`): an error of the
  last blocks is reported to nobody. After an error the stream writer goes on counting
  what it is given (`streamio.h:434`), and that count becomes the length of the section.
- A last section that is cut off is noticed only if it is shorter than the reader's
  window (`streamio.h:218`, against the check at `rdcfile.cpp:640`).
- An empty section in text at the end of a file is refused (`rdcfile.cpp:555`); the
  model appends none.

Debug sessions, kept out of the model by `DebugAssumption` or its abstractions:

- An instruction without a line that is reached inside of a called function, or when
  one returns, ends `do_source_step` with false
  (`RenderDocDrawCallDebugSession.cpp:125`), so that `resume` takes the draw call for
  finished and passes its other breakpoints. With a trace of that kind TLC finds
  `CommandsStopInTime` violated.
- A trace in which one instruction enters several functions at once, as those of DXBC
  with inlined functions of a PDB may, puts one entry on the stack of calls for all of
  them, so that where the inner ones return to is not known.
- `RenderDocDebugSession::remove_source_breakpoint` also removes the breakpoint that
  was set on the same line of the text (`RenderDocDebugSession.cpp:98`).
- In a text that includes a file twice one occurrence gets the breakpoints
  (`RenderDocLineBreakpointsMapper.cpp:55`).
- `start_debug_pixel` looks whether there is a trace and a shader,
  `start_debug_vertex` does not (`RenderDocReplay.cpp:155`, `174`).
- `get_next_action` goes from the last action of a frame to its parent and on to
  the action after that; for a marker this is the first action inside of it
  (`RenderDocActionHelpers.cpp:98`, `replay_driver.cpp:184`), so a frame that ends
  within a marker is searched again and again.

## 7. What is not modelled

- Data races inside one access: the unlocked decrement of `m_Cap`, the copy of
  the progress callback, the raw pointer `MatchFrameCapturer` returns after its
  lock is gone. Each is a hazard with a note. `MatchFrameCapturer` is one step, though
  it takes the lock for the closest pair and again for its capturer (`core.cpp:808`,
  810): a pair that goes in between yields an error message and NULL. The application is assumed not to
  destroy what it is capturing with from another thread.
- What the target control thread reads after a copy failed: the socket is deleted,
  and the reader over it still ends its chunk and is asked for errors
  (`target_control.cpp:405`, 415) before the loop ends. `HandleCopy` goes from the
  deleted socket to the end of the loop.
- The windows of `StreamReader`, sockets under a stream, compressors and the
  conversion of capture files (`capture_file.cpp`): the reader has one thread and no
  failure but the end of its bytes; where what it does at the end matters, `RDCFile`
  has it (`lenient`).
- `LiveCapture`: a second save overwrites the first in the one slot
  (`LiveCapture.cpp:907`), deletes are dropped between the swap of their list and the
  check of the disconnect flag (1321), and the trigger and the queue of captures share
  a counter (1295, 1303).
- The content of captures, thumbnails, comments, overlay text, options.
- The drivers other than Vulkan: their frame boundaries and their use of the
  resource manager have the same shape.
- The replay side of the resource manager (live and original ids, replacements),
  and wrapping.
- What chunks and serialised structures hold. Most of the source by size is of
  this kind: a function per API call that writes its parameters and reads them
  back (`vk_serialise.cpp`, the wrappers of every driver), headers of the APIs, and
  tables. They are straight-line code with no state of their own beyond the
  records modelled in `InitialContents`; a model of them would repeat them.
- The replay controller, outputs and the replay proxy: single-threaded by
  contract, and their state is that of a graphics API.
- The interpreters of shader debugging and the processing of shaders: programs whose reference is
  the semantics of the shader languages.
- The components that `PROJECT.json` marks `not_modelled` with their reasons:
  presentation, vendored or generated code, wrappers of the operating system, and
  those that the plan below names.

## 8. Plan

Done, in order of how much depends on them and how little tests can say: the
registry, frame capture and target control, which every capture goes through;
the replay manager and the remote server, which every remote replay goes through;
frame references and initial contents, which decide whether a replay shows what
happened; intervals, which carry the references of memory; page tables, which
decide what a replay binds; debug sessions, whose stepping has more cases than
anybody tries by hand; the writer and the sections of capture files, where all of
the above ends up.

Left, in this order:

1. The wrapped pool (`common/wrapped_pool.h`) against a set of slots.
2. The rest of `serialise/`: the window of a `StreamReader` over a file or socket,
   the compressors between a section and its file.
3. `LiveCapture`: the slots between its two threads, composed with the UI side
   of `TargetControl`.
4. `ReplayManager`: the tags of `AsyncInvoke`, with a nested `SetEventID`.
5. The composition of `RemoteServer` with `ReplayManager`, which meet in the
   conversations that may break.
6. More proofs: `BindingsKept` for D3D12, from `UpdateBindsTiles` and the lemmas about
   boxes, tails and runs, which hold for its layouts; the types of page tables.

A run answers one question of one component or, in `MCSequential`, those of
components that never meet; runs that ask related questions are merged as
components are added, so that the whole set stays quick to repeat.
