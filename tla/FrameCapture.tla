---------------------------- MODULE FrameCapture ----------------------------
(***************************************************************************)
(* Capturing frames: how triggers, queued frames, markers and the in-app   *)
(* API start and end captures, through class RenderDoc (core/core.cpp),    *)
(* the in-app API (replay/app_api.cpp) and the Vulkan driver               *)
(* (driver/vulkan) as the frame capturer.                                  *)
(*                                                                         *)
(* Each device is one Vulkan instance with one application thread that     *)
(* renders with it, makes its presents and its API calls.  Triggers,       *)
(* titles and changes of the active window come at any time from other     *)
(* threads: the target control connection and the rest of the application. *)
(* A present is several steps, and writing a capture file takes time:      *)
(* CreateRDC picks the file name at the beginning of it and                *)
(* FinishCaptureWriting lists the capture at the end.                      *)
(***************************************************************************)
EXTENDS CapturerRegistry, Integers, Sequences, SequencesExt

CONSTANTS
    MaxFrame,     (* frame counters saturate here                          *)
    MaxRequests,  (* bound on the captures asked for                       *)
    MultiCounts,  (* the counts TriggerCapture is called with              *)
    MaxStrayEnds, (* bound on the calls that end a capture nobody started  *)
    QueuedFrames, (* the frame numbers that may be queued                  *)
    ApiQueries,   (* the (device, window) queries the application passes;  *)
                  (* it uses the markers on a device whose own are here    *)
    Teardown      (* whether windows and devices are destroyed again       *)

ASSUME FrameCaptureAssumption ==
    /\ MaxFrame \in Nat \ {0}
    /\ MaxRequests \in Nat
    /\ MaxStrayEnds \in Nat
    /\ MultiCounts \subseteq Nat \ {0}
    /\ QueuedFrames \subseteq 0 .. MaxFrame - 1
    /\ ApiQueries \subseteq Queries
    /\ Teardown \in BOOLEAN

VARIABLES
    (* class RenderDoc *)
    m_Cap,                  (* frames still to capture                     *)
    m_QueuedFrameCaptures,  (* frame numbers to capture                    *)
    m_CapturesActive,       (* counter behind IsFrameCapturing             *)
    m_CaptureTitle,         (* see Title below                             *)
    m_CurrentLogFile,       (* the file being written, for all devices     *)
    m_Captures,             (* the captures written, in order              *)
    disk,                   (* the capture files: path -> capture          *)
    (* class WrappedVulkan, one per device *)
    driver,
    (* the application thread of each device *)
    thread,
    (* history *)
    requested,              (* captures asked for so far                   *)
    started                 (* captures started so far                     *)

coreVars == <<m_Cap, m_QueuedFrameCaptures, m_CapturesActive, m_CaptureTitle,
              m_CurrentLogFile, m_Captures, disk>>
vars == <<registryVars, coreVars, driver, thread, requested, started>>

(* ~0U, the frame number of a capture the application controls *)
NoFrameNumber == MaxFrame + 1

(* A title is the set of captures in progress when SetCaptureTitle was     *)
(* called, with 0 to tell it from no title.                                *)
NoTitle == {}

(* The swapchains and the surfaces of a device stand for the windows they  *)
(* are on; a window has at most one of each.                               *)
NewDriver == [life |-> "none",          \* none, instance, device, destroyed
              m_State |-> "Background", \* or Active
              m_AppControlledCapture |-> FALSE,
              m_FirstFrameCapture |-> FALSE,
              m_CaptureFailure |-> FALSE,
              m_FrameCounter |-> 0,
              frameNumber |-> NoFrameNumber, \* m_CapturedFrames.back()
              capture |-> 0,            \* which of the started captures
              m_SwapLookup |-> {},
              swapchains |-> {}]

(* pc is where the application thread is: in the application, at the       *)
(* window at the head of todo in Present, at its trigger check, or writing *)
(* a capture file, to go on with "then" when it is written.                *)
NoFile == [capturer |-> NULL, created |-> FALSE]
IdleThread == [pc |-> "app", todo |-> <<>>, then |-> "app", file |-> NoFile]


Capturing(d) == driver[d].m_State = "Active"
CapturingDevices == {d \in Devices : Capturing(d)}
InApp(d) == thread[d].pc = "app"
Rendering(d) == InApp(d) /\ driver[d].life = "device"

-----------------------------------------------------------------------------
(* Requests *)

TriggerCapture(n) ==
    /\ requested + n <= MaxRequests
    /\ m_Cap' = n
    /\ requested' = requested + n
    /\ UNCHANGED <<registryVars, m_QueuedFrameCaptures, m_CapturesActive,
                   m_CaptureTitle, m_CurrentLogFile, m_Captures, disk, driver, thread, started>>

QueueCapture(frame) ==
    /\ requested < MaxRequests
    /\ m_QueuedFrameCaptures' = m_QueuedFrameCaptures \cup {frame}
    /\ requested' = requested + 1
    /\ UNCHANGED <<registryVars, m_Cap, m_CapturesActive, m_CaptureTitle,
                   m_CurrentLogFile, m_Captures, disk, driver, thread, started>>

(* CycleActiveWindow also forgets the frames still to capture. *)
CycleActiveWindow ==
    /\ CycleWindow
    /\ m_Cap' = 0
    /\ UNCHANGED <<m_QueuedFrameCaptures, m_CapturesActive, m_CaptureTitle,
                   m_CurrentLogFile, m_Captures, disk, driver, thread, requested, started>>

InProgress ==
    {driver[d].capture : d \in CapturingDevices} \cup
    {driver[thread[d].file.capturer].capture : d \in {e \in Devices : thread[e].pc = "write"}}

SetCaptureTitle ==
    /\ m_CaptureTitle' = {0} \cup InProgress
    /\ UNCHANGED <<registryVars, m_Cap, m_QueuedFrameCaptures, m_CapturesActive,
                   m_CurrentLogFile, m_Captures, disk, driver, thread, requested, started>>

ApiSetActiveWindow(devWnd) ==
    /\ SetActiveWindow(devWnd)
    /\ UNCHANGED <<coreVars, driver, thread, requested, started>>

-----------------------------------------------------------------------------
(* Starting a capture *)

(* ShouldTriggerCapture: the answer, and what is left of the requests.     *)
ShouldTriggerCapture(frame) == m_Cap > 0 \/ frame \in m_QueuedFrameCaptures

(* Mutant: the count is not used up. *)
ConsumeTriggerNotCounted(frame) ==
    /\ m_Cap' = m_Cap
    /\ m_QueuedFrameCaptures' = {f \in m_QueuedFrameCaptures : f > frame}

(* Mutant: counts down without looking. *)
ConsumeTriggerUnderflow(frame) ==
    /\ m_Cap' = m_Cap - 1
    /\ m_QueuedFrameCaptures' = {f \in m_QueuedFrameCaptures : f > frame}

ConsumeTrigger(frame) ==
    /\ m_Cap' = IF m_Cap > 0 THEN m_Cap - 1 ELSE m_Cap
    /\ m_QueuedFrameCaptures' = {f \in m_QueuedFrameCaptures : f > frame}

(* WrappedVulkan::StartFrameCapture.  Preparing the initial contents of    *)
(* the resources may fail, which only sets m_CaptureFailure.               *)
DriverStarted(r, fails) ==
    IF r.m_State # "Background" THEN r
    ELSE [r EXCEPT !.m_State = "Active",
                   !.m_CaptureFailure = fails,
                   !.m_AppControlledCapture = TRUE,
                   !.frameNumber = NoFrameNumber,
                   !.capture = started + 1]

(* RenderDoc::StartFrameCapture, which ends with these drivers.            *)
StartedBy(devWnd, fails) ==
    LET c == MatchFrameCapturer(devWnd) IN
    IF c = NULL THEN driver ELSE [driver EXCEPT ![c] = DriverStarted(@, fails)]

(* Mutant: does not clear the title. *)
StartFrameCaptureKeepsTitle(devWnd) ==
    LET c == MatchFrameCapturer(devWnd) IN
    /\ UNCHANGED m_CaptureTitle
    /\ m_CapturesActive' = IF c = NULL THEN m_CapturesActive ELSE m_CapturesActive + 1
    /\ started' = IF c # NULL /\ c \notin CapturingDevices THEN started + 1 ELSE started

(* Mutant: a flag in place of the counter. *)
StartFrameCaptureFlag(devWnd) ==
    LET c == MatchFrameCapturer(devWnd) IN
    /\ m_CaptureTitle' = NoTitle
    /\ m_CapturesActive' = IF c = NULL THEN m_CapturesActive ELSE 1
    /\ started' = IF c # NULL /\ c \notin CapturingDevices THEN started + 1 ELSE started

StartFrameCapture(devWnd) ==
    LET c == MatchFrameCapturer(devWnd) IN
    /\ m_CaptureTitle' = NoTitle
    /\ m_CapturesActive' = IF c = NULL THEN m_CapturesActive ELSE m_CapturesActive + 1
    /\ started' = IF c # NULL /\ c \notin CapturingDevices THEN started + 1 ELSE started

(* What the driver adds to a capture it starts itself. *)
AtFrame(drivers, d, frame) ==
    [drivers EXCEPT ![d].m_AppControlledCapture = FALSE,
                    ![d].frameNumber = frame]

-----------------------------------------------------------------------------
(* Ending a capture *)

(* Mutant: does not look for a listed capture of the same frame. *)
CapturePathFirst(frame) == <<frame, 1>>

(* The name CreateRDC gives the file of a frame: the frame number and the  *)
(* first alternative no listed capture has.                                *)
CapturePath(frame) ==
    LET Listed(alt) == \E i \in DOMAIN m_Captures : m_Captures[i].path = <<frame, alt>> IN
    <<frame, CHOOSE alt \in 1 .. Len(m_Captures) + 1 :
                ~Listed(alt) /\ \A a \in 1 .. alt - 1 : Listed(a)>>

(* Where a thread goes on after EndFrameCapture returned. *)
Continue(t, then) ==
    LET rest == Tail(t.todo) IN
    CASE then = "app" -> IdleThread
      [] then = "trigger" -> [IdleThread EXCEPT !.pc = "trigger", !.todo = t.todo]
      [] then \in {"next", "first"} ->
            [IdleThread EXCEPT !.pc = IF rest = <<>> THEN "app" ELSE "present",
                               !.todo = rest]

(* After the end of frame 0 Present resets m_FirstFrameCapture. *)
AfterEnd(drivers, d, then) ==
    IF then = "first" THEN [drivers EXCEPT ![d].m_FirstFrameCapture = FALSE] ELSE drivers

Discarded(r) == [r EXCEPT !.m_State = "Background", !.m_CaptureFailure = FALSE]

(* An End or Discard on the thread of d returns: to the application, or to *)
(* Present.                                                                *)
Return(d, then, drivers) ==
    /\ driver' = AfterEnd(drivers, d, then)
    /\ thread' = [thread EXCEPT ![d] = Continue(@, then)]

(* RenderDoc::EndFrameCapture and WrappedVulkan::EndFrameCapture called on *)
(* the thread of d.  The call returns at once when there is nothing to     *)
(* write: no capturer, no capture, one that failed or an unknown window.   *)
EndFrameCapture(d, devWnd, then) ==
    LET c == MatchFrameCapturer(devWnd)
        knownWindow == devWnd.windowHandle \in driver[c].m_SwapLookup \cup {NULL}
        path == CapturePath(driver[c].frameNumber)
        AtOnce(drivers) ==
            /\ Return(d, then, drivers)
            /\ m_CapturesActive' = IF c = NULL THEN m_CapturesActive
                                   ELSE m_CapturesActive - 1
            /\ UNCHANGED <<m_CurrentLogFile, disk>>
    IN
    \/ /\ c \notin CapturingDevices
       /\ AtOnce(driver)
    \/ /\ c \in CapturingDevices /\ driver[c].m_CaptureFailure
       /\ AtOnce([driver EXCEPT ![c] = Discarded(@)])
    \/ /\ c \in CapturingDevices /\ ~driver[c].m_CaptureFailure
       /\ ~knownWindow
       /\ AtOnce(driver)
    \/ /\ c \in CapturingDevices /\ ~driver[c].m_CaptureFailure
       /\ knownWindow
       /\ driver' = [driver EXCEPT ![c].m_State = "Background"]
       /\ m_CurrentLogFile' = path
       /\ \E created \in BOOLEAN :
             /\ thread' = [thread EXCEPT
                    ![d].pc = "write", ![d].then = then,
                    ![d].file = [capturer |-> c, created |-> created]]
             /\ disk' = IF ~created THEN disk
                        ELSE [p \in {path} \cup DOMAIN disk |->
                                 IF p = path THEN driver[c].capture ELSE disk[p]]
       /\ UNCHANGED <<m_CapturesActive>>

(* The file is complete: FinishCaptureWriting lists it, under whatever     *)
(* m_CurrentLogFile is by now, and EndFrameCapture returns.                *)
FinishCaptureWriting(d) ==
    LET file == thread[d].file
        r == driver[file.capturer]
    IN
    /\ thread[d].pc = "write"
    /\ IF file.created
       THEN /\ m_Captures' = Append(m_Captures,
                    [path |-> m_CurrentLogFile, title |-> m_CaptureTitle,
                     frameNumber |-> r.frameNumber, capture |-> r.capture])
            /\ m_CaptureTitle' = NoTitle
       ELSE UNCHANGED <<m_Captures, m_CaptureTitle>>
    /\ m_CapturesActive' = m_CapturesActive - 1
    /\ Return(d, thread[d].then, driver)
    /\ UNCHANGED <<registryVars, m_Cap, m_QueuedFrameCaptures, m_CurrentLogFile, disk,
                   requested, started>>

DiscardFrameCapture(d, devWnd) ==
    LET c == MatchFrameCapturer(devWnd) IN
    /\ \/ /\ c \notin CapturingDevices
          /\ Return(d, "app", driver)
       \/ /\ c \in CapturingDevices
          /\ Return(d, "app", [driver EXCEPT ![c] = Discarded(@)])
    /\ m_CapturesActive' = IF c = NULL THEN m_CapturesActive ELSE m_CapturesActive - 1

-----------------------------------------------------------------------------
(* The in-app API, and the markers that do the same *)

(* The application starts, ends and discards captures of a device on the   *)
(* thread that renders with it, once it has a device.  d is that thread.   *)
OnItsThread(d, devWnd) ==
    /\ Rendering(d)
    /\ MatchFrameCapturer(devWnd) \in {NULL, d}

(* A stray end or discard takes m_CapturesActive below zero. *)
MayEnd == m_CapturesActive > -MaxStrayEnds

ApiStartFrameCapture(d, devWnd) ==
    LET closest == IF NULL \in {devWnd.device, devWnd.windowHandle}
                      /\ MatchClosestWindow(devWnd) # NoWindow
                   THEN MatchClosestWindow(devWnd) ELSE devWnd
    IN
    /\ OnItsThread(d, devWnd)
    /\ requested < MaxRequests
    /\ requested' = requested + 1
    /\ StartFrameCapture(devWnd)
    /\ \E fails \in BOOLEAN : driver' = StartedBy(devWnd, fails)
    /\ IF NULL \notin {closest.device, closest.windowHandle}
       THEN SetActiveWindow(closest)
       ELSE UNCHANGED registryVars
    /\ UNCHANGED <<m_Cap, m_QueuedFrameCaptures, m_CurrentLogFile, m_Captures, disk,
                   thread>>

ApiEndFrameCapture(d, devWnd) ==
    /\ OnItsThread(d, devWnd)
    /\ MayEnd
    /\ EndFrameCapture(d, devWnd, "app")
    /\ UNCHANGED <<registryVars, m_Cap, m_QueuedFrameCaptures, m_CaptureTitle, m_Captures,
                   requested, started>>

ApiDiscardFrameCapture(d, devWnd) ==
    /\ OnItsThread(d, devWnd)
    /\ MayEnd
    /\ DiscardFrameCapture(d, devWnd)
    /\ UNCHANGED <<registryVars, m_Cap, m_QueuedFrameCaptures, m_CaptureTitle,
                   m_CurrentLogFile, m_Captures, disk, requested, started>>

(* capture-marker,begin_capture and capture-marker,end_capture *)
BeginMarker(d) ==
    /\ Rendering(d)
    /\ requested < MaxRequests
    /\ requested' = requested + 1
    /\ StartFrameCapture(DeviceOwnedWindow(d, NULL))
    /\ \E fails \in BOOLEAN : driver' = StartedBy(DeviceOwnedWindow(d, NULL), fails)
    /\ UNCHANGED <<registryVars, m_Cap, m_QueuedFrameCaptures, m_CurrentLogFile, m_Captures,
                   disk, thread>>

EndMarker(d) == ApiEndFrameCapture(d, DeviceOwnedWindow(d, NULL))

-----------------------------------------------------------------------------
(* Presenting *)

(* AdvanceFrame: the keys are polled in Tick, between captures only.       *)
AdvanceFrame(d) ==
    /\ driver' = [driver EXCEPT ![d].m_FrameCounter =
                    IF @ < MaxFrame THEN @ + 1 ELSE @]
    /\ \/ UNCHANGED <<registryVars, m_Cap, requested>>
       \/ /\ ~Capturing(d)   \* the focus key
          /\ CycleWindow
          /\ m_Cap' = 0
          /\ UNCHANGED requested
       \/ /\ ~Capturing(d)   \* the capture key
          /\ requested < MaxRequests
          /\ requested' = requested + 1
          /\ m_Cap' = 1
          /\ UNCHANGED registryVars

(* vkQueuePresentKHR with one swapchain or several, and a submit with the  *)
(* VR frame marker, which presents no window.                              *)
QueuePresent(d, windows) ==
    /\ Rendering(d)
    /\ AdvanceFrame(d)
    /\ thread' = [thread EXCEPT ![d].pc = "present", ![d].todo = windows]
    /\ UNCHANGED <<m_QueuedFrameCaptures, m_CapturesActive, m_CaptureTitle,
                   m_CurrentLogFile, m_Captures, disk, started>>

(* Mutant: a failed capture is left running. *)
EndsSuccessfulCapture(d) ==
    Capturing(d) /\ ~driver[d].m_AppControlledCapture /\ ~driver[d].m_CaptureFailure

(* Present ends the captures it or FirstFrame started. *)
EndsCapture(d) == Capturing(d) /\ ~driver[d].m_AppControlledCapture

(* Present, up to the trigger check. *)
Present(d) ==
    LET devWnd == DeviceOwnedWindow(d, Head(thread[d].todo))
        activeWindow == devWnd.windowHandle = NULL \/ IsActiveWindow(devWnd)
        GoOn(then) ==
            /\ thread' = [thread EXCEPT ![d] = Continue(@, then)]
            /\ UNCHANGED <<m_CapturesActive, m_CurrentLogFile, disk, driver>>
    IN
    /\ thread[d].pc = "present"
    /\ \/ /\ ~activeWindow
          /\ driver[d].m_FirstFrameCapture /\ Capturing(d)
          /\ EndFrameCapture(d, DeviceOwnedWindow(d, NULL), "first")
       \/ /\ ~activeWindow
          /\ ~(driver[d].m_FirstFrameCapture /\ Capturing(d))
          /\ GoOn("next")
       \/ /\ activeWindow
          /\ EndsCapture(d)
          /\ EndFrameCapture(d, devWnd, "trigger")
       \/ /\ activeWindow
          /\ ~EndsCapture(d)
          /\ GoOn("trigger")
    /\ UNCHANGED <<registryVars, m_Cap, m_QueuedFrameCaptures, m_CaptureTitle, m_Captures,
                   requested, started>>

(* The trigger check at the end of Present. *)
PresentTrigger(d) ==
    LET devWnd == DeviceOwnedWindow(d, Head(thread[d].todo))
        frame == driver[d].m_FrameCounter
    IN
    /\ thread[d].pc = "trigger"
    /\ ConsumeTrigger(frame)
    /\ IF ShouldTriggerCapture(frame) /\ ~Capturing(d)
       THEN /\ StartFrameCapture(devWnd)
            /\ \E fails \in BOOLEAN :
                  driver' = AtFrame(StartedBy(devWnd, fails), d, frame)
       ELSE UNCHANGED <<m_CaptureTitle, m_CapturesActive, driver, started>>
    /\ thread' = [thread EXCEPT ![d] = Continue(@, "next")]
    /\ UNCHANGED <<registryVars, m_CurrentLogFile, m_Captures, disk, requested>>

-----------------------------------------------------------------------------
(* The life of a device and its windows *)

CreateInstance(d) ==
    /\ driver[d].life = "none"
    /\ AddDeviceFrameCapturer(d)
    /\ driver' = [driver EXCEPT ![d].life = "instance"]
    /\ UNCHANGED <<coreVars, thread, requested, started>>

(* vkCreateDevice ends with FirstFrame, which captures from the very       *)
(* beginning if a trigger is already waiting or frame 0 is queued.         *)
CreateDevice(d) ==
    LET devWnd == DeviceOwnedWindow(d, NULL)
        created == [driver EXCEPT ![d].life = "device"]
    IN
    /\ driver[d].life = "instance"
    /\ ConsumeTrigger(0)
    /\ IF ShouldTriggerCapture(0)
       THEN /\ StartFrameCapture(devWnd)
            /\ \E fails \in BOOLEAN :
                  driver' = [AtFrame(StartedBy(devWnd, fails), d, 0) EXCEPT
                                ![d].m_FirstFrameCapture = TRUE,
                                ![d].life = "device"]
       ELSE /\ driver' = created
            /\ UNCHANGED <<m_CaptureTitle, m_CapturesActive, started>>
    /\ UNCHANGED <<registryVars, m_CurrentLogFile, m_Captures, disk, thread, requested>>

CreateSurface(d, wnd) ==
    /\ InApp(d)
    /\ driver[d].life \in {"instance", "device"}
    /\ DeviceOwnedWindow(d, wnd) \notin Registered
    /\ AddFrameCapturer(DeviceOwnedWindow(d, wnd))
    /\ UNCHANGED <<coreVars, driver, thread, requested, started>>

CreateSwapchain(d, wnd) ==
    /\ Rendering(d)
    /\ DeviceOwnedWindow(d, wnd) \in Registered
    /\ wnd \notin driver[d].swapchains
    /\ driver' = [driver EXCEPT ![d].swapchains = @ \cup {wnd},
                                ![d].m_SwapLookup = @ \cup {wnd}]
    /\ UNCHANGED <<registryVars, coreVars, thread, requested, started>>

(* Destroying a swapchain leaves it in m_SwapLookup. *)
DestroySwapchain(d, wnd) ==
    /\ Rendering(d)
    /\ wnd \in driver[d].swapchains
    /\ driver' = [driver EXCEPT ![d].swapchains = @ \ {wnd}]
    /\ UNCHANGED <<registryVars, coreVars, thread, requested, started>>

(* Mutant: the pair goes, and stays the active one. *)
DestroySurfaceKeepsActive(d, wnd) ==
    /\ InApp(d)
    /\ DeviceOwnedWindow(d, wnd) \in Registered
    /\ wnd \notin driver[d].swapchains
    /\ m_WindowFrameCapturers' =
          [k \in Registered \ {DeviceOwnedWindow(d, wnd)} |-> m_WindowFrameCapturers[k]]
    /\ UNCHANGED <<m_DeviceFrameCapturers, m_ActiveWindow, coreVars, driver, thread,
                   requested, started>>

DestroySurface(d, wnd) ==
    /\ InApp(d)
    /\ DeviceOwnedWindow(d, wnd) \in Registered
    /\ wnd \notin driver[d].swapchains
    /\ RemoveFrameCapturer(DeviceOwnedWindow(d, wnd))
    /\ UNCHANGED <<coreVars, driver, thread, requested, started>>

(* The device goes first, then the instance: a capture it was in the       *)
(* middle of just ends, without a word to class RenderDoc.                 *)
DestroyInstance(d) ==
    /\ Rendering(d)
    /\ driver[d].swapchains = {}
    /\ \A wnd \in Windows : DeviceOwnedWindow(d, wnd) \notin Registered
    /\ RemoveDeviceFrameCapturer(d)
    /\ driver' = [driver EXCEPT ![d] = [NewDriver EXCEPT !.life = "destroyed"]]
    /\ UNCHANGED <<coreVars, thread, requested, started>>

-----------------------------------------------------------------------------

Init ==
    /\ RegistryInit
    /\ m_Cap = 0
    /\ m_QueuedFrameCaptures = {}
    /\ m_CapturesActive = 0
    /\ m_CaptureTitle = NoTitle
    /\ m_CurrentLogFile = <<0, 0>>
    /\ m_Captures = <<>>
    /\ disk = [path \in {} |-> 0]
    /\ driver = [d \in Devices |-> NewDriver]
    /\ thread = [d \in Devices |-> IdleThread]
    /\ requested = 0
    /\ started = 0

(* What one vkQueuePresentKHR presents: any selection of the device's      *)
(* swapchains in any order; or the VR marker, which names no window.       *)
PresentLists(d) ==
    {<<NULL>>} \cup (SetToAllKPermutations(driver[d].swapchains) \ {<<>>})

Lifecycle(d) ==
    \/ CreateInstance(d) \/ CreateDevice(d)
    \/ \E wnd \in Windows : CreateSurface(d, wnd) \/ CreateSwapchain(d, wnd)
    \/ /\ Teardown
       /\ \/ DestroyInstance(d)
          \/ \E wnd \in Windows : DestroySwapchain(d, wnd) \/ DestroySurface(d, wnd)

DriverStep(d) == Present(d) \/ PresentTrigger(d) \/ FinishCaptureWriting(d)

Next ==
    \/ \E n \in MultiCounts : TriggerCapture(n)
    \/ \E frame \in QueuedFrames : QueueCapture(frame)
    \/ CycleActiveWindow
    \/ SetCaptureTitle
    \/ \E devWnd \in ApiQueries :
          \/ ApiSetActiveWindow(devWnd)
          \/ \E d \in Devices :
                \/ ApiStartFrameCapture(d, devWnd)
                \/ ApiEndFrameCapture(d, devWnd)
                \/ ApiDiscardFrameCapture(d, devWnd)
    \/ \E d \in Devices :
          \/ /\ DeviceOwnedWindow(d, NULL) \in ApiQueries
             /\ BeginMarker(d) \/ EndMarker(d)
          \/ \E windows \in PresentLists(d) : QueuePresent(d, windows)
          \/ DriverStep(d)
          \/ Lifecycle(d)

Spec == Init /\ [][Next]_vars

(* An application in its render loop presents each of its windows again    *)
(* and again, and the driver's part of a present finishes.                 *)
Fairness ==
    /\ \A d \in Devices : WF_vars(DriverStep(d))
    /\ \A d \in Devices, wnd \in Windows :
          SF_vars(wnd \in driver[d].swapchains /\ QueuePresent(d, <<wnd>>))

FairSpec == Spec /\ Fairness

-----------------------------------------------------------------------------
(* Properties *)

FrameCaptureTypeOK ==
    /\ m_Cap \in 0 .. MaxRequests
    /\ m_QueuedFrameCaptures \subseteq QueuedFrames
    /\ m_CapturesActive \in Int
    /\ m_CaptureTitle \subseteq 0 .. MaxRequests
    /\ \A i \in DOMAIN m_Captures :
          m_Captures[i].capture \in 1 .. started
    /\ \A d \in Devices :
          /\ driver[d].m_FrameCounter \in 0 .. MaxFrame
          /\ driver[d].m_State \in {"Background", "Active"}
          /\ driver[d].swapchains \subseteq driver[d].m_SwapLookup
          /\ thread[d].pc \in {"app", "present", "trigger", "write"}
          /\ thread[d].pc \in {"present", "trigger"} => thread[d].todo # <<>>

(* The driver asks class RenderDoc to start and end its own captures, and  *)
(* the wildcard lookup gives it back to itself, whatever other devices and *)
(* windows are registered.  Present relies on it: right after StartFrame-  *)
(* Capture it writes to m_CapturedFrames.back().                           *)
DriverMatchesItself ==
    \A d \in Devices :
        driver[d].life = "device" =>
            \A wnd \in {NULL} \cup driver[d].swapchains :
                MatchFrameCapturer(DeviceOwnedWindow(d, wnd)) = d

(* A title ends up only on a capture that was in progress when it was set, *)
(* never on a later one, although RenderDoc keeps a single title for all   *)
(* devices and a discarded or failed capture leaves it behind.             *)
TitleBelongsToCapture ==
    \A i \in DOMAIN m_Captures :
        m_Captures[i].title # NoTitle => m_Captures[i].capture \in m_Captures[i].title

(* Every capture was asked for: no trigger, queued frame, marker or API    *)
(* call is used twice, whichever windows present and become active.        *)
NoUnaskedCapture == started <= requested

(* The counter behind IsFrameCapturing misses no capture that runs or is   *)
(* being written, with devices that come and go, as long as triggers start *)
(* the captures: an end the application calls for no capture counts too.   *)
IsFrameCapturingSeesCapture ==
    Cardinality({d \in Devices : Capturing(d) \/ thread[d].pc = "write"}) <= m_CapturesActive

(* A capture file stays as it was written: while it exists it holds the    *)
(* capture it is listed for.                                               *)
CaptureFileIntact ==
    \A i \in DOMAIN m_Captures :
        disk[m_Captures[i].path] = m_Captures[i].capture

(* A capture is made when it was asked for, and kept.                      *)
CapturesAsAsked == NoUnaskedCapture /\ CaptureFileIntact

(* A capture that a trigger started ends, as long as the active window is  *)
(* one that the application goes on presenting, also when it failed.       *)
TriggeredCaptureEnds ==
    \A d \in Devices, wnd \in Windows :
        <>[](/\ m_ActiveWindow = DeviceOwnedWindow(d, wnd)
             /\ wnd \in driver[d].swapchains)
        => []<>~(Capturing(d) /\ ~driver[d].m_AppControlledCapture)

=============================================================================
