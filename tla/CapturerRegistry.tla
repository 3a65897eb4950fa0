-------------------------- MODULE CapturerRegistry --------------------------
(***************************************************************************)
(* The frame capturer registry of class RenderDoc (core/core.cpp): which   *)
(* (device, window) pairs and which bare devices can be captured, and      *)
(* which pair is the active window, the one that reacts to keys, triggers  *)
(* and presents.                                                           *)
(*                                                                         *)
(* Every operation runs under m_CapturerListLock and is one action.        *)
(*                                                                         *)
(* Pointers are natural numbers and NULL is 0: the code orders pairs by    *)
(* comparing the pointers (DeviceOwnedWindow::operator<), and the lookup   *)
(* relies on NULL being the smallest.  As in the Vulkan driver, a capturer *)
(* is the wrapped API instance itself, so it is identified by its device   *)
(* pointer.                                                                *)
(***************************************************************************)
EXTENDS Naturals, FiniteSets

CONSTANTS
    Devices,    (* device pointers                                         *)
    Windows,    (* window handles                                          *)
    MaxRefs     (* bound on the reference count of one pair                *)

NULL == 0

ASSUME PointersNotNull ==
    /\ Devices \subseteq Nat \ {NULL}
    /\ Windows \subseteq Nat \ {NULL}
    /\ MaxRefs \in Nat \ {0}

VARIABLES
    m_WindowFrameCapturers,   (* pair -> RefCount, for registered pairs    *)
    m_DeviceFrameCapturers,   (* the registered devices                    *)
    m_ActiveWindow            (* a pair, NoWindow when there is none       *)

registryVars == <<m_WindowFrameCapturers, m_DeviceFrameCapturers, m_ActiveWindow>>

(* struct DeviceOwnedWindow *)
DeviceOwnedWindow(dev, wnd) == [device |-> dev, windowHandle |-> wnd]
NoWindow == DeviceOwnedWindow(NULL, NULL)

(* The pairs a driver may register, and the ones an application may pass.  *)
Pairs   == [device : Devices, windowHandle : Windows]
Queries == [device : Devices \cup {NULL}, windowHandle : Windows \cup {NULL}]

(* DeviceOwnedWindow::operator< *)
Less(a, b) ==
    \/ a.device < b.device
    \/ a.device = b.device /\ a.windowHandle < b.windowHandle

(* Mutant: a missing window accepts any device. *)
wildcardMatchAnyDevice(a, b) ==
    \/ a.device = NULL \/ b.device = NULL \/ a.windowHandle = NULL \/ b.windowHandle = NULL
    \/ a = b

(* DeviceOwnedWindow::wildcardMatch: a NULL field matches anything.        *)
wildcardMatch(a, b) ==
    /\ a.device = NULL \/ b.device = NULL \/ a.device = b.device
    /\ a.windowHandle = NULL \/ b.windowHandle = NULL
         \/ a.windowHandle = b.windowHandle

Registered == DOMAIN m_WindowFrameCapturers

IsFirst(k, S) == k \in S /\ \A j \in S : j = k \/ Less(k, j)
First(S) == CHOOSE k \in S : IsFirst(k, S)

-----------------------------------------------------------------------------
(* Lookups *)

(* Mutant: upper_bound in place of lower_bound. *)
ClosestFromUpperBound(devWnd) ==
    {k \in Registered : Less(devWnd, k) /\ wildcardMatch(k, devWnd)}

(* The pairs MatchClosestWindow can stop at: it starts at lower_bound and   *)
(* walks forward to the first wildcard match.                              *)
ClosestCandidates(devWnd) ==
    {k \in Registered : ~Less(k, devWnd) /\ wildcardMatch(k, devWnd)}

MatchClosestWindow(devWnd) ==
    IF ClosestCandidates(devWnd) = {} THEN NoWindow
    ELSE First(ClosestCandidates(devWnd))

(* MatchFrameCapturer: the closest registered pair if there is one, or     *)
(* for a query without a window the device itself, or failing that the     *)
(* first registered device.  NULL when nothing can be captured.  The code   *)
(* takes the lock for each of the two lookups; here they are one step.      *)
MatchFrameCapturer(devWnd) ==
    LET closest == MatchClosestWindow(devWnd) IN
    CASE closest # NoWindow -> closest.device
      [] closest = NoWindow /\ devWnd.windowHandle # NULL -> NULL
      [] closest = NoWindow /\ devWnd.windowHandle = NULL ->
           IF devWnd.device \in m_DeviceFrameCapturers THEN devWnd.device
           ELSE IF m_DeviceFrameCapturers = {} THEN NULL
           ELSE CHOOSE d \in m_DeviceFrameCapturers :
                    \A e \in m_DeviceFrameCapturers : d <= e

IsActiveWindow(devWnd) == devWnd = m_ActiveWindow

-----------------------------------------------------------------------------
(* Operations *)

AddDeviceFrameCapturer(dev) ==
    /\ m_DeviceFrameCapturers' = m_DeviceFrameCapturers \cup {dev}
    /\ UNCHANGED <<m_WindowFrameCapturers, m_ActiveWindow>>

RemoveDeviceFrameCapturer(dev) ==
    /\ m_DeviceFrameCapturers' = m_DeviceFrameCapturers \ {dev}
    /\ UNCHANGED <<m_WindowFrameCapturers, m_ActiveWindow>>

AddFrameCapturer(devWnd) ==
    /\ m_WindowFrameCapturers' =
          [k \in Registered \cup {devWnd} |->
              IF k \notin Registered THEN 1
              ELSE IF k = devWnd THEN m_WindowFrameCapturers[k] + 1
              ELSE m_WindowFrameCapturers[k]]
    \* the first one becomes the default
    /\ m_ActiveWindow' = IF m_ActiveWindow = NoWindow THEN devWnd ELSE m_ActiveWindow
    /\ UNCHANGED m_DeviceFrameCapturers

(* Mutant: does not move on when the first pair is the one removed. *)
ActiveAfterRemovingIsFirst(devWnd) ==
    IF Registered = {devWnd} THEN NoWindow ELSE First(Registered)

(* The pair that takes over when the active pair loses its last reference. *)
ActiveAfterRemoving(devWnd) ==
    IF Registered = {devWnd} THEN NoWindow ELSE First(Registered \ {devWnd})

RemoveFrameCapturer(devWnd) ==
    /\ UNCHANGED m_DeviceFrameCapturers
    /\ \/ /\ devWnd \notin Registered
          /\ UNCHANGED <<m_WindowFrameCapturers, m_ActiveWindow>>
       \/ /\ devWnd \in Registered
          /\ m_WindowFrameCapturers[devWnd] > 1
          /\ m_WindowFrameCapturers' = [m_WindowFrameCapturers EXCEPT ![devWnd] = @ - 1]
          /\ UNCHANGED m_ActiveWindow
       \/ /\ devWnd \in Registered
          /\ m_WindowFrameCapturers[devWnd] <= 1
          /\ m_WindowFrameCapturers' =
                [k \in Registered \ {devWnd} |-> m_WindowFrameCapturers[k]]
          /\ m_ActiveWindow' = IF m_ActiveWindow = devWnd
                               THEN ActiveAfterRemoving(devWnd)
                               ELSE m_ActiveWindow

(* SetActiveWindow: ignored, with an error, for an unregistered pair.      *)
SetActiveWindow(devWnd) ==
    /\ m_ActiveWindow' = IF devWnd \in Registered THEN devWnd ELSE m_ActiveWindow
    /\ UNCHANGED <<m_WindowFrameCapturers, m_DeviceFrameCapturers>>

(* Where CycleActiveWindow goes from wnd: the next pair in map order, or   *)
(* the first one after the last.  A window the map does not hold stays.    *)
NextWindow(wnd) ==
    LET later == {k \in Registered : Less(wnd, k)} IN
    IF wnd \notin Registered THEN wnd
    ELSE IF later # {} THEN First(later)
    ELSE First(Registered)

CycleWindow ==
    /\ m_ActiveWindow' = NextWindow(m_ActiveWindow)
    /\ UNCHANGED <<m_WindowFrameCapturers, m_DeviceFrameCapturers>>

-----------------------------------------------------------------------------
(* The registry under any sequence of calls: drivers register and          *)
(* unregister devices and windows in any order, the application, the keys  *)
(* and the target control connection move the active window.               *)

RegistryInit ==
    /\ m_WindowFrameCapturers = [k \in {} |-> 1]
    /\ m_DeviceFrameCapturers = {}
    /\ m_ActiveWindow = NoWindow

(* MaxRefs bounds the swapchains on one window.                            *)
BelowMaxRefs(devWnd) ==
    devWnd \in Registered => m_WindowFrameCapturers[devWnd] < MaxRefs

RegistryNext ==
    \/ \E dev \in Devices :
          AddDeviceFrameCapturer(dev) \/ RemoveDeviceFrameCapturer(dev)
    \/ \E devWnd \in Pairs :
          \/ BelowMaxRefs(devWnd) /\ AddFrameCapturer(devWnd)
          \/ RemoveFrameCapturer(devWnd)
    \/ \E devWnd \in Queries : SetActiveWindow(devWnd)
    \/ CycleWindow

RegistrySpec == RegistryInit /\ [][RegistryNext]_registryVars

-----------------------------------------------------------------------------
(* Properties *)

RegistryTypeOK ==
    /\ Registered \subseteq Pairs
    /\ m_WindowFrameCapturers \in [Registered -> 1 .. MaxRefs]
    /\ m_DeviceFrameCapturers \subseteq Devices
    /\ m_ActiveWindow \in Pairs \cup {NoWindow}

(* Whatever windows come and go, there is an active window as long as      *)
(* there is any window, and it is a registered one: RemoveFrameCapturer    *)
(* never leaves m_ActiveWindow on the pair it erases, and never resets it  *)
(* while another pair remains.  A stale m_ActiveWindow would make every    *)
(* trigger and every key wait for a window that never presents.            *)
ActiveWindowRegistered ==
    IF Registered = {} THEN m_ActiveWindow = NoWindow
                       ELSE m_ActiveWindow \in Registered

(* Starting at lower_bound instead of at the beginning of the map loses    *)
(* nothing: if any registered pair wildcard-matches the query, then        *)
(* MatchClosestWindow finds one that does.  The comment in the code argues *)
(* this from the order of the pairs and NULL being the smallest pointer.   *)
MatchComplete ==
    \A q \in Queries :
        (\E k \in Registered : wildcardMatch(k, q)) =>
            /\ MatchClosestWindow(q) \in Registered
            /\ wildcardMatch(MatchClosestWindow(q), q)

=============================================================================
