------------------------- MODULE FrameCaptureProofs -------------------------
(***************************************************************************)
(* The frame capturer registry, for any sets of device pointers and window *)
(* handles, and capturing frames on top of it.                             *)
(*                                                                         *)
(* The lookups and the choice of a new active window all take the first    *)
(* pair of some set of pairs in the order of DeviceOwnedWindow::operator<. *)
(* FirstExists shows once that such a pair exists; the invariance proofs   *)
(* and the completeness of MatchClosestWindow rest on it.                  *)
(*                                                                         *)
(* Capturing frames uses the registry only through its operations:         *)
(* FrameCapture implements RegistrySpec.  What is proved of the registry   *)
(* therefore holds throughout a capture session, for any number of         *)
(* devices, windows and requests.                                          *)
(*                                                                         *)
(* The drivers, the titles, the counter behind IsFrameCapturing and the    *)
(* capture files follow: every step is a move of one device (Move), and    *)
(* each invariant is proved of the moves.                                  *)
(***************************************************************************)
EXTENDS FrameCapture, FiniteSetTheorems, WellFoundedInduction, TLAPS

-----------------------------------------------------------------------------
(* The registry.                                                           *)

(* A nonempty set of pointers has a smallest one. *)
LEMMA LeastNat ==
    ASSUME NEW T, T \subseteq Nat, T # {}
    PROVE  \E x \in T : \A y \in T : x <= y
<1> DEFINE R == OpToRel(<, Nat)
<1>1. \A x, y \in Nat : <<x, y>> \in R <=> x < y
  BY DEF OpToRel
<1>2. \E x \in T : \A y \in T : ~(<<y, x>> \in R)
  <2>1. IsWellFoundedOn(R, Nat)
    BY NatLessThanWellFounded
  <2> HIDE DEF R
  <2> QED  BY <2>1, WFMin
<1>3. PICK x \in T : \A y \in T : ~(<<y, x>> \in R)
  BY <1>2
<1>4. \A y \in T : ~(y < x) /\ x \in Nat /\ y \in Nat
  BY <1>1, <1>3
<1>5. \A y \in T : x <= y
  BY <1>4
<1> QED  BY <1>3, <1>5

(* A nonempty set of pairs has a first one in the order of the map: the    *)
(* smallest window among those of the smallest device.                     *)
LEMMA FirstExists ==
    ASSUME NEW S, S \subseteq Pairs, S # {}
    PROVE  First(S) \in S /\ IsFirst(First(S), S)
<1> DEFINE D == {k.device : k \in S}
<1>1. D \subseteq Nat /\ D # {}
  BY PointersNotNull DEF Pairs
<1>2. PICK d \in D : \A e \in D : d <= e
  BY <1>1, LeastNat
<1> DEFINE W == {k.windowHandle : k \in {j \in S : j.device = d}}
<1>3. W \subseteq Nat /\ W # {}
  BY PointersNotNull, ZenonT(60) DEF Pairs
<1>4. PICK w \in W : \A v \in W : w <= v
  BY <1>3, LeastNat
<1>5. PICK k \in S : k.device = d /\ k.windowHandle = w
  OBVIOUS
<1>6. ASSUME NEW j \in S
      PROVE  j = k \/ Less(k, j)
  <2>1. /\ j \in [device : Devices, windowHandle : Windows]
        /\ k \in [device : Devices, windowHandle : Windows]
    BY DEF Pairs
  <2>2. d <= j.device /\ d \in Nat /\ j.device \in Nat
    BY <1>1, <1>2
  <2>3. CASE j.device = d
    <3>1. w <= j.windowHandle /\ w \in Nat /\ j.windowHandle \in Nat
      BY <1>3, <1>4, <2>3
    <3>2. CASE j.windowHandle = w
      BY <1>5, <2>1, <2>3, <3>2
    <3>3. CASE j.windowHandle # w
      BY <1>5, <2>3, <3>1, <3>3 DEF Less
    <3> QED  BY <3>2, <3>3
  <2>4. CASE j.device # d
    BY <1>5, <2>2, <2>4 DEF Less
  <2> QED  BY <2>3, <2>4
<1>7. IsFirst(k, S)
  BY <1>6 DEF IsFirst
<1> QED  BY <1>7 DEF First

(* The active window after the active pair was erased is a remaining one.  *)
LEMMA ActiveAfterRemovingRemains ==
    ASSUME RegistryTypeOK, NEW devWnd \in Registered, Registered # {devWnd}
    PROVE  ActiveAfterRemoving(devWnd) \in Registered \ {devWnd}
<1>1. /\ Registered \ {devWnd} \subseteq Pairs
      /\ Registered \ {devWnd} # {}
  BY DEF RegistryTypeOK
<1> QED  BY <1>1, FirstExists DEF ActiveAfterRemoving

(* Cycling goes from a registered window to a registered window. *)
LEMMA NextWindowRegistered ==
    ASSUME RegistryTypeOK, NEW wnd \in Registered
    PROVE  NextWindow(wnd) \in Registered
<1> DEFINE later == {k \in Registered : Less(wnd, k)}
<1>1. later \subseteq Pairs /\ Registered \subseteq Pairs /\ Registered # {}
  BY DEF RegistryTypeOK
<1>2. First(Registered) \in Registered
  BY <1>1, FirstExists
<1>3. later # {} => First(later) \in Registered
  BY <1>1, FirstExists
<1> QED  BY <1>2, <1>3 DEF NextWindow

-----------------------------------------------------------------------------
(* The inductive invariant of the registry. *)
RegistryInv == RegistryTypeOK /\ ActiveWindowRegistered

LEMMA NoWindowIsNoPair == NoWindow \notin Pairs
BY PointersNotNull DEF NoWindow, DeviceOwnedWindow, Pairs, NULL

LEMMA RegistryInitInv == RegistryInit => RegistryInv
BY DEF RegistryInit, RegistryInv, RegistryTypeOK, ActiveWindowRegistered, Registered

LEMMA AddFrameCapturerInv ==
    ASSUME RegistryInv, NEW devWnd \in Pairs, BelowMaxRefs(devWnd),
           AddFrameCapturer(devWnd)
    PROVE  RegistryInv'
<1> USE DEF RegistryInv
<1>1. Registered' = Registered \cup {devWnd}
  BY DEF AddFrameCapturer, Registered
<1>2. m_WindowFrameCapturers' \in [Registered' -> 1 .. MaxRefs]
  BY <1>1, PointersNotNull DEF AddFrameCapturer, BelowMaxRefs, RegistryTypeOK
<1>3. RegistryTypeOK'
  BY <1>1, <1>2 DEF AddFrameCapturer, RegistryTypeOK
<1>4. ActiveWindowRegistered'
  BY <1>1, NoWindowIsNoPair DEF AddFrameCapturer, ActiveWindowRegistered, RegistryTypeOK
<1> QED  BY <1>3, <1>4

LEMMA RemoveFrameCapturerInv ==
    ASSUME RegistryInv, NEW devWnd \in Pairs, RemoveFrameCapturer(devWnd)
    PROVE  RegistryInv'
<1> USE DEF RegistryInv
<1>1. CASE devWnd \notin Registered
  BY <1>1 DEF RemoveFrameCapturer, RegistryTypeOK, ActiveWindowRegistered, Registered
<1>2. CASE devWnd \in Registered /\ m_WindowFrameCapturers[devWnd] > 1
  <2>1. m_WindowFrameCapturers' = [m_WindowFrameCapturers EXCEPT ![devWnd] = @ - 1]
    BY <1>2 DEF RemoveFrameCapturer, RegistryTypeOK
  <2>2. Registered' = Registered
    BY <2>1 DEF Registered
  <2>3. m_WindowFrameCapturers' \in [Registered' -> 1 .. MaxRefs]
    BY <1>2, <2>1, <2>2, PointersNotNull DEF RegistryTypeOK
  <2>4. UNCHANGED <<m_ActiveWindow, m_DeviceFrameCapturers>>
    BY <1>2 DEF RemoveFrameCapturer, RegistryTypeOK
  <2> QED  BY <2>2, <2>3, <2>4 DEF RegistryTypeOK, ActiveWindowRegistered
<1>3. CASE devWnd \in Registered /\ ~(m_WindowFrameCapturers[devWnd] > 1)
  <2>1. /\ m_WindowFrameCapturers' =
              [k \in Registered \ {devWnd} |-> m_WindowFrameCapturers[k]]
        /\ m_ActiveWindow' = IF m_ActiveWindow = devWnd
                             THEN ActiveAfterRemoving(devWnd)
                             ELSE m_ActiveWindow
        /\ UNCHANGED m_DeviceFrameCapturers
    BY <1>3 DEF RemoveFrameCapturer, RegistryTypeOK
  <2>2. Registered' = Registered \ {devWnd}
    BY <2>1 DEF Registered
  <2>3. m_WindowFrameCapturers' \in [Registered' -> 1 .. MaxRefs]
    BY <2>1, <2>2 DEF RegistryTypeOK
  <2>4. ActiveWindowRegistered' /\ m_ActiveWindow' \in Pairs \cup {NoWindow}
    <3>1. CASE Registered = {devWnd}
      BY <2>1, <2>2, <3>1 DEF ActiveWindowRegistered, ActiveAfterRemoving
    <3>2. CASE Registered # {devWnd}
      <4>1. ActiveAfterRemoving(devWnd) \in Registered \ {devWnd}
        BY <1>3, <3>2, ActiveAfterRemovingRemains
      <4> QED  BY <1>3, <2>1, <2>2, <4>1 DEF ActiveWindowRegistered, RegistryTypeOK
    <3> QED  BY <3>1, <3>2
  <2> QED  BY <2>1, <2>2, <2>3, <2>4 DEF RegistryTypeOK
<1> QED  BY <1>1, <1>2, <1>3

LEMMA RegistryStepInv == RegistryInv /\ [RegistryNext]_registryVars => RegistryInv'
<1> SUFFICES ASSUME RegistryInv, [RegistryNext]_registryVars
             PROVE  RegistryInv'
  OBVIOUS
<1> USE DEF RegistryInv
<1>1. ASSUME NEW dev \in Devices,
             AddDeviceFrameCapturer(dev) \/ RemoveDeviceFrameCapturer(dev)
      PROVE  RegistryInv'
  BY <1>1 DEF AddDeviceFrameCapturer, RemoveDeviceFrameCapturer, RegistryTypeOK,
              ActiveWindowRegistered, Registered
<1>2. ASSUME NEW devWnd \in Pairs, BelowMaxRefs(devWnd), AddFrameCapturer(devWnd)
      PROVE  RegistryInv'
  BY <1>2, AddFrameCapturerInv
<1>3. ASSUME NEW devWnd \in Pairs, RemoveFrameCapturer(devWnd)
      PROVE  RegistryInv'
  BY <1>3, RemoveFrameCapturerInv
<1>4. ASSUME NEW devWnd \in Queries, SetActiveWindow(devWnd)
      PROVE  RegistryInv'
  BY <1>4 DEF SetActiveWindow, RegistryTypeOK, ActiveWindowRegistered, Registered
<1>5. CASE CycleWindow
  <2>1. CASE m_ActiveWindow \in Registered
    BY <1>5, <2>1, NextWindowRegistered
       DEF CycleWindow, RegistryTypeOK, ActiveWindowRegistered, Registered
  <2>2. CASE m_ActiveWindow \notin Registered
    BY <1>5, <2>2
       DEF CycleWindow, NextWindow, RegistryTypeOK, ActiveWindowRegistered, Registered
  <2> QED  BY <2>1, <2>2
<1>6. CASE UNCHANGED registryVars
  BY <1>6 DEF registryVars, RegistryTypeOK, ActiveWindowRegistered, Registered
<1> QED  BY <1>1, <1>2, <1>3, <1>4, <1>5, <1>6 DEF RegistryNext

-----------------------------------------------------------------------------
(* The registry keeps its types: reference counts stay positive and only   *)
(* pairs of known devices and windows are registered, through any sequence *)
(* of registrations, removals and moves of the active window.              *)
THEOREM RegistryTypeCorrect == RegistrySpec => []RegistryTypeOK
<1>1. RegistryInv => RegistryTypeOK
  BY DEF RegistryInv
<1> QED  BY <1>1, RegistryInitInv, RegistryStepInv, PTL DEF RegistrySpec

(* The active window is a registered one whenever there is any: neither    *)
(* RemoveFrameCapturer nor CycleActiveWindow nor SetActiveWindow leaves    *)
(* m_ActiveWindow on a pair the map does not hold.                         *)
THEOREM ActiveWindowAlwaysRegistered == RegistrySpec => []ActiveWindowRegistered
<1>1. RegistryInv => ActiveWindowRegistered
  BY DEF RegistryInv
<1> QED  BY <1>1, RegistryInitInv, RegistryStepInv, PTL DEF RegistrySpec

-----------------------------------------------------------------------------
(* A registered pair that matches a query is never before the query in the *)
(* order of the map, so lower_bound does not skip it: a NULL field of the  *)
(* query is smaller than every pointer, and the other field is equal.      *)
LEMMA MatchIsNotBefore ==
    ASSUME NEW k \in Pairs, NEW q \in Queries, wildcardMatch(k, q)
    PROVE  ~Less(k, q)
<1>1. k.device \in Nat \ {0} /\ k.windowHandle \in Nat \ {0}
  BY PointersNotNull DEF Pairs, NULL
<1>2. /\ q.device = 0 \/ q.device \in Devices
      /\ q.windowHandle = 0 \/ q.windowHandle \in Windows
  BY DEF Queries, NULL
<1>3. q.device \in Nat /\ q.windowHandle \in Nat
  <2>1. 0 \in Nat /\ Devices \subseteq Nat /\ Windows \subseteq Nat
    BY PointersNotNull
  <2> QED  BY <1>2, <2>1, Zenon
<1> QED  BY <1>1, <1>3 DEF wildcardMatch, Less, NULL

(* MatchClosestWindow, which walks forward from lower_bound, finds a match *)
(* for every query that any registered pair matches.                       *)
THEOREM MatchClosestWindowComplete == RegistrySpec => []MatchComplete
<1>1. RegistryTypeOK => MatchComplete
  <2> SUFFICES ASSUME RegistryTypeOK, NEW q \in Queries,
                      NEW k \in Registered, wildcardMatch(k, q)
               PROVE  /\ MatchClosestWindow(q) \in Registered
                      /\ wildcardMatch(MatchClosestWindow(q), q)
    BY DEF MatchComplete
  <2> DEFINE C == ClosestCandidates(q)
  <2>1. C \subseteq Pairs
    BY DEF ClosestCandidates, RegistryTypeOK
  <2>2. k \in C
    BY MatchIsNotBefore DEF ClosestCandidates, RegistryTypeOK
  <2>3. First(C) \in C
    BY <2>1, <2>2, FirstExists
  <2> QED  BY <2>2, <2>3 DEF MatchClosestWindow, ClosestCandidates
<1> QED  BY <1>1, RegistryTypeCorrect, PTL

-----------------------------------------------------------------------------
(* Frame capture implements the registry.                                  *)

(* A wildcard query of the in-app API stands for a registered pair if      *)
(* MatchClosestWindow answers it.                                          *)
LEMMA MatchClosestWindowRegistered ==
    ASSUME RegistryTypeOK, NEW q, MatchClosestWindow(q) # NoWindow
    PROVE  MatchClosestWindow(q) \in Registered
<1> DEFINE C == ClosestCandidates(q)
<1>1. C # {} /\ MatchClosestWindow(q) = First(C)
  BY DEF MatchClosestWindow
<1>2. C \subseteq Registered /\ C \subseteq Pairs
  BY DEF ClosestCandidates, RegistryTypeOK
<1> HIDE DEF C
<1>3. First(C) \in C
  BY <1>1, <1>2, FirstExists
<1> QED  BY <1>1, <1>2, <1>3

LEMMA PairsAreQueries == Pairs \subseteq Queries
BY DEF Pairs, Queries

(* Starting a capture through the in-app API at most makes a known pair    *)
(* the active window.                                                      *)
LEMMA ApiStartOnRegistry ==
    ASSUME RegistryTypeOK, NEW d, NEW devWnd \in ApiQueries,
           ApiStartFrameCapture(d, devWnd)
    PROVE  UNCHANGED registryVars \/ \E q \in Queries : SetActiveWindow(q)
<1> DEFINE closest == IF NULL \in {devWnd.device, devWnd.windowHandle}
                         /\ MatchClosestWindow(devWnd) # NoWindow
                      THEN MatchClosestWindow(devWnd) ELSE devWnd
<1>1. closest \in Queries
  <2>1. devWnd \in Queries
    BY FrameCaptureAssumption
  <2>2. CASE MatchClosestWindow(devWnd) # NoWindow
    <3>1. MatchClosestWindow(devWnd) \in Queries
      BY <2>2, MatchClosestWindowRegistered, PairsAreQueries DEF RegistryTypeOK
    <3> QED  BY <2>1, <3>1
  <2>3. CASE MatchClosestWindow(devWnd) = NoWindow
    BY <2>1, <2>3
  <2> QED  BY <2>2, <2>3
<1>2. UNCHANGED registryVars \/ SetActiveWindow(closest)
  BY DEF ApiStartFrameCapture
<1> QED  BY <1>1, <1>2

(* What the steps of a device do to the registry. *)
LEMMA DeviceStepOnRegistry ==
    ASSUME RegistryTypeOK, NEW d \in Devices,
           \/ BeginMarker(d) \/ EndMarker(d)
           \/ \E windows \in PresentLists(d) : QueuePresent(d, windows)
           \/ DriverStep(d)
           \/ Lifecycle(d)
    PROVE  [RegistryNext]_registryVars
<1>1. CASE BeginMarker(d) \/ EndMarker(d)
  BY <1>1 DEF BeginMarker, EndMarker, ApiEndFrameCapture
<1>2. ASSUME NEW windows \in PresentLists(d), QueuePresent(d, windows)
      PROVE  [RegistryNext]_registryVars
  <2>1. UNCHANGED registryVars \/ CycleWindow
    BY <1>2 DEF QueuePresent, AdvanceFrame
  <2> QED  BY <2>1 DEF RegistryNext
<1>3. CASE DriverStep(d)
  BY <1>3 DEF DriverStep, Present, PresentTrigger, FinishCaptureWriting
<1>4. CASE Lifecycle(d)
  <2>1. CASE CreateDevice(d)
    BY <2>1 DEF CreateDevice
  <2>2. CASE CreateInstance(d) \/ DestroyInstance(d)
    BY <2>2 DEF CreateInstance, DestroyInstance, RegistryNext
  <2>3. ASSUME NEW wnd \in Windows,
               \/ CreateSurface(d, wnd) \/ CreateSwapchain(d, wnd)
               \/ DestroySwapchain(d, wnd) \/ DestroySurface(d, wnd)
        PROVE  [RegistryNext]_registryVars
    <3>1. DeviceOwnedWindow(d, wnd) \in Pairs
      BY DEF DeviceOwnedWindow, Pairs
    <3>2. CASE CreateSurface(d, wnd)
      <4>1. BelowMaxRefs(DeviceOwnedWindow(d, wnd)) /\ AddFrameCapturer(DeviceOwnedWindow(d, wnd))
        BY <3>2 DEF CreateSurface, BelowMaxRefs
      <4> QED  BY <3>1, <4>1 DEF RegistryNext
    <3>3. CASE DestroySurface(d, wnd)
      BY <3>1, <3>3 DEF DestroySurface, RegistryNext
    <3>4. CASE CreateSwapchain(d, wnd) \/ DestroySwapchain(d, wnd)
      BY <3>4 DEF CreateSwapchain, DestroySwapchain
    <3> QED  BY <2>3, <3>2, <3>3, <3>4
  <2> QED  BY <1>4, <2>1, <2>2, <2>3 DEF Lifecycle
<1> QED  BY <1>1, <1>2, <1>3, <1>4

(* Every step maps to a step of the registry, or leaves it alone. *)
LEMMA StepOnRegistry ==
    RegistryTypeOK /\ [Next]_vars => [RegistryNext]_registryVars
<1> SUFFICES ASSUME RegistryTypeOK, [Next]_vars
             PROVE  [RegistryNext]_registryVars
  OBVIOUS
<1>1. CASE UNCHANGED vars
  BY <1>1 DEF vars
<1>2. CASE \/ \E n \in MultiCounts : TriggerCapture(n)
           \/ \E frame \in QueuedFrames : QueueCapture(frame)
           \/ SetCaptureTitle
  BY <1>2 DEF TriggerCapture, QueueCapture, SetCaptureTitle
<1>3. CASE CycleActiveWindow
  BY <1>3 DEF CycleActiveWindow, RegistryNext
<1>4. ASSUME NEW devWnd \in ApiQueries, ApiSetActiveWindow(devWnd)
      PROVE  [RegistryNext]_registryVars
  BY <1>4, FrameCaptureAssumption DEF ApiSetActiveWindow, RegistryNext
<1>5. ASSUME NEW devWnd \in ApiQueries, NEW d \in Devices,
             ApiStartFrameCapture(d, devWnd)
      PROVE  [RegistryNext]_registryVars
  BY <1>5, ApiStartOnRegistry DEF RegistryNext
<1>6. ASSUME NEW devWnd \in ApiQueries, NEW d \in Devices,
             ApiEndFrameCapture(d, devWnd) \/ ApiDiscardFrameCapture(d, devWnd)
      PROVE  [RegistryNext]_registryVars
  BY <1>6 DEF ApiEndFrameCapture, ApiDiscardFrameCapture
<1>7. ASSUME NEW d \in Devices,
             \/ BeginMarker(d) \/ EndMarker(d)
             \/ \E windows \in PresentLists(d) : QueuePresent(d, windows)
             \/ DriverStep(d)
             \/ Lifecycle(d)
      PROVE  [RegistryNext]_registryVars
  BY <1>7, DeviceStepOnRegistry
<1> QED  BY <1>1, <1>2, <1>3, <1>4, <1>5, <1>6, <1>7 DEF Next

LEMMA SpecRegistryInv == Spec => []RegistryInv
<1>1. Init => RegistryInv
  BY RegistryInitInv DEF Init
<1>2. RegistryInv /\ [Next]_vars => RegistryInv'
  BY StepOnRegistry, RegistryStepInv DEF RegistryInv
<1> QED  BY <1>1, <1>2, PTL DEF Spec

-----------------------------------------------------------------------------
(* Capturing frames implements the registry: triggers, presents, the       *)
(* in-app API and the life of devices and windows change which windows are *)
(* capturable and active only by the operations of RegistrySpec.           *)
THEOREM FrameCaptureImplementsRegistry == Spec => RegistrySpec
<1>1. Init => RegistryInit
  BY DEF Init
<1>2. RegistryInv => RegistryTypeOK
  BY DEF RegistryInv
<1> QED  BY <1>1, <1>2, SpecRegistryInv, StepOnRegistry, PTL DEF Spec, RegistrySpec

(* Whatever captures are going on, a wildcard lookup never misses a match. *)
THEOREM FrameCaptureMatchComplete == Spec => []MatchComplete
BY FrameCaptureImplementsRegistry, MatchClosestWindowComplete, PTL

(* Whatever captures are going on, the active window is a registered one.  *)
THEOREM FrameCaptureActiveWindow == Spec => []ActiveWindowRegistered
BY FrameCaptureImplementsRegistry, ActiveWindowAlwaysRegistered, PTL

-----------------------------------------------------------------------------
(* Drivers and the registry: whoever has a device is registered, itself    *)
(* and with each window it has a swapchain on.                             *)

(* The fields of a driver record that these proofs speak of; the others    *)
(* may hold anything.                                                      *)
LifeFields == {"life", "swapchains"}

DriversTyped ==
    /\ DOMAIN driver = Devices
    /\ \A d \in Devices : /\ LifeFields \subseteq DOMAIN driver[d]
                          /\ driver[d].swapchains \subseteq Windows

DriversRegistered ==
    \A d \in Devices :
        /\ driver[d].life \in {"instance", "device"} => d \in m_DeviceFrameCapturers
        /\ \A wnd \in driver[d].swapchains : DeviceOwnedWindow(d, wnd) \in Registered

DriversInv == RegistryInv /\ DriversTyped /\ DriversRegistered

(* These drivers have the same lives and swapchains as the present ones.   *)
SameLives(drivers) ==
    /\ DOMAIN drivers = Devices
    /\ \A d \in Devices : /\ LifeFields \subseteq DOMAIN drivers[d]
                          /\ drivers[d].life = driver[d].life
                          /\ drivers[d].swapchains = driver[d].swapchains

(* A lookup of a registered driver, with no window or one it is registered *)
(* with, finds that driver: what matches its device is its own.            *)
LEMMA RegisteredMatchesItself ==
    ASSUME RegistryTypeOK, MatchComplete, NEW d \in Devices, d \in m_DeviceFrameCapturers,
           NEW wnd \in {NULL} \cup Windows,
           wnd # NULL => DeviceOwnedWindow(d, wnd) \in Registered
    PROVE  MatchFrameCapturer(DeviceOwnedWindow(d, wnd)) = d
<1> DEFINE q == DeviceOwnedWindow(d, wnd)
           k == MatchClosestWindow(q)
<1>1. q \in Queries /\ q.device = d /\ q.windowHandle = wnd /\ d # NULL
  BY PointersNotNull DEF DeviceOwnedWindow, Queries
<1>2. CASE k = NoWindow
  <2>1. wnd = NULL
    <3>1. SUFFICES ASSUME q \in Registered PROVE FALSE
      OBVIOUS
    <3>2. wildcardMatch(q, q)
      BY DEF wildcardMatch
    <3>3. k \in Registered
      BY <1>1, <3>1, <3>2 DEF MatchComplete
    <3> QED  BY <1>2, <3>3, NoWindowIsNoPair DEF RegistryTypeOK
  <2> QED  BY <1>1, <1>2, <2>1 DEF MatchFrameCapturer
<1>3. CASE k # NoWindow
  <2> DEFINE C == ClosestCandidates(q)
  <2>1. C # {} /\ k = First(C)
    BY <1>3 DEF MatchClosestWindow
  <2>2. C \subseteq Pairs
    BY DEF ClosestCandidates, RegistryTypeOK
  <2>3. k \in C
    BY <2>1, <2>2, FirstExists
  <2>4. k \in Pairs /\ wildcardMatch(k, q)
    BY <2>2, <2>3 DEF ClosestCandidates
  <2>5. k.device # NULL
    BY <2>4, PointersNotNull DEF Pairs
  <2>6. k.device = d
    BY <1>1, <2>4, <2>5 DEF wildcardMatch
  <2> QED  BY <1>3, <2>6 DEF MatchFrameCapturer
<1> QED  BY <1>2, <1>3

LEMMA StartKeepsLives ==
    ASSUME DriversTyped, NEW devWnd, NEW fails \in BOOLEAN
    PROVE  SameLives(StartedBy(devWnd, fails))
<1> DEFINE c == MatchFrameCapturer(devWnd)
<1>1. ASSUME NEW r, LifeFields \subseteq DOMAIN r
      PROVE  /\ LifeFields \subseteq DOMAIN DriverStarted(r, fails)
             /\ DriverStarted(r, fails).life = r.life
             /\ DriverStarted(r, fails).swapchains = r.swapchains
  BY <1>1 DEF DriverStarted, LifeFields
<1>2. CASE c = NULL
  BY <1>2 DEF StartedBy, SameLives, DriversTyped
<1>3. CASE c # NULL
  <2>1. StartedBy(devWnd, fails) = [driver EXCEPT ![c] = DriverStarted(driver[c], fails)]
    BY <1>3 DEF StartedBy
  <2> QED  BY <1>1, <2>1 DEF SameLives, DriversTyped
<1> QED  BY <1>2, <1>3

LEMMA AtFrameKeepsLives ==
    ASSUME NEW drivers, SameLives(drivers), NEW d \in Devices, NEW frame
    PROVE  SameLives(AtFrame(drivers, d, frame))
BY DEF AtFrame, SameLives, LifeFields

(* The end of a capture, in whatever way, changes no life and no swapchain. *)
LEMMA ReturnKeepsLives ==
    ASSUME NEW drivers, SameLives(drivers), NEW d \in Devices, NEW then,
           Return(d, then, drivers)
    PROVE  SameLives(driver')
BY DEF Return, AfterEnd, SameLives, LifeFields

LEMMA DiscardedKeepsLives ==
    ASSUME DriversTyped, NEW c \in Devices
    PROVE  SameLives(driver) /\ SameLives([driver EXCEPT ![c] = Discarded(@)])
BY DEF DriversTyped, SameLives, Discarded, LifeFields

LEMMA EndKeepsLives ==
    ASSUME DriversTyped, NEW d \in Devices, NEW devWnd, NEW then,
           EndFrameCapture(d, devWnd, then)
    PROVE  SameLives(driver')
<1> DEFINE c == MatchFrameCapturer(devWnd)
<1>1. SameLives(driver)
  BY DEF DriversTyped, SameLives
<1>2. \/ Return(d, then, driver)
      \/ c \in CapturingDevices /\ Return(d, then, [driver EXCEPT ![c] = Discarded(@)])
      \/ c \in CapturingDevices /\ driver' = [driver EXCEPT ![c].m_State = "Background"]
  BY DEF EndFrameCapture
<1>3. CASE Return(d, then, driver)
  BY <1>1, <1>3, ReturnKeepsLives
<1>4. CASE c \in CapturingDevices /\ Return(d, then, [driver EXCEPT ![c] = Discarded(@)])
  <2>1. c \in Devices
    BY <1>4 DEF CapturingDevices
  <2> QED  BY <1>4, <2>1, DiscardedKeepsLives, ReturnKeepsLives
<1>5. CASE c \in CapturingDevices /\ driver' = [driver EXCEPT ![c].m_State = "Background"]
  BY <1>5 DEF CapturingDevices, DriversTyped, SameLives, LifeFields
<1> QED  BY <1>2, <1>3, <1>4, <1>5

(* A step that changes neither lives nor swapchains nor what is registered. *)
LEMMA KeptLivesKeepRegistered ==
    ASSUME DriversTyped, DriversRegistered, SameLives(driver'),
           UNCHANGED <<m_WindowFrameCapturers, m_DeviceFrameCapturers>>
    PROVE  DriversTyped' /\ DriversRegistered'
BY DEF DriversTyped, DriversRegistered, SameLives, Registered

(* Captures, on whichever thread. *)
LEMMA CaptureStepKeepsRegistered ==
    ASSUME DriversTyped, DriversRegistered, NEW d \in Devices,
           \/ \E devWnd \in ApiQueries :
                 \/ ApiStartFrameCapture(d, devWnd)
                 \/ ApiEndFrameCapture(d, devWnd)
                 \/ ApiDiscardFrameCapture(d, devWnd)
           \/ BeginMarker(d) \/ EndMarker(d)
           \/ \E windows \in PresentLists(d) : QueuePresent(d, windows)
           \/ DriverStep(d)
    PROVE  DriversTyped' /\ DriversRegistered'
<1>1. SameLives(driver)
  BY DEF DriversTyped, SameLives
<1>2. ASSUME NEW devWnd \in ApiQueries, ApiStartFrameCapture(d, devWnd)
      PROVE  DriversTyped' /\ DriversRegistered'
  <2>1. UNCHANGED <<m_WindowFrameCapturers, m_DeviceFrameCapturers>>
    BY <1>2 DEF ApiStartFrameCapture, SetActiveWindow, registryVars
  <2>2. SameLives(driver')
    BY <1>2, StartKeepsLives DEF ApiStartFrameCapture
  <2> QED  BY <2>1, <2>2, KeptLivesKeepRegistered
<1>3. ASSUME NEW devWnd, ApiEndFrameCapture(d, devWnd)
      PROVE  DriversTyped' /\ DriversRegistered'
  <2>1. UNCHANGED <<m_WindowFrameCapturers, m_DeviceFrameCapturers>>
    BY <1>3 DEF ApiEndFrameCapture, registryVars
  <2>2. SameLives(driver')
    BY <1>3, EndKeepsLives DEF ApiEndFrameCapture
  <2> QED  BY <2>1, <2>2, KeptLivesKeepRegistered
<1>4. ASSUME NEW devWnd \in ApiQueries, ApiDiscardFrameCapture(d, devWnd)
      PROVE  DriversTyped' /\ DriversRegistered'
  <2> DEFINE c == MatchFrameCapturer(devWnd)
  <2>1. UNCHANGED <<m_WindowFrameCapturers, m_DeviceFrameCapturers>>
    BY <1>4 DEF ApiDiscardFrameCapture, registryVars
  <2>2. \/ Return(d, "app", driver)
        \/ c \in Devices /\ Return(d, "app", [driver EXCEPT ![c] = Discarded(@)])
    BY <1>4 DEF ApiDiscardFrameCapture, DiscardFrameCapture, CapturingDevices
  <2>3. SameLives(driver')
    BY <1>1, <2>2, DiscardedKeepsLives, ReturnKeepsLives
  <2> QED  BY <2>1, <2>3, KeptLivesKeepRegistered
<1>5. CASE BeginMarker(d)
  <2>1. UNCHANGED <<m_WindowFrameCapturers, m_DeviceFrameCapturers>>
    BY <1>5 DEF BeginMarker, registryVars
  <2>2. SameLives(driver')
    BY <1>5, StartKeepsLives DEF BeginMarker
  <2> QED  BY <2>1, <2>2, KeptLivesKeepRegistered
<1>6. CASE EndMarker(d)
  BY <1>3, <1>6 DEF EndMarker
<1>7. ASSUME NEW windows, QueuePresent(d, windows)
      PROVE  DriversTyped' /\ DriversRegistered'
  <2>1. UNCHANGED <<m_WindowFrameCapturers, m_DeviceFrameCapturers>>
    BY <1>7 DEF QueuePresent, AdvanceFrame, CycleWindow, registryVars
  <2>2. driver' = [driver EXCEPT ![d].m_FrameCounter = IF @ < MaxFrame THEN @ + 1 ELSE @]
    BY <1>7 DEF QueuePresent, AdvanceFrame
  <2>3. SameLives(driver')
    BY <2>2 DEF DriversTyped, SameLives, LifeFields
  <2> QED  BY <2>1, <2>3, KeptLivesKeepRegistered
<1>8. CASE Present(d)
  <2>1. UNCHANGED <<m_WindowFrameCapturers, m_DeviceFrameCapturers>>
    BY <1>8 DEF Present, registryVars
  <2>2. \/ UNCHANGED driver
        \/ EndFrameCapture(d, DeviceOwnedWindow(d, NULL), "first")
        \/ EndFrameCapture(d, DeviceOwnedWindow(d, Head(thread[d].todo)), "trigger")
    BY <1>8 DEF Present
  <2>3. CASE UNCHANGED driver
    BY <1>1, <2>1, <2>3, KeptLivesKeepRegistered DEF SameLives
  <2>4. CASE ~UNCHANGED driver
    BY <2>1, <2>2, <2>4, EndKeepsLives, KeptLivesKeepRegistered
  <2> QED  BY <2>3, <2>4
<1>9. CASE PresentTrigger(d)
  <2> DEFINE devWnd == DeviceOwnedWindow(d, Head(thread[d].todo))
             frame == driver[d].m_FrameCounter
  <2>1. UNCHANGED <<m_WindowFrameCapturers, m_DeviceFrameCapturers>>
    BY <1>9 DEF PresentTrigger, registryVars
  <2>2. \/ UNCHANGED driver
        \/ \E fails \in BOOLEAN : driver' = AtFrame(StartedBy(devWnd, fails), d, frame)
    BY <1>9 DEF PresentTrigger
  <2>3. CASE UNCHANGED driver
    BY <1>1, <2>1, <2>3, KeptLivesKeepRegistered DEF SameLives
  <2>4. ASSUME NEW fails \in BOOLEAN, driver' = AtFrame(StartedBy(devWnd, fails), d, frame)
        PROVE  DriversTyped' /\ DriversRegistered'
    <3>1. SameLives(driver')
      BY <2>4, StartKeepsLives, AtFrameKeepsLives
    <3> QED  BY <2>1, <3>1, KeptLivesKeepRegistered
  <2> QED  BY <2>2, <2>3, <2>4
<1>10. CASE FinishCaptureWriting(d)
  <2>1. UNCHANGED <<m_WindowFrameCapturers, m_DeviceFrameCapturers>>
    BY <1>10 DEF FinishCaptureWriting, registryVars
  <2>2. SameLives(driver')
    BY <1>1, <1>10, ReturnKeepsLives DEF FinishCaptureWriting
  <2> QED  BY <2>1, <2>2, KeptLivesKeepRegistered
<1> QED  BY <1>2, <1>3, <1>4, <1>5, <1>6, <1>7, <1>8, <1>9, <1>10 DEF DriverStep

(* Devices and windows that come and go: the driver registers before it    *)
(* relies on it, and unregisters what it no longer uses.                   *)
LEMMA LifecycleKeepsRegistered ==
    ASSUME DriversTyped, DriversRegistered, NEW d \in Devices, Lifecycle(d)
    PROVE  DriversTyped' /\ DriversRegistered'
<1>1. CASE CreateInstance(d)
  <2>1. /\ UNCHANGED m_WindowFrameCapturers
        /\ m_DeviceFrameCapturers' = m_DeviceFrameCapturers \cup {d}
        /\ driver' = [driver EXCEPT ![d].life = "instance"]
    BY <1>1 DEF CreateInstance, AddDeviceFrameCapturer
  <2> QED  BY <2>1 DEF DriversTyped, LifeFields, DriversRegistered, Registered
<1>2. CASE CreateDevice(d)
  <2> DEFINE devWnd == DeviceOwnedWindow(d, NULL)
  <2>1. UNCHANGED <<m_WindowFrameCapturers, m_DeviceFrameCapturers>>
    BY <1>2 DEF CreateDevice, registryVars
  <2>2. /\ DriversTyped'
        /\ \A e \in Devices : driver'[e].swapchains = driver[e].swapchains
        /\ \A e \in Devices \ {d} : driver'[e].life = driver[e].life
    <3>1. CASE driver' = [driver EXCEPT ![d].life = "device"]
      BY <3>1 DEF DriversTyped, LifeFields
    <3>2. ASSUME NEW fails \in BOOLEAN,
                 driver' = [AtFrame(StartedBy(devWnd, fails), d, 0) EXCEPT
                                ![d].m_FirstFrameCapture = TRUE, ![d].life = "device"]
          PROVE  /\ DriversTyped'
                 /\ \A e \in Devices : driver'[e].swapchains = driver[e].swapchains
                 /\ \A e \in Devices \ {d} : driver'[e].life = driver[e].life
      <4>1. SameLives(AtFrame(StartedBy(devWnd, fails), d, 0))
        BY StartKeepsLives, AtFrameKeepsLives
      <4> QED  BY <3>2, <4>1 DEF SameLives, DriversTyped, LifeFields
    <3> QED  BY <1>2, <3>1, <3>2 DEF CreateDevice
  <2>3. d \in m_DeviceFrameCapturers
    BY <1>2 DEF CreateDevice, DriversRegistered
  <2> QED  BY <2>1, <2>2, <2>3 DEF DriversRegistered, Registered
<1>3. ASSUME NEW wnd \in Windows, CreateSurface(d, wnd)
      PROVE  DriversTyped' /\ DriversRegistered'
  <2>1. /\ Registered' = Registered \cup {DeviceOwnedWindow(d, wnd)}
        /\ UNCHANGED <<m_DeviceFrameCapturers, driver>>
    BY <1>3 DEF CreateSurface, AddFrameCapturer, Registered
  <2> QED  BY <2>1 DEF DriversTyped, DriversRegistered
<1>4. ASSUME NEW wnd \in Windows, CreateSwapchain(d, wnd) \/ DestroySwapchain(d, wnd)
      PROVE  DriversTyped' /\ DriversRegistered'
  <2>1. UNCHANGED <<m_WindowFrameCapturers, m_DeviceFrameCapturers>>
    BY <1>4 DEF CreateSwapchain, DestroySwapchain, registryVars
  <2>2. /\ DriversTyped'
        /\ \A e \in Devices : driver'[e].life = driver[e].life
        /\ \A e \in Devices \ {d} : driver'[e].swapchains = driver[e].swapchains
        /\ \A w \in driver'[d].swapchains :
               w \in driver[d].swapchains \/ DeviceOwnedWindow(d, w) \in Registered
    <3>1. CASE CreateSwapchain(d, wnd)
      BY <3>1 DEF CreateSwapchain, DriversTyped, LifeFields
    <3>2. CASE DestroySwapchain(d, wnd)
      BY <3>2 DEF DestroySwapchain, DriversTyped, LifeFields
    <3> QED  BY <1>4, <3>1, <3>2
  <2> QED  BY <2>1, <2>2 DEF DriversTyped, DriversRegistered, Registered
<1>5. ASSUME NEW wnd \in Windows, DestroySurface(d, wnd)
      PROVE  DriversTyped' /\ DriversRegistered'
  <2>1. /\ Registered \ {DeviceOwnedWindow(d, wnd)} \subseteq Registered'
        /\ UNCHANGED <<m_DeviceFrameCapturers, driver>>
        /\ wnd \notin driver[d].swapchains
    BY <1>5 DEF DestroySurface, RemoveFrameCapturer, Registered
  <2>2. ASSUME NEW e \in Devices, NEW w \in driver[e].swapchains
        PROVE  DeviceOwnedWindow(e, w) # DeviceOwnedWindow(d, wnd)
    BY <2>1 DEF DeviceOwnedWindow
  <2> QED  BY <2>1, <2>2 DEF DriversTyped, DriversRegistered
<1>6. CASE DestroyInstance(d)
  <2>1. /\ UNCHANGED m_WindowFrameCapturers
        /\ m_DeviceFrameCapturers' = m_DeviceFrameCapturers \ {d}
        /\ driver' = [driver EXCEPT ![d] = [NewDriver EXCEPT !.life = "destroyed"]]
    BY <1>6 DEF DestroyInstance, RemoveDeviceFrameCapturer
  <2>2. /\ LifeFields \subseteq DOMAIN [NewDriver EXCEPT !.life = "destroyed"]
        /\ [NewDriver EXCEPT !.life = "destroyed"].life = "destroyed"
        /\ [NewDriver EXCEPT !.life = "destroyed"].swapchains = {}
    BY DEF NewDriver, LifeFields
  <2> QED  BY <2>1, <2>2 DEF DriversTyped, DriversRegistered, Registered
<1> QED  BY <1>1, <1>2, <1>3, <1>4, <1>5, <1>6 DEF Lifecycle

LEMMA DriversStepInv == DriversInv /\ [Next]_vars => DriversInv'
<1> SUFFICES ASSUME DriversInv, [Next]_vars
             PROVE  DriversTyped' /\ DriversRegistered'
  BY StepOnRegistry, RegistryStepInv DEF DriversInv, RegistryInv
<1> USE DEF DriversInv
<1>1. CASE UNCHANGED <<m_WindowFrameCapturers, m_DeviceFrameCapturers, driver>>
  BY <1>1 DEF DriversTyped, DriversRegistered, Registered
<1>2. CASE \/ UNCHANGED vars
           \/ \E n \in MultiCounts : TriggerCapture(n)
           \/ \E frame \in QueuedFrames : QueueCapture(frame)
           \/ CycleActiveWindow
           \/ SetCaptureTitle
           \/ \E devWnd \in ApiQueries : ApiSetActiveWindow(devWnd)
  BY <1>1, <1>2 DEF vars, registryVars, TriggerCapture, QueueCapture, CycleActiveWindow,
                    CycleWindow, SetCaptureTitle, ApiSetActiveWindow, SetActiveWindow
<1>3. ASSUME NEW d \in Devices,
             \/ \E devWnd \in ApiQueries :
                   \/ ApiStartFrameCapture(d, devWnd)
                   \/ ApiEndFrameCapture(d, devWnd)
                   \/ ApiDiscardFrameCapture(d, devWnd)
             \/ BeginMarker(d) \/ EndMarker(d)
             \/ \E windows \in PresentLists(d) : QueuePresent(d, windows)
             \/ DriverStep(d)
      PROVE  DriversTyped' /\ DriversRegistered'
  BY <1>3, CaptureStepKeepsRegistered
<1>4. ASSUME NEW d \in Devices, Lifecycle(d)
      PROVE  DriversTyped' /\ DriversRegistered'
  BY <1>4, LifecycleKeepsRegistered
<1> QED  BY <1>2, <1>3, <1>4 DEF Next

LEMMA SpecDriversInv == Spec => []DriversInv
<1>1. Init => DriversInv
  <2> SUFFICES ASSUME Init PROVE DriversTyped /\ DriversRegistered
    BY RegistryInitInv DEF Init, DriversInv
  <2>1. /\ LifeFields \subseteq DOMAIN NewDriver
        /\ NewDriver.life = "none" /\ NewDriver.swapchains = {}
    BY DEF NewDriver, LifeFields
  <2> QED  BY <2>1 DEF Init, DriversTyped, DriversRegistered
<1> QED  BY <1>1, DriversStepInv, PTL DEF Spec

(* A driver that asks class RenderDoc to start or end a capture of its own *)
(* is given back to itself, with any number of devices and windows that    *)
(* are registered and removed in any order: Present may write to what it   *)
(* appended to m_CapturedFrames.                                           *)
THEOREM DriverFindsItself == Spec => []DriverMatchesItself
<1>1. DriversInv /\ MatchComplete => DriverMatchesItself
  <2> SUFFICES ASSUME DriversInv, MatchComplete, NEW d \in Devices,
                      driver[d].life = "device", NEW wnd \in {NULL} \cup driver[d].swapchains
               PROVE  MatchFrameCapturer(DeviceOwnedWindow(d, wnd)) = d
    BY DEF DriverMatchesItself
  <2>1. wnd \in {NULL} \cup Windows /\ d \in m_DeviceFrameCapturers
    BY DEF DriversInv, DriversTyped, DriversRegistered
  <2>2. wnd # NULL => DeviceOwnedWindow(d, wnd) \in Registered
    BY DEF DriversInv, DriversRegistered
  <2> QED  BY <2>1, <2>2, RegisteredMatchesItself DEF DriversInv, RegistryInv
<1> QED  BY <1>1, SpecDriversInv, FrameCaptureMatchComplete, PTL

-----------------------------------------------------------------------------
(* Captures.  The thread of a device starts and ends captures of that      *)
(* device alone, so that every step is one of five moves on one driver and *)
(* one thread; the properties of captures are proved of the moves.         *)

DriverRecords ==
    [life : {"none", "instance", "device", "destroyed"},
     m_State : {"Background", "Active"},
     m_AppControlledCapture : BOOLEAN, m_FirstFrameCapture : BOOLEAN,
     m_CaptureFailure : BOOLEAN, m_FrameCounter : 0 .. MaxFrame,
     frameNumber : 0 .. MaxFrame + 1, capture : Nat,
     m_SwapLookup : SUBSET Windows, swapchains : SUBSET Windows]

ThreadRecords ==
    [pc : {"app", "present", "trigger", "write"}, todo : Seq({NULL} \cup Windows),
     then : {"app", "trigger", "next", "first"},
     file : [capturer : {NULL} \cup Devices, created : BOOLEAN]]

CaptureRecords ==
    [path : (0 .. MaxFrame + 1) \X Nat, title : SUBSET Nat,
     frameNumber : 0 .. MaxFrame + 1, capture : Nat]

CaptureTyped ==
    /\ driver \in [Devices -> DriverRecords]
    /\ thread \in [Devices -> ThreadRecords]
    /\ m_Captures \in Seq(CaptureRecords)
    /\ m_CurrentLogFile \in (0 .. MaxFrame + 1) \X Nat
    /\ m_CaptureTitle \subseteq Nat
    /\ m_CapturesActive \in Int
    /\ started \in Nat

(* Where the thread of d is when it is not in the application, and which   *)
(* file it writes: one of its own device, whose capture is over.  Only a   *)
(* device captures.                                                        *)
ThreadPlaced(d) ==
    LET t == thread[d] IN
    /\ IsFiniteSet(driver[d].swapchains)
    /\ driver[d].swapchains \subseteq driver[d].m_SwapLookup
    /\ driver[d].life # "device" => ~Capturing(d)
    /\ t.pc # "app" =>
         /\ driver[d].life = "device"
         /\ \A i \in DOMAIN t.todo : t.todo[i] \in {NULL} \cup driver[d].swapchains
    /\ t.pc = "app" => t.todo = <<>>
    /\ t.pc \in {"present", "trigger"} \/ (t.pc = "write" /\ t.then # "app") => t.todo # <<>>
    /\ t.pc = "write" => t.file.capturer = d /\ ~Capturing(d)

ThreadsPlaced == \A d \in Devices : ThreadPlaced(d)

(* Nobody else's driver and thread change. *)
OnlyChanges(d) ==
    /\ driver' = [driver EXCEPT ![d] = driver'[d]]
    /\ thread' = [thread EXCEPT ![d] = thread'[d]]

(* The capture that starts is the next one, and has no title.              *)
StartMove(d) ==
    /\ ~Capturing(d) /\ thread[d].pc # "write" /\ thread'[d].pc # "write"
    /\ driver'[d].m_State = "Active" /\ driver'[d].capture = started + 1
    /\ m_CaptureTitle' = NoTitle
    /\ m_CapturesActive' = m_CapturesActive + 1
    /\ started' = started + 1
    /\ UNCHANGED <<m_CurrentLogFile, m_Captures, disk>>

(* No capture starts or ends.  Only the in-app API may start what is       *)
(* running, or end what is not.                                            *)
PassMove(d) ==
    /\ thread[d].pc # "write" /\ thread'[d].pc # "write"
    /\ driver'[d].m_State = driver[d].m_State
    /\ driver'[d].capture = driver[d].capture
    /\ m_CaptureTitle' \in {NoTitle, m_CaptureTitle}
    /\ m_CapturesActive' \in {m_CapturesActive - 1, m_CapturesActive, m_CapturesActive + 1}
    /\ ApiQueries = {} => m_CapturesActive' = m_CapturesActive
    /\ UNCHANGED <<m_CurrentLogFile, m_Captures, disk, started>>

(* A capture ends without a file, or its device is destroyed.              *)
DropMove(d) ==
    /\ thread[d].pc # "write" /\ thread'[d].pc # "write"
    /\ driver'[d].m_State = "Background"
    /\ driver'[d].capture \in {0, driver[d].capture}
    /\ m_CapturesActive' \in {m_CapturesActive - 1, m_CapturesActive}
    /\ ApiQueries = {} /\ ~Capturing(d) => m_CapturesActive' = m_CapturesActive
    /\ UNCHANGED <<m_CaptureTitle, m_CurrentLogFile, m_Captures, disk, started>>

(* The disk with the file of a capture, over one of that name or new. *)
WithFile(path, capture) ==
    [p \in {path} \cup DOMAIN disk |-> IF p = path THEN capture ELSE disk[p]]

WriteMove(d) ==
    LET r == driver[d] IN
    /\ thread[d].pc # "write" /\ thread'[d].pc = "write"
    /\ Capturing(d)
    /\ driver'[d] = [r EXCEPT !.m_State = "Background"]
    /\ thread'[d].file.capturer = d
    /\ m_CurrentLogFile' = CapturePath(r.frameNumber)
    /\ disk' = IF thread'[d].file.created
               THEN WithFile(CapturePath(r.frameNumber), r.capture) ELSE disk
    /\ UNCHANGED <<m_CaptureTitle, m_CapturesActive, m_Captures, started>>

FinishMove(d) ==
    /\ thread[d].pc = "write" /\ thread'[d].pc # "write"
    /\ driver'[d].m_State = driver[d].m_State
    /\ driver'[d].capture = driver[d].capture
    /\ IF thread[d].file.created
       THEN /\ m_Captures' = Append(m_Captures,
                    [path |-> m_CurrentLogFile, title |-> m_CaptureTitle,
                     frameNumber |-> driver[d].frameNumber, capture |-> driver[d].capture])
            /\ m_CaptureTitle' = NoTitle
       ELSE UNCHANGED <<m_Captures, m_CaptureTitle>>
    /\ m_CapturesActive' = m_CapturesActive - 1
    /\ UNCHANGED <<m_CurrentLogFile, disk, started>>

Move(d) ==
    /\ OnlyChanges(d)
    /\ StartMove(d) \/ PassMove(d) \/ DropMove(d) \/ WriteMove(d) \/ FinishMove(d)

(* A move to well-placed threads and drivers. *)
Moved(d) ==
    /\ Move(d)
    /\ driver' \in [Devices -> DriverRecords]
    /\ thread' \in [Devices -> ThreadRecords]
    /\ ThreadsPlaced'

(* What other threads do: at most a title is set. *)
TitleMove ==
    /\ m_CaptureTitle' \in {m_CaptureTitle, {0} \cup InProgress}
    /\ UNCHANGED <<driver, thread, m_CapturesActive, m_CurrentLogFile, m_Captures, disk, started>>

PlacedInv == DriversInv /\ MatchComplete /\ CaptureTyped /\ ThreadsPlaced

-----------------------------------------------------------------------------
(* A lookup finds a device or nothing. *)
LEMMA MatchIsDevice ==
    ASSUME RegistryTypeOK, NEW q
    PROVE  MatchFrameCapturer(q) \in {NULL} \cup Devices
<1>1. CASE MatchClosestWindow(q) # NoWindow
  <2>1. MatchClosestWindow(q) \in Pairs
    BY <1>1, MatchClosestWindowRegistered DEF RegistryTypeOK
  <2> QED  BY <1>1, <2>1 DEF MatchFrameCapturer, Pairs
<1>2. CASE MatchClosestWindow(q) = NoWindow /\ q.windowHandle # NULL
  BY <1>2 DEF MatchFrameCapturer
<1>3. CASE MatchClosestWindow(q) = NoWindow /\ q.windowHandle = NULL
  <2> DEFINE S == m_DeviceFrameCapturers
             least == CHOOSE d \in S : \A e \in S : d <= e
  <2>1. S \subseteq Devices /\ S \subseteq Nat
    BY PointersNotNull DEF RegistryTypeOK
  <2>2. S # {} => least \in Devices
    BY <2>1, LeastNat
  <2>3. MatchFrameCapturer(q) = IF q.device \in S THEN q.device ELSE IF S = {} THEN NULL ELSE least
    BY <1>3 DEF MatchFrameCapturer
  <2> QED  BY <2>1, <2>2, <2>3
<1> QED  BY <1>1, <1>2, <1>3

(* What one vkQueuePresentKHR may be given. *)
LEMMA PresentListsAreWindows ==
    ASSUME CaptureTyped, NEW d \in Devices, ThreadPlaced(d), NEW windows \in PresentLists(d)
    PROVE  /\ windows \in Seq({NULL} \cup Windows) /\ windows # <<>>
           /\ \A i \in DOMAIN windows : windows[i] \in {NULL} \cup driver[d].swapchains
<1> DEFINE S == driver[d].swapchains
<1>1. S \subseteq Windows
  BY DEF CaptureTyped, DriverRecords
<1>2. CASE windows = <<NULL>>
  BY <1>2
<1>3. CASE windows \in SetToAllKPermutations(S) \ {<<>>}
  <2>1. PICK s \in SUBSET S : windows \in SetToSeqs(s)
    BY <1>3 DEF SetToAllKPermutations
  <2>2. Cardinality(s) \in Nat
    BY FS_Subset, FS_CardinalityType DEF ThreadPlaced
  <2>3. windows \in [1 .. Cardinality(s) -> S]
    BY <2>1 DEF SetToSeqs
  <2> HIDE DEF S
  <2>4. windows \in Seq(S)
    BY <2>2, <2>3
  <2>5. \A i \in DOMAIN windows : windows[i] \in S
    BY <2>3
  <2>6. windows \in Seq({NULL} \cup Windows)
    BY <1>1, <2>4
  <2> QED  BY <1>3, <2>5, <2>6 DEF S
<1> QED  BY <1>2, <1>3 DEF PresentLists

(* Going on after EndFrameCapture, with what is left to present. *)
LEMMA ContinueTyped ==
    ASSUME NEW t \in ThreadRecords, NEW then \in {"app", "trigger", "next", "first"},
           then # "app" => t.todo # <<>>
    PROVE  /\ Continue(t, then) \in ThreadRecords
           /\ Continue(t, then).pc \in {"app", "present", "trigger"}
           /\ Continue(t, then).pc = "app" <=> Continue(t, then).todo = <<>>
           /\ Continue(t, then).pc # "app" => then # "app"
           /\ \A i \in DOMAIN Continue(t, then).todo :
                 \E j \in DOMAIN t.todo : Continue(t, then).todo[i] = t.todo[j]
<1> DEFINE W == {NULL} \cup Windows
           rest == Tail(t.todo)
<1>1. t.todo \in Seq(W)
  BY DEF ThreadRecords
<1>2. /\ IdleThread = [pc |-> "app", todo |-> <<>>, then |-> "app", file |-> NoFile]
      /\ NoFile \in [capturer : {NULL} \cup Devices, created : BOOLEAN]
      /\ <<>> \in Seq(W)
  BY DEF IdleThread, NoFile
<1>3. CASE then = "app"
  BY <1>2, <1>3 DEF Continue, ThreadRecords, IdleThread
<1>4. CASE then = "trigger"
  <2>1. Continue(t, then) = [pc |-> "trigger", todo |-> t.todo, then |-> "app", file |-> NoFile]
    BY <1>2, <1>4 DEF Continue
  <2> QED  BY <1>1, <1>2, <1>4, <2>1 DEF ThreadRecords
<1>5. CASE then \in {"next", "first"}
  <2>1. Continue(t, then) = [pc |-> IF rest = <<>> THEN "app" ELSE "present",
                             todo |-> rest, then |-> "app", file |-> NoFile]
    BY <1>2, <1>5 DEF Continue
  <2>2. t.todo # <<>>
    BY <1>5
  <2>3. rest \in Seq(W) /\ \A i \in DOMAIN rest : i + 1 \in DOMAIN t.todo /\ rest[i] = t.todo[i + 1]
    BY <1>1, <2>2
  <2> HIDE DEF rest
  <2>4. Continue(t, then) \in ThreadRecords
    BY <1>2, <2>1, <2>3 DEF ThreadRecords
  <2> QED  BY <1>5, <2>1, <2>3, <2>4
<1> QED  BY <1>3, <1>4, <1>5

(* A thread goes back to the application or to Present, with its driver    *)
(* still as it was or its capture discarded.                               *)
LEMMA ReturnPlaced ==
    ASSUME CaptureTyped, ThreadsPlaced, NEW d \in Devices, driver[d].life = "device",
           NEW then \in {"app", "trigger", "next", "first"},
           then # "app" => /\ thread[d].todo # <<>>
                           /\ thread[d].pc # "app",
           NEW drivers \in {driver, [driver EXCEPT ![d] = Discarded(@)]},
           Return(d, then, drivers)
    PROVE  /\ OnlyChanges(d)
           /\ driver' \in [Devices -> DriverRecords]
           /\ thread' \in [Devices -> ThreadRecords]
           /\ ThreadsPlaced'
           /\ thread'[d].pc # "write"
           /\ driver'[d].m_State = drivers[d].m_State
           /\ driver'[d].capture = driver[d].capture
<1> DEFINE t == thread[d]
           r == driver[d]
           c == Continue(t, then)
<1>1. t \in ThreadRecords /\ r \in DriverRecords
  BY DEF CaptureTyped
<1>2. /\ c \in ThreadRecords
      /\ c.pc \in {"app", "present", "trigger"}
      /\ c.pc = "app" <=> c.todo = <<>>
      /\ c.pc # "app" => then # "app"
      /\ \A i \in DOMAIN c.todo : \E j \in DOMAIN t.todo : c.todo[i] = t.todo[j]
  BY <1>1, ContinueTyped
<1> HIDE DEF c
<1>3. thread' = [thread EXCEPT ![d] = c]
  BY DEF Return, c
<1>4. thread' \in [Devices -> ThreadRecords] /\ thread'[d] = c
  BY <1>2, <1>3 DEF CaptureTyped
<1>5. /\ Discarded(r) \in DriverRecords
      /\ Discarded(r).life = r.life /\ Discarded(r).capture = r.capture
      /\ Discarded(r).swapchains = r.swapchains /\ Discarded(r).m_SwapLookup = r.m_SwapLookup
      /\ Discarded(r).m_State = "Background"
  BY <1>1 DEF Discarded, DriverRecords
<1>6. /\ drivers \in [Devices -> DriverRecords]
      /\ drivers = [driver EXCEPT ![d] = drivers[d]]
      /\ drivers[d] \in DriverRecords
      /\ drivers[d].life = r.life /\ drivers[d].capture = r.capture
      /\ drivers[d].swapchains = r.swapchains /\ drivers[d].m_SwapLookup = r.m_SwapLookup
      /\ drivers[d].m_State = "Background" \/ drivers[d].m_State = r.m_State
  <2>1. CASE drivers = driver
    BY <1>1, <2>1 DEF CaptureTyped
  <2>2. CASE drivers = [driver EXCEPT ![d] = Discarded(@)]
    BY <1>1, <1>5, <2>2 DEF CaptureTyped
  <2> QED  BY <2>1, <2>2
<1>7. /\ driver' \in [Devices -> DriverRecords]
      /\ driver' = [driver EXCEPT ![d] = driver'[d]]
      /\ driver'[d].life = r.life /\ driver'[d].capture = r.capture
      /\ driver'[d].swapchains = r.swapchains /\ driver'[d].m_SwapLookup = r.m_SwapLookup
      /\ driver'[d].m_State = drivers[d].m_State
  <2>1. CASE then = "first"
    <3>1. driver' = [drivers EXCEPT ![d].m_FirstFrameCapture = FALSE]
      BY <2>1 DEF Return, AfterEnd
    <3>2. driver'[d] = [drivers[d] EXCEPT !.m_FirstFrameCapture = FALSE]
      BY <1>6, <3>1
    <3>3. driver'[d] \in DriverRecords
      BY <1>6, <3>2 DEF DriverRecords
    <3>4. drivers \in [Devices -> DriverRecords] /\ driver \in [Devices -> DriverRecords]
      BY <1>6 DEF CaptureTyped
    <3>5. driver' \in [Devices -> DriverRecords]
      BY <3>1, <3>2, <3>3, <3>4
    <3>6. driver' = [driver EXCEPT ![d] = driver'[d]]
      BY <1>6, <3>1, <3>4
    <3>7. /\ driver'[d].life = drivers[d].life /\ driver'[d].capture = drivers[d].capture
          /\ driver'[d].swapchains = drivers[d].swapchains
          /\ driver'[d].m_SwapLookup = drivers[d].m_SwapLookup
          /\ driver'[d].m_State = drivers[d].m_State
      BY <1>6, <3>2 DEF DriverRecords
    <3> QED  BY <1>6, <3>5, <3>6, <3>7
  <2>2. CASE then # "first"
    <3>1. driver' = drivers
      BY <2>2 DEF Return, AfterEnd
    <3> QED  BY <1>6, <3>1
  <2> QED  BY <2>1, <2>2
<1>8. OnlyChanges(d)
  BY <1>3, <1>4, <1>7 DEF OnlyChanges
<1>9. ThreadPlaced(d)'
  <2>1. c.pc # "app" => \A i \in DOMAIN c.todo : c.todo[i] \in {NULL} \cup r.swapchains
    BY <1>2 DEF ThreadsPlaced, ThreadPlaced
  <2> QED  BY <1>2, <1>4, <1>7, <2>1 DEF ThreadsPlaced, ThreadPlaced
<1>10. ASSUME NEW e \in Devices, e # d
       PROVE  ThreadPlaced(e)'
  <2>1. driver'[e] = driver[e] /\ thread'[e] = thread[e]
    BY <1>3, <1>7, <1>10 DEF CaptureTyped
  <2> QED  BY <2>1 DEF ThreadsPlaced, ThreadPlaced, Capturing
<1> QED  BY <1>2, <1>4, <1>7, <1>8, <1>9, <1>10 DEF ThreadsPlaced

(* Who does not move stays in place. *)
LEMMA OthersStayPlaced ==
    ASSUME CaptureTyped, ThreadsPlaced, NEW d \in Devices, OnlyChanges(d), ThreadPlaced(d)'
    PROVE  ThreadsPlaced'
<1> SUFFICES ASSUME NEW e \in Devices, e # d
             PROVE  ThreadPlaced(e)'
  BY DEF ThreadsPlaced
<1>1. driver'[e] = driver[e] /\ thread'[e] = thread[e]
  BY DEF OnlyChanges, CaptureTyped
<1> QED  BY <1>1 DEF ThreadsPlaced, ThreadPlaced, Capturing

(* RenderDoc::StartFrameCapture on the thread of d: the next capture of d  *)
(* starts, or nothing does.                                                *)
LEMMA StartOnItsThread ==
    ASSUME CaptureTyped, NEW d \in Devices, NEW devWnd,
           MatchFrameCapturer(devWnd) \in {NULL, d}, NEW fails \in BOOLEAN,
           StartFrameCapture(devWnd)
    PROVE  /\ m_CaptureTitle' = NoTitle
           /\ \/ /\ MatchFrameCapturer(devWnd) = NULL \/ Capturing(d)
                 /\ StartedBy(devWnd, fails) = driver
                 /\ started' = started
                 /\ m_CapturesActive' \in {m_CapturesActive, m_CapturesActive + 1}
              \/ /\ ~Capturing(d)
                 /\ \E r \in DriverRecords :
                       /\ StartedBy(devWnd, fails) = [driver EXCEPT ![d] = r]
                       /\ r.m_State = "Active" /\ r.capture = started + 1
                       /\ r.life = driver[d].life
                       /\ r.swapchains = driver[d].swapchains
                       /\ r.m_SwapLookup = driver[d].m_SwapLookup
                 /\ started' = started + 1
                 /\ m_CapturesActive' = m_CapturesActive + 1
<1> DEFINE r == driver[d]
           c == MatchFrameCapturer(devWnd)
<1>1. r \in DriverRecords /\ started \in Nat /\ d # NULL
  BY PointersNotNull DEF CaptureTyped
<1>2. m_CaptureTitle' = NoTitle
  BY DEF StartFrameCapture
<1>3. CASE c = NULL
  <2>1. StartedBy(devWnd, fails) = driver
    BY <1>3 DEF StartedBy
  <2> QED  BY <1>2, <1>3, <2>1 DEF StartFrameCapture
<1>4. CASE c = d
  <2>1. StartedBy(devWnd, fails) = [driver EXCEPT ![d] = DriverStarted(r, fails)]
    BY <1>1, <1>4 DEF StartedBy
  <2>2. m_CapturesActive' = m_CapturesActive + 1
    BY <1>1, <1>4 DEF StartFrameCapture
  <2>3. CASE Capturing(d)
    <3>1. DriverStarted(r, fails) = r
      BY <2>3 DEF DriverStarted, Capturing
    <3>2. started' = started
      BY <1>4, <2>3 DEF StartFrameCapture, CapturingDevices
    <3> QED  BY <1>2, <2>1, <2>2, <2>3, <3>1, <3>2 DEF CaptureTyped
  <2>4. CASE ~Capturing(d)
    <3> DEFINE s == DriverStarted(r, fails)
    <3>1. s = [r EXCEPT !.m_State = "Active", !.m_CaptureFailure = fails,
                        !.m_AppControlledCapture = TRUE, !.frameNumber = NoFrameNumber,
                        !.capture = started + 1]
      BY <1>1, <2>4 DEF DriverStarted, Capturing, DriverRecords
    <3>2. NoFrameNumber \in 0 .. MaxFrame + 1
      BY FrameCaptureAssumption DEF NoFrameNumber
    <3>3. /\ s \in DriverRecords
          /\ s.m_State = "Active" /\ s.capture = started + 1
          /\ s.life = r.life /\ s.swapchains = r.swapchains /\ s.m_SwapLookup = r.m_SwapLookup
      <4> HIDE DEF s
      <4>1. s = [life |-> r.life, m_State |-> "Active", m_AppControlledCapture |-> TRUE,
                 m_FirstFrameCapture |-> r.m_FirstFrameCapture, m_CaptureFailure |-> fails,
                 m_FrameCounter |-> r.m_FrameCounter, frameNumber |-> NoFrameNumber,
                 capture |-> started + 1, m_SwapLookup |-> r.m_SwapLookup,
                 swapchains |-> r.swapchains]
        BY <1>1, <3>1 DEF DriverRecords
      <4> QED  BY <1>1, <3>2, <4>1 DEF DriverRecords
    <3>4. started' = started + 1
      BY <1>1, <1>4, <2>4 DEF StartFrameCapture, CapturingDevices
    <3> HIDE DEF s
    <3>5. StartedBy(devWnd, fails) = [driver EXCEPT ![d] = s]
      BY <2>1 DEF s
    <3> QED  BY <1>2, <2>2, <2>4, <3>3, <3>4, <3>5
  <2> QED  BY <2>3, <2>4
<1> QED  BY <1>3, <1>4

(* A device that does not capture yet starts the next capture. *)
LEMMA OwnStart ==
    ASSUME CaptureTyped, NEW d \in Devices, NEW devWnd, MatchFrameCapturer(devWnd) = d,
           ~Capturing(d), NEW fails \in BOOLEAN, StartFrameCapture(devWnd)
    PROVE  /\ m_CaptureTitle' = NoTitle
           /\ started' = started + 1
           /\ m_CapturesActive' = m_CapturesActive + 1
           /\ \E r \in DriverRecords :
                 /\ StartedBy(devWnd, fails) = [driver EXCEPT ![d] = r]
                 /\ r.m_State = "Active" /\ r.capture = started + 1
                 /\ r.life = driver[d].life
                 /\ r.swapchains = driver[d].swapchains
                 /\ r.m_SwapLookup = driver[d].m_SwapLookup
<1>1. MatchFrameCapturer(devWnd) \in {NULL, d} /\ MatchFrameCapturer(devWnd) # NULL
  BY PointersNotNull
<1>2. ~(MatchFrameCapturer(devWnd) = NULL \/ Capturing(d))
  BY <1>1
<1> QED  BY <1>1, <1>2, StartOnItsThread

(* A capture the application starts. *)
LEMMA AppStartMoves ==
    ASSUME CaptureTyped, ThreadsPlaced, ApiQueries # {}, NEW d \in Devices, Rendering(d),
           NEW devWnd, MatchFrameCapturer(devWnd) \in {NULL, d}, NEW fails \in BOOLEAN,
           StartFrameCapture(devWnd), driver' = StartedBy(devWnd, fails),
           UNCHANGED <<m_CurrentLogFile, m_Captures, disk, thread>>
    PROVE  Moved(d)
<1>1. thread[d].pc = "app" /\ thread'[d] = thread[d] /\ driver[d].life = "device"
  BY DEF Rendering, InApp
<1>2. CASE StartedBy(devWnd, fails) = driver
  <2>1. driver' = driver
    BY <1>2
  <2>2. OnlyChanges(d)
    BY <2>1 DEF OnlyChanges, CaptureTyped
  <2>3. PassMove(d)
    <3>1. ASSUME NEW r, r.m_State = "Active", ~Capturing(d)
          PROVE  driver # [driver EXCEPT ![d] = r]
      BY <3>1 DEF Capturing, CaptureTyped
    <3>2. /\ m_CaptureTitle' = NoTitle /\ started' = started
          /\ m_CapturesActive' \in {m_CapturesActive, m_CapturesActive + 1}
      BY <1>2, <3>1, StartOnItsThread
    <3> QED  BY <1>1, <2>1, <3>2 DEF PassMove
  <2>4. ThreadsPlaced'
    BY <2>1 DEF ThreadsPlaced, ThreadPlaced, Capturing
  <2> QED  BY <2>1, <2>2, <2>3, <2>4 DEF Moved, Move, CaptureTyped
<1>3. CASE StartedBy(devWnd, fails) # driver
  <2>1. PICK r \in DriverRecords :
           /\ driver' = [driver EXCEPT ![d] = r]
           /\ r.m_State = "Active" /\ r.capture = started + 1
           /\ r.life = driver[d].life
           /\ r.swapchains = driver[d].swapchains
           /\ r.m_SwapLookup = driver[d].m_SwapLookup
    BY <1>3, StartOnItsThread
  <2>2. /\ ~Capturing(d) /\ m_CaptureTitle' = NoTitle /\ started' = started + 1
        /\ m_CapturesActive' = m_CapturesActive + 1
    BY <1>3, StartOnItsThread
  <2>3. driver' \in [Devices -> DriverRecords] /\ driver'[d] = r
    BY <2>1 DEF CaptureTyped
  <2>4. OnlyChanges(d)
    BY <2>1, <2>3 DEF OnlyChanges, CaptureTyped
  <2>5. StartMove(d)
    BY <1>1, <2>1, <2>2, <2>3 DEF StartMove
  <2>6. ThreadPlaced(d)'
    BY <1>1, <2>1, <2>3 DEF ThreadsPlaced, ThreadPlaced
  <2> QED  BY <2>3, <2>4, <2>5, <2>6, OthersStayPlaced DEF Moved, Move, CaptureTyped
<1> QED  BY <1>2, <1>3

(* The end of a capture on the thread of d, by the application or by       *)
(* Present, which ends only what it finds running.                         *)
LEMMA EndOnItsThreadMoves ==
    ASSUME CaptureTyped, ThreadsPlaced, NEW d \in Devices, driver[d].life = "device",
           thread[d].pc \in {"app", "present"},
           NEW devWnd, MatchFrameCapturer(devWnd) \in {NULL, d},
           ApiQueries = {} =>
               /\ MatchFrameCapturer(devWnd) = d /\ Capturing(d)
               /\ devWnd.windowHandle \in {NULL} \cup driver[d].swapchains,
           NEW then \in {"app", "trigger", "next", "first"},
           then = "app" <=> thread[d].pc = "app",
           EndFrameCapture(d, devWnd, then),
           UNCHANGED <<m_CaptureTitle, m_Captures, started>>
    PROVE  Moved(d)
<1> DEFINE c == MatchFrameCapturer(devWnd)
           r == driver[d]
           t == thread[d]
           knownWindow == devWnd.windowHandle \in driver[c].m_SwapLookup \cup {NULL}
<1>1. /\ d # NULL /\ NULL \notin Devices
      /\ r \in DriverRecords /\ t \in ThreadRecords
      /\ t.pc # "write" /\ m_CapturesActive \in Int
  BY PointersNotNull DEF CaptureTyped
<1>2. then # "app" => t.todo # <<>> /\ t.pc # "app"
  BY DEF ThreadsPlaced, ThreadPlaced
<1>3. c \in CapturingDevices <=> c = d /\ Capturing(d)
  BY <1>1 DEF CapturingDevices
<1>4. ASSUME Return(d, then, driver), c \notin CapturingDevices \/ ~knownWindow,
             m_CapturesActive' = IF c = NULL THEN m_CapturesActive ELSE m_CapturesActive - 1,
             UNCHANGED <<m_CurrentLogFile, disk>>
      PROVE  Moved(d)
  <2>1. /\ OnlyChanges(d)
        /\ driver' \in [Devices -> DriverRecords]
        /\ thread' \in [Devices -> ThreadRecords]
        /\ ThreadsPlaced'
        /\ thread'[d].pc # "write"
        /\ driver'[d].m_State = driver[d].m_State
        /\ driver'[d].capture = driver[d].capture
    BY <1>2, <1>4, ReturnPlaced
  <2>2. ApiQueries # {}
    BY <1>3, <1>4 DEF ThreadsPlaced, ThreadPlaced
  <2>3. PassMove(d)
    BY <1>1, <1>4, <2>1, <2>2 DEF PassMove
  <2> QED  BY <2>1, <2>3 DEF Moved, Move
<1>5. ASSUME Return(d, then, [driver EXCEPT ![d] = Discarded(@)]), c = d, Capturing(d),
             m_CapturesActive' = IF c = NULL THEN m_CapturesActive ELSE m_CapturesActive - 1,
             UNCHANGED <<m_CurrentLogFile, disk>>
      PROVE  Moved(d)
  <2> DEFINE drivers == [driver EXCEPT ![d] = Discarded(@)]
  <2>1. /\ OnlyChanges(d)
        /\ driver' \in [Devices -> DriverRecords]
        /\ thread' \in [Devices -> ThreadRecords]
        /\ ThreadsPlaced'
        /\ thread'[d].pc # "write"
        /\ driver'[d].m_State = drivers[d].m_State
        /\ driver'[d].capture = driver[d].capture
    BY <1>2, <1>5, ReturnPlaced
  <2>2. drivers[d].m_State = "Background"
    BY <1>1 DEF Discarded, DriverRecords, CaptureTyped
  <2>3. m_CapturesActive' = m_CapturesActive - 1
    BY <1>1, <1>5
  <2>4. DropMove(d)
    BY <1>1, <1>5, <2>1, <2>2, <2>3 DEF DropMove
  <2> QED  BY <2>1, <2>4 DEF Moved, Move
<1>6. ASSUME c = d, Capturing(d), driver' = [driver EXCEPT ![c].m_State = "Background"],
             m_CurrentLogFile' = CapturePath(driver[c].frameNumber),
             NEW created \in BOOLEAN,
             thread' = [thread EXCEPT
                    ![d].pc = "write", ![d].then = then,
                    ![d].file = [capturer |-> c, created |-> created]],
             disk' = IF created
                     THEN WithFile(CapturePath(driver[c].frameNumber), driver[c].capture)
                     ELSE disk,
             UNCHANGED m_CapturesActive
      PROVE  Moved(d)
  <2>1. /\ driver' = [driver EXCEPT ![d] = [r EXCEPT !.m_State = "Background"]]
        /\ driver'[d] = [r EXCEPT !.m_State = "Background"]
        /\ driver'[d] \in DriverRecords
        /\ driver'[d].life = r.life /\ driver'[d].capture = r.capture
        /\ driver'[d].swapchains = r.swapchains /\ driver'[d].m_SwapLookup = r.m_SwapLookup
        /\ driver'[d].m_State = "Background"
    BY <1>1, <1>6 DEF CaptureTyped, DriverRecords
  <2>2. /\ thread' = [thread EXCEPT ![d] = thread'[d]]
        /\ thread'[d] = [pc |-> "write", todo |-> t.todo, then |-> then,
                         file |-> [capturer |-> d, created |-> created]]
        /\ thread'[d] \in ThreadRecords
    BY <1>1, <1>6 DEF CaptureTyped, ThreadRecords
  <2>3. thread'[d].file.capturer = d /\ thread'[d].file.created = created
    BY <2>2
  <2>4. OnlyChanges(d)
    BY <2>1, <2>2 DEF OnlyChanges, CaptureTyped
  <2>5. driver' \in [Devices -> DriverRecords] /\ thread' \in [Devices -> ThreadRecords]
    BY <2>1, <2>2 DEF CaptureTyped
  <2>6. WriteMove(d)
    BY <1>1, <1>6, <2>1, <2>2, <2>3 DEF WriteMove
  <2>7. \A i \in DOMAIN t.todo : t.todo[i] \in {NULL} \cup r.swapchains
    BY DEF ThreadsPlaced, ThreadPlaced
  <2>8. ThreadPlaced(d)'
    BY <1>2, <2>1, <2>2, <2>3, <2>7 DEF ThreadsPlaced, ThreadPlaced, Capturing
  <2> QED  BY <2>4, <2>5, <2>6, <2>8, OthersStayPlaced DEF Moved, Move
<1>7. \/ /\ c \notin CapturingDevices \/ ~knownWindow
         /\ Return(d, then, driver)
         /\ m_CapturesActive' = IF c = NULL THEN m_CapturesActive ELSE m_CapturesActive - 1
         /\ UNCHANGED <<m_CurrentLogFile, disk>>
      \/ /\ c \in CapturingDevices
         /\ Return(d, then, [driver EXCEPT ![c] = Discarded(@)])
         /\ m_CapturesActive' = IF c = NULL THEN m_CapturesActive ELSE m_CapturesActive - 1
         /\ UNCHANGED <<m_CurrentLogFile, disk>>
      \/ /\ c \in CapturingDevices
         /\ driver' = [driver EXCEPT ![c].m_State = "Background"]
         /\ m_CurrentLogFile' = CapturePath(driver[c].frameNumber)
         /\ \E created \in BOOLEAN :
               /\ thread' = [thread EXCEPT
                    ![d].pc = "write", ![d].then = then,
                    ![d].file = [capturer |-> c, created |-> created]]
               /\ disk' = IF created
                          THEN WithFile(CapturePath(driver[c].frameNumber), driver[c].capture)
                          ELSE disk
         /\ UNCHANGED <<m_CapturesActive>>
  BY DEF EndFrameCapture, WithFile
<1>8. CASE c \notin CapturingDevices
  BY <1>4, <1>7, <1>8
<1>9. CASE c \in CapturingDevices
  <2>1. c = d /\ Capturing(d)
    BY <1>3, <1>9
  <2> HIDE DEF c, knownWindow
  <2> QED  BY <1>4, <1>5, <1>6, <1>7, <2>1
<1> QED  BY <1>8, <1>9

(* A device looks itself up, with any window it has a swapchain on. *)
LEMMA OwnLookup ==
    ASSUME PlacedInv, NEW d \in Devices, driver[d].life \in {"instance", "device"},
           NEW wnd \in {NULL} \cup driver[d].swapchains
    PROVE  MatchFrameCapturer(DeviceOwnedWindow(d, wnd)) = d
<1>1. wnd \in {NULL} \cup Windows
  BY DEF PlacedInv, DriversInv, DriversTyped
<1>2. d \in m_DeviceFrameCapturers /\ (wnd # NULL => DeviceOwnedWindow(d, wnd) \in Registered)
  BY DEF PlacedInv, DriversInv, DriversRegistered
<1> QED  BY <1>1, <1>2, RegisteredMatchesItself DEF PlacedInv, DriversInv, RegistryInv

(* The in-app API and the markers. *)
LEMMA ApiMoves ==
    ASSUME PlacedInv, NEW d \in Devices, NEW devWnd \in ApiQueries,
           \/ ApiStartFrameCapture(d, devWnd)
           \/ ApiEndFrameCapture(d, devWnd)
           \/ ApiDiscardFrameCapture(d, devWnd)
    PROVE  Moved(d)
<1> USE DEF PlacedInv
<1>1. /\ Rendering(d) /\ driver[d].life = "device" /\ thread[d].pc = "app"
      /\ MatchFrameCapturer(devWnd) \in {NULL, d}
  BY DEF ApiStartFrameCapture, ApiEndFrameCapture, ApiDiscardFrameCapture, OnItsThread,
         Rendering, InApp
<1>2. CASE ApiStartFrameCapture(d, devWnd)
  BY <1>1, <1>2, AppStartMoves DEF ApiStartFrameCapture
<1>3. CASE ApiEndFrameCapture(d, devWnd)
  BY <1>1, <1>3, EndOnItsThreadMoves DEF ApiEndFrameCapture
<1>4. CASE ApiDiscardFrameCapture(d, devWnd)
  <2> DEFINE c == MatchFrameCapturer(devWnd)
             drivers == [driver EXCEPT ![d] = Discarded(@)]
  <2>1. d # NULL /\ NULL \notin Devices /\ driver[d] \in DriverRecords
    BY PointersNotNull DEF CaptureTyped
  <2>2. /\ UNCHANGED <<m_CaptureTitle, m_CurrentLogFile, m_Captures, disk, started>>
        /\ m_CapturesActive' \in {m_CapturesActive - 1, m_CapturesActive}
    BY <1>4 DEF ApiDiscardFrameCapture, DiscardFrameCapture
  <2>3. \/ Return(d, "app", driver)
        \/ c \in CapturingDevices /\ Return(d, "app", [driver EXCEPT ![c] = Discarded(@)])
    BY <1>4 DEF ApiDiscardFrameCapture, DiscardFrameCapture
  <2>4. CASE Return(d, "app", driver)
    <3>1. /\ OnlyChanges(d)
          /\ driver' \in [Devices -> DriverRecords]
          /\ thread' \in [Devices -> ThreadRecords]
          /\ ThreadsPlaced'
          /\ thread'[d].pc # "write"
          /\ driver'[d].m_State = driver[d].m_State
          /\ driver'[d].capture = driver[d].capture
      BY <1>1, <2>4, ReturnPlaced
    <3> QED  BY <1>1, <2>2, <3>1 DEF Moved, Move, PassMove
  <2>5. CASE c \in CapturingDevices /\ Return(d, "app", [driver EXCEPT ![c] = Discarded(@)])
    <3>1. c = d
      BY <1>1, <2>1, <2>5 DEF CapturingDevices
    <3>2. /\ OnlyChanges(d)
          /\ driver' \in [Devices -> DriverRecords]
          /\ thread' \in [Devices -> ThreadRecords]
          /\ ThreadsPlaced'
          /\ thread'[d].pc # "write"
          /\ driver'[d].m_State = drivers[d].m_State
          /\ driver'[d].capture = driver[d].capture
      BY <1>1, <2>5, <3>1, ReturnPlaced
    <3>3. drivers[d].m_State = "Background"
      BY <2>1 DEF Discarded, DriverRecords, CaptureTyped
    <3>4. DropMove(d)
      BY <1>1, <2>2, <3>2, <3>3 DEF DropMove
    <3> QED  BY <3>2, <3>4 DEF Moved, Move
  <2> QED  BY <2>3, <2>4, <2>5
<1> QED  BY <1>2, <1>3, <1>4

LEMMA MarkerMoves ==
    ASSUME PlacedInv, NEW d \in Devices, DeviceOwnedWindow(d, NULL) \in ApiQueries,
           BeginMarker(d) \/ EndMarker(d)
    PROVE  Moved(d)
<1> DEFINE devWnd == DeviceOwnedWindow(d, NULL)
<1>1. CASE BeginMarker(d)
  <2>1. Rendering(d) /\ driver[d].life = "device"
    BY <1>1 DEF BeginMarker, Rendering
  <2>2. MatchFrameCapturer(devWnd) = d
    BY <2>1, OwnLookup
  <2> QED  BY <1>1, <2>1, <2>2, AppStartMoves DEF BeginMarker, PlacedInv
<1>2. CASE EndMarker(d)
  BY <1>2, ApiMoves DEF EndMarker
<1> QED  BY <1>1, <1>2

LEMMA QueuePresentMoves ==
    ASSUME PlacedInv, NEW d \in Devices, NEW windows \in PresentLists(d),
           QueuePresent(d, windows)
    PROVE  Moved(d)
<1> USE DEF PlacedInv
<1> DEFINE r == driver[d]
           t == thread[d]
           frame == IF r.m_FrameCounter < MaxFrame THEN r.m_FrameCounter + 1 ELSE r.m_FrameCounter
<1>1. r \in DriverRecords /\ t \in ThreadRecords /\ t.pc = "app" /\ r.life = "device"
  BY DEF CaptureTyped, QueuePresent, Rendering, InApp
<1>2. /\ windows \in Seq({NULL} \cup Windows) /\ windows # <<>>
      /\ \A i \in DOMAIN windows : windows[i] \in {NULL} \cup r.swapchains
  BY PresentListsAreWindows DEF ThreadsPlaced
<1>3. frame \in 0 .. MaxFrame
  BY <1>1, FrameCaptureAssumption DEF DriverRecords
<1>4. /\ driver' = [driver EXCEPT ![d].m_FrameCounter = frame]
      /\ thread' = [thread EXCEPT ![d].pc = "present", ![d].todo = windows]
      /\ UNCHANGED <<m_CapturesActive, m_CaptureTitle, m_CurrentLogFile, m_Captures, disk, started>>
  BY DEF QueuePresent, AdvanceFrame
<1> HIDE DEF frame
<1>5. /\ driver' = [driver EXCEPT ![d] = [r EXCEPT !.m_FrameCounter = frame]]
      /\ driver'[d] = [r EXCEPT !.m_FrameCounter = frame]
      /\ driver'[d] \in DriverRecords
      /\ driver'[d].life = r.life /\ driver'[d].capture = r.capture
      /\ driver'[d].swapchains = r.swapchains /\ driver'[d].m_SwapLookup = r.m_SwapLookup
      /\ driver'[d].m_State = r.m_State
  BY <1>1, <1>3, <1>4 DEF CaptureTyped, DriverRecords
<1>6. /\ thread' = [thread EXCEPT ![d] = thread'[d]]
      /\ thread'[d] = [pc |-> "present", todo |-> windows, then |-> t.then, file |-> t.file]
      /\ thread'[d] \in ThreadRecords
  BY <1>1, <1>2, <1>4 DEF CaptureTyped, ThreadRecords
<1>7. OnlyChanges(d)
  BY <1>5, <1>6 DEF OnlyChanges
<1>8. driver' \in [Devices -> DriverRecords] /\ thread' \in [Devices -> ThreadRecords]
  BY <1>5, <1>6 DEF CaptureTyped
<1>9. PassMove(d)
  BY <1>1, <1>4, <1>5, <1>6 DEF PassMove
<1>10. ThreadPlaced(d)'
  BY <1>1, <1>2, <1>5, <1>6 DEF ThreadsPlaced, ThreadPlaced
<1> QED  BY <1>7, <1>8, <1>9, <1>10, OthersStayPlaced DEF Moved, Move

LEMMA PresentMoves ==
    ASSUME PlacedInv, NEW d \in Devices, Present(d)
    PROVE  Moved(d)
<1> USE DEF PlacedInv
<1> DEFINE wnd == Head(thread[d].todo)
           devWnd == DeviceOwnedWindow(d, wnd)
<1>1. /\ thread[d].pc = "present" /\ driver[d].life = "device"
      /\ thread[d].todo # <<>>
      /\ UNCHANGED <<m_CaptureTitle, m_Captures, started>>
  BY DEF Present, ThreadsPlaced, ThreadPlaced
<1>2. wnd \in {NULL} \cup driver[d].swapchains
  <2>1. thread[d].todo \in Seq({NULL} \cup Windows)
    BY DEF CaptureTyped, ThreadRecords
  <2>2. 1 \in DOMAIN thread[d].todo /\ wnd = thread[d].todo[1]
    BY <1>1, <2>1
  <2> QED  BY <1>1, <2>2 DEF ThreadsPlaced, ThreadPlaced
<1> HIDE DEF wnd
<1>3. MatchFrameCapturer(devWnd) = d /\ MatchFrameCapturer(DeviceOwnedWindow(d, NULL)) = d
  BY <1>1, <1>2, OwnLookup
<1>4. devWnd.windowHandle = wnd /\ DeviceOwnedWindow(d, NULL).windowHandle = NULL
  BY DEF DeviceOwnedWindow
<1>5. \/ Capturing(d) /\ EndFrameCapture(d, DeviceOwnedWindow(d, NULL), "first")
      \/ Capturing(d) /\ EndFrameCapture(d, devWnd, "trigger")
      \/ \E then \in {"next", "trigger"} :
            /\ thread' = [thread EXCEPT ![d] = Continue(@, then)]
            /\ UNCHANGED <<m_CapturesActive, m_CurrentLogFile, disk, driver>>
  BY DEF Present, EndsCapture, wnd
<1>6. CASE Capturing(d) /\ EndFrameCapture(d, DeviceOwnedWindow(d, NULL), "first")
  BY <1>1, <1>3, <1>4, <1>6, EndOnItsThreadMoves
<1>7. CASE Capturing(d) /\ EndFrameCapture(d, devWnd, "trigger")
  BY <1>1, <1>2, <1>3, <1>4, <1>7, EndOnItsThreadMoves
<1>8. ASSUME NEW then \in {"next", "trigger"},
             thread' = [thread EXCEPT ![d] = Continue(@, then)],
             UNCHANGED <<m_CapturesActive, m_CurrentLogFile, disk, driver>>
      PROVE  Moved(d)
  <2>1. Return(d, then, driver)
    BY <1>8 DEF Return, AfterEnd
  <2>2. /\ OnlyChanges(d)
        /\ driver' \in [Devices -> DriverRecords]
        /\ thread' \in [Devices -> ThreadRecords]
        /\ ThreadsPlaced'
        /\ thread'[d].pc # "write"
        /\ driver'[d].m_State = driver[d].m_State
        /\ driver'[d].capture = driver[d].capture
    BY <1>1, <2>1, ReturnPlaced
  <2>3. PassMove(d)
    BY <1>1, <1>8, <2>2 DEF PassMove
  <2> QED  BY <2>2, <2>3 DEF Moved, Move
<1> QED  BY <1>5, <1>6, <1>7, <1>8

LEMMA FinishMoves ==
    ASSUME PlacedInv, NEW d \in Devices, FinishCaptureWriting(d)
    PROVE  Moved(d)
<1> USE DEF PlacedInv
<1> DEFINE then == thread[d].then
<1>1. /\ thread[d].pc = "write" /\ driver[d].life = "device"
      /\ thread[d].file.capturer = d
      /\ then \in {"app", "trigger", "next", "first"}
      /\ then # "app" => thread[d].todo # <<>>
  BY DEF FinishCaptureWriting, ThreadsPlaced, ThreadPlaced, CaptureTyped, ThreadRecords
<1>2. Return(d, then, driver)
  BY DEF FinishCaptureWriting
<1> HIDE DEF then
<1>3. /\ OnlyChanges(d)
      /\ driver' \in [Devices -> DriverRecords]
      /\ thread' \in [Devices -> ThreadRecords]
      /\ ThreadsPlaced'
      /\ thread'[d].pc # "write"
      /\ driver'[d].m_State = driver[d].m_State
      /\ driver'[d].capture = driver[d].capture
  BY <1>1, <1>2, ReturnPlaced
<1>4. FinishMove(d)
  BY <1>1, <1>3 DEF FinishCaptureWriting, FinishMove
<1> QED  BY <1>3, <1>4 DEF Moved, Move

LEMMA PresentTriggerMoves ==
    ASSUME PlacedInv, NEW d \in Devices, PresentTrigger(d)
    PROVE  Moved(d)
<1> USE DEF PlacedInv
<1> DEFINE r == driver[d]
           t == thread[d]
           c == Continue(t, "next")
           wnd == Head(t.todo)
           devWnd == DeviceOwnedWindow(d, wnd)
           frame == r.m_FrameCounter
<1>1. /\ t.pc = "trigger" /\ r.life = "device" /\ t.todo # <<>>
      /\ t \in ThreadRecords /\ r \in DriverRecords /\ d # NULL
      /\ thread' = [thread EXCEPT ![d] = c]
      /\ UNCHANGED <<m_CurrentLogFile, m_Captures, disk>>
  BY PointersNotNull DEF PresentTrigger, ThreadsPlaced, ThreadPlaced, CaptureTyped
<1>2. /\ c \in ThreadRecords
      /\ c.pc \in {"app", "present", "trigger"}
      /\ c.pc = "app" <=> c.todo = <<>>
      /\ \A i \in DOMAIN c.todo : \E j \in DOMAIN t.todo : c.todo[i] = t.todo[j]
  BY <1>1, ContinueTyped
<1>3. \A i \in DOMAIN c.todo : c.todo[i] \in {NULL} \cup r.swapchains
  BY <1>1, <1>2 DEF ThreadsPlaced, ThreadPlaced
<1> HIDE DEF c
<1>4. /\ thread' \in [Devices -> ThreadRecords] /\ thread'[d] = c
      /\ thread' = [thread EXCEPT ![d] = thread'[d]]
  BY <1>1, <1>2 DEF CaptureTyped
<1>5. wnd \in {NULL} \cup r.swapchains
  <2>1. t.todo \in Seq({NULL} \cup Windows)
    BY <1>1 DEF ThreadRecords
  <2>2. 1 \in DOMAIN t.todo /\ wnd = t.todo[1]
    BY <1>1, <2>1
  <2> QED  BY <1>1, <2>2 DEF ThreadsPlaced, ThreadPlaced
<1>6. MatchFrameCapturer(devWnd) = d
  BY <1>1, <1>5, OwnLookup
<1>7. CASE UNCHANGED <<m_CaptureTitle, m_CapturesActive, driver, started>>
  <2>1. OnlyChanges(d)
    BY <1>4, <1>7 DEF OnlyChanges, CaptureTyped
  <2>2. PassMove(d)
    BY <1>1, <1>2, <1>4, <1>7 DEF PassMove, CaptureTyped
  <2>3. ThreadPlaced(d)'
    BY <1>1, <1>2, <1>3, <1>4, <1>7 DEF ThreadsPlaced, ThreadPlaced, Capturing
  <2> QED  BY <1>4, <1>7, <2>1, <2>2, <2>3, OthersStayPlaced DEF Moved, Move, CaptureTyped
<1>8. ASSUME ~Capturing(d), StartFrameCapture(devWnd), NEW fails \in BOOLEAN,
             driver' = AtFrame(StartedBy(devWnd, fails), d, frame)
      PROVE  Moved(d)
  <2>1. PICK s \in DriverRecords :
           /\ StartedBy(devWnd, fails) = [driver EXCEPT ![d] = s]
           /\ s.m_State = "Active" /\ s.capture = started + 1
           /\ s.life = r.life /\ s.swapchains = r.swapchains /\ s.m_SwapLookup = r.m_SwapLookup
    BY <1>6, <1>8, OwnStart
  <2>2. /\ m_CaptureTitle' = NoTitle /\ started' = started + 1
        /\ m_CapturesActive' = m_CapturesActive + 1
    BY <1>6, <1>8, OwnStart
  <2> DEFINE u == [s EXCEPT !.m_AppControlledCapture = FALSE, !.frameNumber = frame]
  <2>3. /\ u \in DriverRecords /\ u.m_State = "Active" /\ u.capture = started + 1
        /\ u.life = r.life /\ u.swapchains = r.swapchains /\ u.m_SwapLookup = r.m_SwapLookup
    <3>1. u = [s EXCEPT !.m_AppControlledCapture = FALSE, !.frameNumber = frame]
      OBVIOUS
    <3> HIDE DEF u, frame
    <3>2. u = [life |-> s.life, m_State |-> s.m_State, m_AppControlledCapture |-> FALSE,
               m_FirstFrameCapture |-> s.m_FirstFrameCapture,
               m_CaptureFailure |-> s.m_CaptureFailure, m_FrameCounter |-> s.m_FrameCounter,
               frameNumber |-> frame, capture |-> s.capture, m_SwapLookup |-> s.m_SwapLookup,
               swapchains |-> s.swapchains]
      BY <2>1, <3>1 DEF DriverRecords
    <3>3. frame \in 0 .. MaxFrame + 1
      BY <1>1, FrameCaptureAssumption DEF DriverRecords, frame
    <3> QED  BY <2>1, <3>2, <3>3 DEF DriverRecords
  <2>4. driver' = [driver EXCEPT ![d] = u]
    BY <1>8, <2>1 DEF AtFrame, CaptureTyped
  <2> HIDE DEF u
  <2>5. driver' \in [Devices -> DriverRecords] /\ driver'[d] = u
    BY <2>3, <2>4 DEF CaptureTyped
  <2>6. OnlyChanges(d)
    BY <1>4, <2>4, <2>5 DEF OnlyChanges
  <2>7. StartMove(d)
    BY <1>1, <1>2, <1>4, <1>8, <2>2, <2>3, <2>5 DEF StartMove
  <2>8. ThreadPlaced(d)'
    BY <1>1, <1>2, <1>3, <1>4, <2>3, <2>5 DEF ThreadsPlaced, ThreadPlaced
  <2> QED  BY <1>4, <2>5, <2>6, <2>7, <2>8, OthersStayPlaced DEF Moved, Move
<1> QED  BY <1>7, <1>8 DEF PresentTrigger

(* vkCreateDevice, with the capture that FirstFrame may start. *)
LEMMA CreateDeviceMoves ==
    ASSUME PlacedInv, NEW d \in Devices, CreateDevice(d)
    PROVE  Moved(d)
<1> USE DEF PlacedInv
<1> DEFINE r == driver[d]
           devWnd == DeviceOwnedWindow(d, NULL)
<1>1. /\ r.life = "instance" /\ r \in DriverRecords /\ d # NULL
      /\ ~Capturing(d) /\ thread[d].pc = "app" /\ thread[d].todo = <<>>
      /\ thread' = thread
      /\ UNCHANGED <<m_CurrentLogFile, m_Captures, disk>>
  BY PointersNotNull DEF CreateDevice, ThreadsPlaced, ThreadPlaced, CaptureTyped
<1>2. MatchFrameCapturer(devWnd) = d
  BY <1>1, OwnLookup
<1>3. CASE driver' = [driver EXCEPT ![d].life = "device"]
           /\ UNCHANGED <<m_CaptureTitle, m_CapturesActive, started>>
  <2> DEFINE u == [r EXCEPT !.life = "device"]
  <2>1. /\ u \in DriverRecords /\ u.m_State = r.m_State /\ u.capture = r.capture
        /\ u.life = "device"
        /\ u.swapchains = r.swapchains /\ u.m_SwapLookup = r.m_SwapLookup
        /\ driver' = [driver EXCEPT ![d] = u]
    BY <1>1, <1>3 DEF DriverRecords, CaptureTyped
  <2> HIDE DEF u
  <2>2. driver' \in [Devices -> DriverRecords] /\ driver'[d] = u
    BY <2>1 DEF CaptureTyped
  <2>3. OnlyChanges(d)
    BY <1>1, <2>1, <2>2 DEF OnlyChanges, CaptureTyped
  <2>4. PassMove(d)
    BY <1>1, <1>3, <2>1, <2>2 DEF PassMove
  <2>5. ThreadPlaced(d)'
    BY <1>1, <2>1, <2>2 DEF ThreadsPlaced, ThreadPlaced
  <2> QED  BY <1>1, <2>2, <2>3, <2>4, <2>5, OthersStayPlaced DEF Moved, Move, CaptureTyped
<1>4. ASSUME StartFrameCapture(devWnd), NEW fails \in BOOLEAN,
             driver' = [AtFrame(StartedBy(devWnd, fails), d, 0) EXCEPT
                            ![d].m_FirstFrameCapture = TRUE, ![d].life = "device"]
      PROVE  Moved(d)
  <2>1. PICK s \in DriverRecords :
           /\ StartedBy(devWnd, fails) = [driver EXCEPT ![d] = s]
           /\ s.m_State = "Active" /\ s.capture = started + 1
           /\ s.life = r.life /\ s.swapchains = r.swapchains /\ s.m_SwapLookup = r.m_SwapLookup
    BY <1>1, <1>2, <1>4, OwnStart
  <2>2. /\ m_CaptureTitle' = NoTitle /\ started' = started + 1
        /\ m_CapturesActive' = m_CapturesActive + 1
    BY <1>1, <1>2, <1>4, OwnStart
  <2> DEFINE u == [s EXCEPT !.m_AppControlledCapture = FALSE, !.frameNumber = 0,
                            !.m_FirstFrameCapture = TRUE, !.life = "device"]
  <2>3. /\ u \in DriverRecords /\ u.m_State = "Active" /\ u.capture = started + 1
        /\ u.life = "device" /\ u.swapchains = r.swapchains /\ u.m_SwapLookup = r.m_SwapLookup
    <3>1. u = [s EXCEPT !.m_AppControlledCapture = FALSE, !.frameNumber = 0,
                        !.m_FirstFrameCapture = TRUE, !.life = "device"]
      OBVIOUS
    <3> HIDE DEF u
    <3>2. u = [life |-> "device", m_State |-> s.m_State, m_AppControlledCapture |-> FALSE,
               m_FirstFrameCapture |-> TRUE,
               m_CaptureFailure |-> s.m_CaptureFailure, m_FrameCounter |-> s.m_FrameCounter,
               frameNumber |-> 0, capture |-> s.capture, m_SwapLookup |-> s.m_SwapLookup,
               swapchains |-> s.swapchains]
      BY <2>1, <3>1 DEF DriverRecords
    <3>3. 0 \in 0 .. MaxFrame + 1
      BY FrameCaptureAssumption
    <3> QED  BY <2>1, <3>2, <3>3 DEF DriverRecords
  <2>4. AtFrame(StartedBy(devWnd, fails), d, 0) =
            [driver EXCEPT ![d] = [s EXCEPT !.m_AppControlledCapture = FALSE, !.frameNumber = 0]]
    BY <2>1 DEF AtFrame, CaptureTyped
  <2>5. driver' = [driver EXCEPT ![d] = u]
    BY <1>4, <2>1, <2>4 DEF CaptureTyped, DriverRecords
  <2> HIDE DEF u
  <2>6. driver' \in [Devices -> DriverRecords] /\ driver'[d] = u
    BY <2>3, <2>5 DEF CaptureTyped
  <2>7. OnlyChanges(d)
    BY <1>1, <2>5, <2>6 DEF OnlyChanges, CaptureTyped
  <2>8. StartMove(d)
    BY <1>1, <2>2, <2>3, <2>6 DEF StartMove
  <2>9. ThreadPlaced(d)'
    BY <1>1, <2>3, <2>6 DEF ThreadsPlaced, ThreadPlaced
  <2> QED  BY <1>1, <2>6, <2>7, <2>8, <2>9, OthersStayPlaced DEF Moved, Move, CaptureTyped
<1> QED  BY <1>3, <1>4 DEF CreateDevice

(* The rest of the life of a device and its windows starts and ends no     *)
(* capture, except that a destroyed device leaves the one it was in.       *)
LEMMA LifecycleMoves ==
    ASSUME PlacedInv, NEW d \in Devices, Lifecycle(d)
    PROVE  Moved(d)
<1> USE DEF PlacedInv
<1> DEFINE r == driver[d]
<1>1. r \in DriverRecords
  BY DEF CaptureTyped
<1>2. ASSUME NEW u \in DriverRecords, driver' = [driver EXCEPT ![d] = u],
             u.m_State = r.m_State, u.capture = r.capture,
             u.life = r.life \/ (u.life = "instance" /\ r.life = "none"),
             thread[d].pc = "app" \/ r.life = "none",
             IsFiniteSet(u.swapchains), u.swapchains \subseteq u.m_SwapLookup,
             UNCHANGED <<coreVars, thread, started>>
      PROVE  Moved(d)
  <2>1. driver' \in [Devices -> DriverRecords] /\ driver'[d] = u
    BY <1>2 DEF CaptureTyped
  <2>2. OnlyChanges(d)
    BY <1>2, <2>1 DEF OnlyChanges, CaptureTyped
  <2>3. thread[d].pc = "app" /\ thread' = thread
    BY <1>2 DEF ThreadsPlaced, ThreadPlaced
  <2>4. PassMove(d)
    BY <1>2, <2>1, <2>3 DEF PassMove, coreVars
  <2>5. ThreadPlaced(d)'
    BY <1>2, <2>1, <2>3 DEF ThreadsPlaced, ThreadPlaced, Capturing
  <2> QED  BY <2>1, <2>2, <2>3, <2>4, <2>5, OthersStayPlaced DEF Moved, Move, CaptureTyped
<1>3. IsFiniteSet(r.swapchains) /\ r.swapchains \subseteq r.m_SwapLookup
  BY DEF ThreadsPlaced, ThreadPlaced
<1>4. CASE CreateInstance(d)
  <2> DEFINE u == [r EXCEPT !.life = "instance"]
  <2>1. /\ u \in DriverRecords /\ u.m_State = r.m_State /\ u.capture = r.capture
        /\ u.life = "instance" /\ r.life = "none"
        /\ u.swapchains = r.swapchains /\ u.m_SwapLookup = r.m_SwapLookup
        /\ driver' = [driver EXCEPT ![d] = u]
        /\ UNCHANGED <<coreVars, thread, started>>
    BY <1>1, <1>4 DEF CreateInstance, DriverRecords, CaptureTyped
  <2> HIDE DEF u
  <2> QED  BY <1>2, <1>3, <2>1
<1>5. CASE CreateDevice(d)
  BY <1>5, CreateDeviceMoves
<1>6. ASSUME NEW wnd \in Windows, CreateSurface(d, wnd) \/ DestroySurface(d, wnd)
      PROVE  Moved(d)
  <2>1. /\ UNCHANGED <<coreVars, driver, thread, started>> /\ thread[d].pc = "app"
        /\ driver' = [driver EXCEPT ![d] = r]
    BY <1>6 DEF CreateSurface, DestroySurface, InApp, CaptureTyped
  <2> QED  BY <1>1, <1>2, <1>3, <2>1
<1>7. ASSUME NEW wnd \in Windows, CreateSwapchain(d, wnd)
      PROVE  Moved(d)
  <2> DEFINE u == [r EXCEPT !.swapchains = @ \cup {wnd}, !.m_SwapLookup = @ \cup {wnd}]
  <2>1. /\ u \in DriverRecords /\ u.m_State = r.m_State /\ u.capture = r.capture
        /\ u.life = r.life
        /\ u.swapchains = r.swapchains \cup {wnd} /\ u.m_SwapLookup = r.m_SwapLookup \cup {wnd}
    BY <1>1 DEF DriverRecords
  <2>2. driver' = [driver EXCEPT ![d] = u]
    BY <1>7 DEF CreateSwapchain, CaptureTyped
  <2>3. UNCHANGED <<coreVars, thread, started>> /\ thread[d].pc = "app"
    BY <1>7 DEF CreateSwapchain, Rendering, InApp
  <2> HIDE DEF u
  <2>4. IsFiniteSet(u.swapchains)
    BY <1>3, <2>1, FS_AddElement
  <2> QED  BY <1>2, <1>3, <2>1, <2>2, <2>3, <2>4
<1>8. ASSUME NEW wnd \in Windows, DestroySwapchain(d, wnd)
      PROVE  Moved(d)
  <2> DEFINE u == [r EXCEPT !.swapchains = @ \ {wnd}]
  <2>1. /\ u \in DriverRecords /\ u.m_State = r.m_State /\ u.capture = r.capture
        /\ u.life = r.life
        /\ u.swapchains = r.swapchains \ {wnd} /\ u.m_SwapLookup = r.m_SwapLookup
    BY <1>1 DEF DriverRecords
  <2>2. driver' = [driver EXCEPT ![d] = u]
    BY <1>8 DEF DestroySwapchain, CaptureTyped
  <2>3. UNCHANGED <<coreVars, thread, started>> /\ thread[d].pc = "app"
    BY <1>8 DEF DestroySwapchain, Rendering, InApp
  <2> HIDE DEF u
  <2>4. IsFiniteSet(u.swapchains)
    BY <1>3, <2>1, FS_RemoveElement
  <2> QED  BY <1>2, <1>3, <2>1, <2>2, <2>3, <2>4
<1>9. CASE DestroyInstance(d)
  <2> DEFINE u == [NewDriver EXCEPT !.life = "destroyed"]
  <2>1. /\ u \in DriverRecords /\ u.m_State = "Background" /\ u.capture = 0
        /\ u.life = "destroyed" /\ u.swapchains = {} /\ u.m_SwapLookup = {}
    <3>1. u = [NewDriver EXCEPT !.life = "destroyed"]
      OBVIOUS
    <3> HIDE DEF u
    <3>2. u = [life |-> "destroyed", m_State |-> "Background", m_AppControlledCapture |-> FALSE,
               m_FirstFrameCapture |-> FALSE, m_CaptureFailure |-> FALSE, m_FrameCounter |-> 0,
               frameNumber |-> NoFrameNumber, capture |-> 0, m_SwapLookup |-> {},
               swapchains |-> {}]
      BY <3>1 DEF NewDriver
    <3>3. NoFrameNumber \in 0 .. MaxFrame + 1 /\ 0 \in 0 .. MaxFrame
      BY FrameCaptureAssumption DEF NoFrameNumber
    <3> QED  BY <3>2, <3>3 DEF DriverRecords
  <2>2. driver' = [driver EXCEPT ![d] = u]
    BY <1>9 DEF DestroyInstance
  <2>3. UNCHANGED <<coreVars, thread, started>> /\ thread[d].pc = "app"
    BY <1>9 DEF DestroyInstance, Rendering, InApp
  <2> HIDE DEF u
  <2>4. driver' \in [Devices -> DriverRecords] /\ driver'[d] = u
    BY <2>1, <2>2 DEF CaptureTyped
  <2>5. OnlyChanges(d)
    BY <2>2, <2>3, <2>4 DEF OnlyChanges, CaptureTyped
  <2>6. DropMove(d)
    BY <2>1, <2>3, <2>4 DEF DropMove, coreVars, CaptureTyped
  <2>7. ThreadPlaced(d)'
    BY <2>1, <2>3, <2>4, FS_EmptySet DEF ThreadsPlaced, ThreadPlaced, Capturing
  <2> QED  BY <2>3, <2>4, <2>5, <2>6, <2>7, OthersStayPlaced DEF Moved, Move, CaptureTyped
<1> QED  BY <1>4, <1>5, <1>6, <1>7, <1>8, <1>9 DEF Lifecycle

-----------------------------------------------------------------------------
(* n captures cannot take all of n + 1 names, so the name of a capture     *)
(* file is one that no listed capture has.                                 *)
LEMMA CapturePathFresh ==
    ASSUME m_Captures \in Seq(CaptureRecords), NEW frame
    PROVE  \E alt \in Nat :
              /\ CapturePath(frame) = <<frame, alt>>
              /\ \A i \in DOMAIN m_Captures : m_Captures[i].path # <<frame, alt>>
<1> DEFINE n == Len(m_Captures)
           Listed(alt) == \E i \in DOMAIN m_Captures : m_Captures[i].path = <<frame, alt>>
           IsIt(alt) == ~Listed(alt) /\ \A a \in 1 .. alt - 1 : Listed(a)
           T == {alt \in 1 .. n + 1 : ~Listed(alt)}
<1>1. n \in Nat /\ DOMAIN m_Captures = 1 .. n
  OBVIOUS
<1>2. T # {}
  <2> SUFFICES ASSUME \A alt \in 1 .. n + 1 : Listed(alt)
               PROVE  FALSE
    BY DEF T
  <2> DEFINE f == [alt \in 1 .. n + 1 |-> CHOOSE i \in 1 .. n : m_Captures[i].path = <<frame, alt>>]
  <2>1. \A alt \in 1 .. n + 1 : f[alt] \in 1 .. n /\ m_Captures[f[alt]].path = <<frame, alt>>
    BY <1>1
  <2>2. f \in [1 .. n + 1 -> 1 .. n]
    BY <2>1
  <2>3. /\ IsFiniteSet(1 .. n + 1) /\ IsFiniteSet(1 .. n)
        /\ Cardinality(1 .. n) < Cardinality(1 .. n + 1)
    <3> HIDE DEF n
    <3>1. 1 \in Int /\ n \in Int /\ n + 1 \in Int
      BY <1>1
    <3>2. Cardinality(1 .. n) = n /\ Cardinality(1 .. n + 1) = n + 1
      BY <1>1, <3>1, FS_Interval
    <3> QED  BY <1>1, <3>1, <3>2, FS_Interval
  <2> HIDE DEF f, n, Listed
  <2>4. PICK x \in 1 .. n + 1, y \in 1 .. n + 1 : x # y /\ f[x] = f[y]
    BY <2>2, <2>3, FS_PigeonHole
  <2>5. <<frame, x>> = <<frame, y>>
    BY <2>1, <2>4
  <2> QED  BY <2>4, <2>5
<1> HIDE DEF Listed
<1>3. PICK least \in T : \A y \in T : least <= y
  <2>1. T \subseteq Nat
    BY <1>1
  <2> QED  BY <1>2, <2>1, LeastNat
<1>4. least \in 1 .. n + 1 /\ IsIt(least)
  BY <1>1, <1>3
<1> DEFINE alt == CHOOSE a \in 1 .. n + 1 : IsIt(a)
<1>5. alt \in 1 .. n + 1 /\ IsIt(alt)
  BY <1>4
<1>6. CapturePath(frame) = <<frame, alt>>
  BY DEF CapturePath, Listed
<1> HIDE DEF alt
<1> QED  BY <1>1, <1>5, <1>6 DEF Listed

(* A move keeps the types. *)
LEMMA MovedTyped ==
    ASSUME CaptureTyped, NEW d \in Devices, Moved(d)
    PROVE  CaptureTyped'
<1>1. /\ driver' \in [Devices -> DriverRecords] /\ thread' \in [Devices -> ThreadRecords]
      /\ driver[d] \in DriverRecords
      /\ StartMove(d) \/ PassMove(d) \/ DropMove(d) \/ WriteMove(d) \/ FinishMove(d)
  BY DEF Moved, Move, CaptureTyped
<1>2. CASE StartMove(d) \/ PassMove(d) \/ DropMove(d)
  <2>1. m_CapturesActive' \in Int
    BY <1>2 DEF StartMove, PassMove, DropMove, CaptureTyped
  <2>2. m_CaptureTitle' \subseteq Nat /\ started' \in Nat
    <3>1. m_CaptureTitle' \in {NoTitle, m_CaptureTitle}
      BY <1>2 DEF StartMove, PassMove, DropMove
    <3>2. started' \in {started, started + 1}
      BY <1>2 DEF StartMove, PassMove, DropMove
    <3>3. m_CaptureTitle' = {} \/ m_CaptureTitle' = m_CaptureTitle
      BY <3>1 DEF NoTitle
    <3>4. m_CaptureTitle \subseteq Nat /\ started \in Nat
      BY DEF CaptureTyped
    <3>5. m_CaptureTitle' \subseteq Nat
      BY <3>3, <3>4
    <3>6. started' \in Nat
      BY <3>2, <3>4
    <3> QED  BY <3>5, <3>6
  <2>3. UNCHANGED <<m_CurrentLogFile, m_Captures>>
    BY <1>2 DEF StartMove, PassMove, DropMove
  <2> QED  BY <1>1, <2>1, <2>2, <2>3 DEF CaptureTyped
<1>3. CASE WriteMove(d)
  <2>1. PICK alt \in Nat : CapturePath(driver[d].frameNumber) = <<driver[d].frameNumber, alt>>
    BY CapturePathFresh DEF CaptureTyped
  <2>2. m_CurrentLogFile' \in (0 .. MaxFrame + 1) \X Nat
    BY <1>1, <1>3, <2>1 DEF WriteMove, DriverRecords
  <2> QED  BY <1>1, <1>3, <2>2 DEF WriteMove, CaptureTyped
<1>4. CASE FinishMove(d)
  <2>1. [path |-> m_CurrentLogFile, title |-> m_CaptureTitle,
         frameNumber |-> driver[d].frameNumber, capture |-> driver[d].capture] \in CaptureRecords
    BY <1>1 DEF CaptureTyped, CaptureRecords, DriverRecords
  <2>2. m_Captures' \in Seq(CaptureRecords)
    <3>1. m_Captures \in Seq(CaptureRecords)
      BY DEF CaptureTyped
    <3> QED  BY <1>4, <2>1, <3>1 DEF FinishMove
  <2>3. m_CaptureTitle' \subseteq Nat
    BY <1>4 DEF FinishMove, CaptureTyped, NoTitle
  <2>4. m_CapturesActive' \in Int /\ UNCHANGED <<m_CurrentLogFile, started>>
    BY <1>4 DEF FinishMove, CaptureTyped
  <2> QED  BY <1>1, <2>2, <2>3, <2>4 DEF CaptureTyped
<1> QED  BY <1>1, <1>2, <1>3, <1>4

(* Every step is a move on one device, or sets a title at most. *)
LEMMA StepMoves ==
    ASSUME PlacedInv, [Next]_vars
    PROVE  (\E d \in Devices : Moved(d)) \/ TitleMove
<1>1. CASE \/ UNCHANGED vars
           \/ \E n \in MultiCounts : TriggerCapture(n)
           \/ \E frame \in QueuedFrames : QueueCapture(frame)
           \/ CycleActiveWindow
           \/ SetCaptureTitle
           \/ \E devWnd \in ApiQueries : ApiSetActiveWindow(devWnd)
  BY <1>1 DEF vars, coreVars, TriggerCapture, QueueCapture, CycleActiveWindow, SetCaptureTitle,
              ApiSetActiveWindow, TitleMove
<1>2. ASSUME NEW d \in Devices, NEW devWnd \in ApiQueries,
             \/ ApiStartFrameCapture(d, devWnd)
             \/ ApiEndFrameCapture(d, devWnd)
             \/ ApiDiscardFrameCapture(d, devWnd)
      PROVE  \E e \in Devices : Moved(e)
  BY <1>2, ApiMoves
<1>3. ASSUME NEW d \in Devices,
             \/ /\ DeviceOwnedWindow(d, NULL) \in ApiQueries
                /\ BeginMarker(d) \/ EndMarker(d)
             \/ \E windows \in PresentLists(d) : QueuePresent(d, windows)
             \/ DriverStep(d)
             \/ Lifecycle(d)
      PROVE  Moved(d)
  BY <1>3, MarkerMoves, QueuePresentMoves, PresentMoves, PresentTriggerMoves, FinishMoves,
     LifecycleMoves DEF DriverStep
<1> QED  BY <1>1, <1>2, <1>3 DEF Next

LEMMA InitPlaced == Init => CaptureTyped /\ ThreadsPlaced
<1> SUFFICES ASSUME Init PROVE CaptureTyped /\ ThreadsPlaced
  OBVIOUS
<1>1. NewDriver \in DriverRecords
  BY FrameCaptureAssumption DEF NewDriver, DriverRecords, NoFrameNumber
<1>2. IdleThread \in ThreadRecords
  BY DEF IdleThread, NoFile, ThreadRecords
<1>3. m_CurrentLogFile \in (0 .. MaxFrame + 1) \X Nat
  BY FrameCaptureAssumption DEF Init
<1>4. CaptureTyped
  BY <1>1, <1>2, <1>3 DEF Init, CaptureTyped, NoTitle
<1>5. ThreadsPlaced
  BY FS_EmptySet DEF Init, ThreadsPlaced, ThreadPlaced, NewDriver, IdleThread, Capturing
<1> QED  BY <1>4, <1>5

LEMMA PlacedStep ==
    PlacedInv /\ [Next]_vars => CaptureTyped' /\ ThreadsPlaced'
<1> SUFFICES ASSUME PlacedInv, [Next]_vars
             PROVE  CaptureTyped' /\ ThreadsPlaced'
  OBVIOUS
<1>1. CASE TitleMove
  <2>1. \A d \in Devices : thread[d].pc = "write" => thread[d].file.capturer = d
    BY DEF PlacedInv, ThreadsPlaced, ThreadPlaced
  <2>2. InProgress \subseteq Nat
    BY <2>1 DEF PlacedInv, CaptureTyped, DriverRecords, InProgress, CapturingDevices
  <2>3. CaptureTyped'
    BY <1>1, <2>2 DEF TitleMove, PlacedInv, CaptureTyped
  <2>4. ThreadsPlaced'
    BY <1>1 DEF TitleMove, PlacedInv, ThreadsPlaced, ThreadPlaced, Capturing
  <2> QED  BY <2>3, <2>4
<1>2. ASSUME NEW d \in Devices, Moved(d)
      PROVE  CaptureTyped' /\ ThreadsPlaced'
  BY <1>2, MovedTyped DEF Moved, PlacedInv
<1> QED  BY <1>1, <1>2, StepMoves

LEMMA SpecPlacedInv == Spec => []PlacedInv
<1>1. PlacedInv <=> DriversInv /\ MatchComplete /\ CaptureTyped /\ ThreadsPlaced
  BY DEF PlacedInv
<1> QED  BY <1>1, InitPlaced, PlacedStep, SpecDriversInv, FrameCaptureMatchComplete, PTL DEF Spec

-----------------------------------------------------------------------------
(* Captures in progress *)

Busy(d) == Capturing(d) \/ thread[d].pc = "write"

LEMMA InProgressIsBusy ==
    ASSUME ThreadsPlaced, CaptureTyped
    PROVE  InProgress = {driver[d].capture : d \in {e \in Devices : Busy(e)}}
<1>1. \A d \in Devices : thread[d].pc = "write" => thread[d].file.capturer = d
  BY DEF ThreadsPlaced, ThreadPlaced
<1> QED  BY <1>1 DEF InProgress, Busy, CapturingDevices

(* Only a start makes a device busy, and only a start renumbers one. *)
LEMMA BusyBefore ==
    ASSUME CaptureTyped, NEW d \in Devices, Moved(d), ~StartMove(d),
           NEW e \in Devices, Busy(e)'
    PROVE  Busy(e) /\ driver'[e].capture = driver[e].capture
<1>1. CASE e # d
  <2>1. driver'[e] = driver[e] /\ thread'[e] = thread[e]
    BY <1>1 DEF Moved, Move, OnlyChanges, CaptureTyped
  <2> QED  BY <2>1 DEF Busy, Capturing
<1>2. CASE e = d
  <2>1. CASE PassMove(d) \/ FinishMove(d)
    BY <1>2, <2>1 DEF PassMove, FinishMove, Busy, Capturing
  <2>2. CASE DropMove(d)
    BY <1>2, <2>2 DEF DropMove, Busy, Capturing
  <2>3. CASE WriteMove(d)
    <3>1. driver'[d].capture = driver[d].capture
      BY <2>3 DEF WriteMove, CaptureTyped, DriverRecords
    <3> QED  BY <1>2, <2>3, <3>1 DEF WriteMove, Busy
  <2> QED  BY <2>1, <2>2, <2>3 DEF Moved, Move
<1> QED  BY <1>1, <1>2

(* Once a title is set, it names every capture in progress until one of    *)
(* them is listed with it: whatever starts later drops it.                 *)
TitleCovers ==
    m_CaptureTitle # NoTitle => 0 \in m_CaptureTitle /\ InProgress \subseteq m_CaptureTitle

TitleInv == TitleCovers /\ TitleBelongsToCapture

LEMMA TitleStep == PlacedInv /\ PlacedInv' /\ TitleInv /\ [Next]_vars => TitleInv'
<1> SUFFICES ASSUME PlacedInv, PlacedInv', TitleInv, [Next]_vars
             PROVE  TitleInv'
  OBVIOUS
<1> USE DEF PlacedInv, TitleInv
<1>1. CASE TitleMove
  <2>1. InProgress' = InProgress
    BY <1>1 DEF TitleMove, InProgress, CapturingDevices, Capturing
  <2> QED  BY <1>1, <2>1 DEF TitleMove, TitleCovers, TitleBelongsToCapture
<1>2. ASSUME NEW d \in Devices, Moved(d)
      PROVE  TitleInv'
  <2>1. \/ m_CaptureTitle' = NoTitle
        \/ m_CaptureTitle' = m_CaptureTitle /\ ~StartMove(d)
    BY <1>2 DEF Moved, Move, StartMove, PassMove, DropMove, WriteMove, FinishMove
  <2>2. TitleCovers'
    <3>1. SUFFICES ASSUME m_CaptureTitle' = m_CaptureTitle, ~StartMove(d),
                          m_CaptureTitle # NoTitle
                   PROVE  InProgress' \subseteq m_CaptureTitle /\ 0 \in m_CaptureTitle
      BY <2>1 DEF TitleCovers
    <3>2. \A e \in Devices : Busy(e)' => Busy(e) /\ driver'[e].capture = driver[e].capture
      BY <1>2, <3>1, BusyBefore
    <3>3. InProgress' \subseteq InProgress
      <4>1. InProgress = {driver[e].capture : e \in {f \in Devices : Busy(f)}}
        BY InProgressIsBusy
      <4>2. InProgress' = {driver'[e].capture : e \in {f \in Devices : Busy(f)'}}
        <5>1. \A e \in Devices : thread'[e].pc = "write" => thread'[e].file.capturer = e
          BY DEF ThreadsPlaced, ThreadPlaced
        <5> QED  BY <5>1 DEF InProgress, Busy, CapturingDevices
      <4> QED  BY <3>2, <4>1, <4>2
    <3> QED  BY <3>1, <3>3 DEF TitleCovers
  <2>3. TitleBelongsToCapture'
    <3>1. CASE UNCHANGED m_Captures
      BY <3>1 DEF TitleBelongsToCapture
    <3>2. CASE FinishMove(d) /\ thread[d].file.created
      <4> DEFINE new == [path |-> m_CurrentLogFile, title |-> m_CaptureTitle,
                         frameNumber |-> driver[d].frameNumber, capture |-> driver[d].capture]
      <4>1. m_Captures' = Append(m_Captures, new)
        BY <3>2 DEF FinishMove
      <4>2. driver[d].capture \in InProgress
        BY <3>2, InProgressIsBusy DEF FinishMove, Busy
      <4>3. new.title # NoTitle => new.capture \in new.title
        BY <4>2 DEF TitleCovers
      <4> HIDE DEF new
      <4>4. m_Captures \in Seq(CaptureRecords)
        BY DEF CaptureTyped
      <4>5. ASSUME NEW i \in DOMAIN m_Captures'
            PROVE  \/ m_Captures'[i] = new
                   \/ i \in DOMAIN m_Captures /\ m_Captures'[i] = m_Captures[i]
        BY <4>1, <4>4, <4>5
      <4> QED  BY <4>3, <4>5 DEF TitleBelongsToCapture
    <3> QED  BY <1>2, <3>1, <3>2 DEF Moved, Move, StartMove, PassMove, DropMove, WriteMove,
                                     FinishMove
  <2> QED  BY <2>2, <2>3
<1> QED  BY <1>1, <1>2, StepMoves

(* A listed capture with a title was in progress when the title was set,   *)
(* for any number of devices, windows, requests and API calls.             *)
THEOREM TitlesBelongToCaptures == Spec => []TitleBelongsToCapture
<1>1. Init => TitleInv
  BY DEF Init, TitleInv, TitleCovers, TitleBelongsToCapture
<1>2. TitleInv => TitleBelongsToCapture
  BY DEF TitleInv
<1> QED  BY <1>1, <1>2, TitleStep, SpecPlacedInv, PTL DEF Spec

-----------------------------------------------------------------------------
(* The counter behind IsFrameCapturing *)

BusyDevices == {d \in Devices : Busy(d)}

CountInv == Cardinality(BusyDevices) <= m_CapturesActive

(* A device begins or ends to be busy. *)
LEMMA OneMoreOrLess ==
    ASSUME NEW S, NEW d, IsFiniteSet(S)
    PROVE  /\ IsFiniteSet(S \cup {d}) /\ IsFiniteSet(S \ {d})
           /\ {Cardinality(S), Cardinality(S \cup {d}), Cardinality(S \ {d})} \subseteq Nat
           /\ Cardinality(S \cup {d}) <= Cardinality(S) + 1
           /\ d \in S => Cardinality(S \ {d}) = Cardinality(S) - 1
<1>1. Cardinality(S) \in Nat
  BY FS_CardinalityType
<1>2. /\ IsFiniteSet(S \cup {d})
      /\ Cardinality(S \cup {d}) = IF d \in S THEN Cardinality(S) ELSE Cardinality(S) + 1
  BY FS_AddElement
<1>3. /\ IsFiniteSet(S \ {d})
      /\ Cardinality(S \ {d}) = IF d \in S THEN Cardinality(S) - 1 ELSE Cardinality(S)
  BY FS_RemoveElement
<1>4. Cardinality(S \cup {d}) \in Nat /\ Cardinality(S \ {d}) \in Nat
  BY <1>2, <1>3, FS_CardinalityType
<1> QED  BY <1>1, <1>2, <1>3, <1>4

LEMMA CountStep ==
    ASSUME IsFiniteSet(Devices), ApiQueries = {}
    PROVE  PlacedInv /\ PlacedInv' /\ CountInv /\ [Next]_vars => CountInv'
<1> SUFFICES ASSUME PlacedInv, PlacedInv', CountInv, [Next]_vars
             PROVE  CountInv'
  OBVIOUS
<1> USE DEF PlacedInv, CountInv
<1>1. IsFiniteSet(BusyDevices) /\ Cardinality(BusyDevices) \in Nat /\ m_CapturesActive \in Int
  BY FS_Subset, FS_CardinalityType DEF BusyDevices, CaptureTyped
<1>2. CASE TitleMove
  BY <1>2 DEF TitleMove, BusyDevices, Busy, Capturing
<1>3. ASSUME NEW d \in Devices, Moved(d)
      PROVE  CountInv'
  <2>1. \A e \in Devices : e # d => (Busy(e)' <=> Busy(e))
    BY <1>3 DEF Moved, Move, OnlyChanges, CaptureTyped, Busy, Capturing
  <2>2. /\ IsFiniteSet(BusyDevices \cup {d}) /\ IsFiniteSet(BusyDevices \ {d})
        /\ {Cardinality(BusyDevices), Cardinality(BusyDevices \cup {d}),
            Cardinality(BusyDevices \ {d})} \subseteq Nat
        /\ Cardinality(BusyDevices \cup {d}) <= Cardinality(BusyDevices) + 1
        /\ d \in BusyDevices => Cardinality(BusyDevices \ {d}) = Cardinality(BusyDevices) - 1
    <3> HIDE DEF PlacedInv, CountInv
    <3>1. IsFiniteSet(BusyDevices)
      BY <1>1
    <3> QED  BY <3>1, OneMoreOrLess
  <2>3. CASE StartMove(d)
    <3>1. BusyDevices' = BusyDevices \cup {d}
      BY <2>1, <2>3 DEF StartMove, BusyDevices, Busy, Capturing
    <3>2. m_CapturesActive' = m_CapturesActive + 1
      BY <2>3 DEF StartMove
    <3>3. Cardinality(BusyDevices') \in Nat /\ Cardinality(BusyDevices') <= Cardinality(BusyDevices) + 1
      BY <2>2, <3>1
    <3> HIDE DEF PlacedInv
    <3> QED  BY <1>1, <3>2, <3>3
  <2>4. CASE PassMove(d) \/ WriteMove(d)
    <3>1. BusyDevices' = BusyDevices
      BY <2>1, <2>4 DEF PassMove, WriteMove, BusyDevices, Busy, Capturing
    <3>2. m_CapturesActive' = m_CapturesActive
      BY <2>4 DEF PassMove, WriteMove
    <3> QED  BY <3>1, <3>2
  <2>5. CASE DropMove(d)
    <3>1. BusyDevices' = BusyDevices \ {d}
      BY <2>1, <2>5 DEF DropMove, BusyDevices, Busy, Capturing
    <3>2. d \in BusyDevices <=> Capturing(d)
      BY <2>5 DEF DropMove, BusyDevices, Busy
    <3>3. CASE Capturing(d)
      <4>1. m_CapturesActive' >= m_CapturesActive - 1
        BY <1>1, <2>5 DEF DropMove
      <4>2. m_CapturesActive' \in Int /\ Cardinality(BusyDevices) <= m_CapturesActive
        BY DEF CaptureTyped
      <4>3. Cardinality(BusyDevices') = Cardinality(BusyDevices) - 1
        BY <2>2, <3>1, <3>2, <3>3
      <4> HIDE DEF PlacedInv
      <4> QED  BY <1>1, <4>1, <4>2, <4>3
    <3>4. CASE ~Capturing(d)
      <4>1. BusyDevices' = BusyDevices /\ m_CapturesActive' = m_CapturesActive
        BY <2>5, <3>1, <3>2, <3>4 DEF DropMove
      <4> QED  BY <4>1
    <3> QED  BY <3>3, <3>4
  <2>6. CASE FinishMove(d)
    <3>1. ~Capturing(d) /\ thread[d].pc = "write"
      BY <2>6 DEF FinishMove, ThreadsPlaced, ThreadPlaced
    <3>2. d \in BusyDevices /\ BusyDevices' = BusyDevices \ {d}
      BY <2>1, <2>6, <3>1 DEF FinishMove, BusyDevices, Busy, Capturing
    <3>3. m_CapturesActive' = m_CapturesActive - 1
      BY <2>6 DEF FinishMove
    <3>4. Cardinality(BusyDevices') = Cardinality(BusyDevices) - 1
      BY <2>2, <3>2
    <3> HIDE DEF PlacedInv
    <3> QED  BY <1>1, <3>3, <3>4
  <2> QED  BY <1>3, <2>3, <2>4, <2>5, <2>6 DEF Moved, Move
<1> QED  BY <1>2, <1>3, StepMoves

(* As long as triggers start the captures, IsFrameCapturing answers yes    *)
(* whenever some device captures or writes, with any number of devices     *)
(* that come and go: every start is counted once, and what ends a capture  *)
(* without a start to match it does not exist in the driver.               *)
THEOREM CapturesAreCounted ==
    ASSUME IsFiniteSet(Devices), ApiQueries = {}
    PROVE  Spec => []IsFrameCapturingSeesCapture
<1>1. Init => CountInv
  <2> SUFFICES ASSUME Init PROVE BusyDevices = {} /\ m_CapturesActive = 0
    BY FS_EmptySet DEF CountInv
  <2> QED  BY DEF Init, BusyDevices, Busy, Capturing, NewDriver, IdleThread
<1>2. CountInv => IsFrameCapturingSeesCapture
  BY DEF CountInv, IsFrameCapturingSeesCapture, BusyDevices, Busy
<1> QED  BY <1>1, <1>2, CountStep, SpecPlacedInv, PTL DEF Spec

-----------------------------------------------------------------------------
(* Requests *)

(* What was asked for covers what was started and what is still to start.  *)
RequestsInv ==
    /\ m_Cap \in Nat
    /\ m_QueuedFrameCaptures \subseteq QueuedFrames
    /\ started \in Nat
    /\ requested \in 0 .. MaxRequests
    /\ started + m_Cap + Cardinality(m_QueuedFrameCaptures) <= requested

LEMMA QueuedFinite ==
    ASSUME NEW Q, Q \subseteq QueuedFrames
    PROVE  IsFiniteSet(Q) /\ Cardinality(Q) \in Nat
<1>1. 0 \in Int /\ MaxFrame - 1 \in Int
  BY FrameCaptureAssumption
<1>2. IsFiniteSet(0 .. MaxFrame - 1)
  BY <1>1, FS_Interval
<1>3. Q \in SUBSET (0 .. MaxFrame - 1)
  BY FrameCaptureAssumption
<1> QED  BY <1>2, <1>3, FS_Subset, FS_CardinalityType

(* The trigger check gives up what it starts a capture for. *)
LEMMA ConsumeTriggerUsesUp ==
    ASSUME RequestsInv, NEW frame \in Nat, ConsumeTrigger(frame)
    PROVE  /\ m_Cap' \in Nat
           /\ m_QueuedFrameCaptures' \subseteq QueuedFrames
           /\ m_Cap' + Cardinality(m_QueuedFrameCaptures')
                <= m_Cap + Cardinality(m_QueuedFrameCaptures)
           /\ ShouldTriggerCapture(frame) =>
                m_Cap' + Cardinality(m_QueuedFrameCaptures') + 1
                  <= m_Cap + Cardinality(m_QueuedFrameCaptures)
<1> DEFINE Q == m_QueuedFrameCaptures
           R == {f \in Q : f > frame}
<1>1. m_QueuedFrameCaptures' = R /\ R \subseteq Q
  BY DEF ConsumeTrigger
<1>2. Q \subseteq QueuedFrames /\ R \subseteq QueuedFrames
  BY DEF RequestsInv
<1>3. IsFiniteSet(Q) /\ Cardinality(Q) \in Nat /\ Cardinality(R) \in Nat
  BY <1>2, QueuedFinite
<1>4. Cardinality(R) <= Cardinality(Q) /\ (Cardinality(Q) = Cardinality(R) => Q = R)
  BY <1>1, <1>3, FS_Subset
<1>5. frame \in Q => Q # R
  OBVIOUS
<1>6. /\ m_Cap \in Nat
      /\ m_Cap' = IF m_Cap > 0 THEN m_Cap - 1 ELSE m_Cap
      /\ ShouldTriggerCapture(frame) <=> (m_Cap > 0 \/ frame \in Q)
  BY DEF RequestsInv, ConsumeTrigger, ShouldTriggerCapture
<1> HIDE DEF Q, R
<1> QED  BY <1>1, <1>2, <1>3, <1>4, <1>5, <1>6 DEF Q

LEMMA StartCounts ==
    ASSUME RequestsInv, NEW devWnd, StartFrameCapture(devWnd)
    PROVE  started' \in {started, started + 1}
BY DEF StartFrameCapture

LEMMA RequestsStep == PlacedInv /\ RequestsInv /\ [Next]_vars => RequestsInv'
<1> SUFFICES ASSUME PlacedInv, RequestsInv, [Next]_vars
             PROVE  RequestsInv'
  OBVIOUS
<1> USE DEF RequestsInv
<1> DEFINE Q == m_QueuedFrameCaptures
<1>1. IsFiniteSet(Q) /\ Cardinality(Q) \in Nat /\ MaxRequests \in Nat
  BY QueuedFinite, FrameCaptureAssumption
<1>2. ASSUME NEW d \in Devices, NEW frame \in Nat, ConsumeTrigger(frame), UNCHANGED requested,
             \/ UNCHANGED started
             \/ ShouldTriggerCapture(frame) /\ \E devWnd : StartFrameCapture(devWnd)
      PROVE  RequestsInv'
  <2>1. /\ m_Cap' \in Nat
        /\ m_QueuedFrameCaptures' \subseteq QueuedFrames
        /\ m_Cap' + Cardinality(m_QueuedFrameCaptures') <= m_Cap + Cardinality(Q)
        /\ ShouldTriggerCapture(frame) =>
             m_Cap' + Cardinality(m_QueuedFrameCaptures') + 1 <= m_Cap + Cardinality(Q)
    BY <1>2, ConsumeTriggerUsesUp
  <2>2. Cardinality(m_QueuedFrameCaptures') \in Nat
    BY <2>1, QueuedFinite
  <2>3. \/ started' = started
        \/ ShouldTriggerCapture(frame) /\ started' \in {started, started + 1}
    BY <1>2, StartCounts
  <2> QED  BY <1>1, <1>2, <2>1, <2>2, <2>3
<1>3. ASSUME requested < MaxRequests, requested' = requested + 1,
             UNCHANGED <<m_Cap, m_QueuedFrameCaptures>>,
             \E devWnd : StartFrameCapture(devWnd)
      PROVE  RequestsInv'
  <2>1. started' \in {started, started + 1}
    BY <1>3, StartCounts
  <2> QED  BY <1>1, <1>3, <2>1
<1>4. CASE UNCHANGED <<m_Cap, m_QueuedFrameCaptures, requested, started>>
  BY <1>1, <1>4
<1>5. CASE UNCHANGED vars \/ SetCaptureTitle
  BY <1>4, <1>5 DEF vars, coreVars, SetCaptureTitle
<1>6. ASSUME NEW n \in MultiCounts, TriggerCapture(n)
      PROVE  RequestsInv'
  <2>1. n \in Nat
    BY FrameCaptureAssumption
  <2> QED  BY <1>1, <1>6, <2>1 DEF TriggerCapture
<1>7. ASSUME NEW frame \in QueuedFrames, QueueCapture(frame)
      PROVE  RequestsInv'
  <2>1. /\ m_QueuedFrameCaptures' = Q \cup {frame}
        /\ requested < MaxRequests /\ requested' = requested + 1
        /\ UNCHANGED <<m_Cap, started>>
    BY <1>7 DEF QueueCapture
  <2>2. /\ Cardinality(Q \cup {frame}) \in Nat
        /\ Cardinality(Q \cup {frame}) <= Cardinality(Q) + 1
    BY <1>1, FS_AddElement
  <2> QED  BY <1>1, <2>1, <2>2
<1>8. CASE CycleActiveWindow
  BY <1>1, <1>8 DEF CycleActiveWindow
<1>9. ASSUME NEW devWnd \in ApiQueries, ApiSetActiveWindow(devWnd)
      PROVE  RequestsInv'
  BY <1>4, <1>9 DEF ApiSetActiveWindow, coreVars
<1>10. ASSUME NEW d \in Devices, NEW devWnd,
              ApiEndFrameCapture(d, devWnd) \/ ApiDiscardFrameCapture(d, devWnd)
       PROVE  RequestsInv'
  BY <1>4, <1>10 DEF ApiEndFrameCapture, ApiDiscardFrameCapture
<1>11. ASSUME NEW d \in Devices, NEW devWnd \in ApiQueries, ApiStartFrameCapture(d, devWnd)
       PROVE  RequestsInv'
  BY <1>3, <1>11 DEF ApiStartFrameCapture
<1>12. ASSUME NEW d \in Devices, BeginMarker(d) \/ EndMarker(d)
       PROVE  RequestsInv'
  BY <1>3, <1>10, <1>12 DEF BeginMarker, EndMarker
<1>13. ASSUME NEW d \in Devices, NEW windows, QueuePresent(d, windows)
       PROVE  RequestsInv'
  <2>1. /\ UNCHANGED <<m_QueuedFrameCaptures, started>>
        /\ \/ UNCHANGED <<m_Cap, requested>>
           \/ m_Cap' = 0 /\ UNCHANGED requested
           \/ requested < MaxRequests /\ requested' = requested + 1 /\ m_Cap' = 1
    BY <1>13 DEF QueuePresent, AdvanceFrame
  <2> QED  BY <1>1, <2>1
<1>14. ASSUME NEW d \in Devices, DriverStep(d)
       PROVE  RequestsInv'
  <2>1. CASE Present(d) \/ FinishCaptureWriting(d)
    BY <1>4, <2>1 DEF Present, FinishCaptureWriting
  <2>2. CASE PresentTrigger(d)
    <3>1. driver[d].m_FrameCounter \in Nat
      BY FrameCaptureAssumption DEF PlacedInv, CaptureTyped, DriverRecords
    <3> QED  BY <1>2, <2>2, <3>1 DEF PresentTrigger
  <2> QED  BY <1>14, <2>1, <2>2 DEF DriverStep
<1>15. ASSUME NEW d \in Devices, Lifecycle(d)
       PROVE  RequestsInv'
  <2>1. CASE CreateDevice(d)
    BY <1>2, <2>1 DEF CreateDevice
  <2>2. CASE ~CreateDevice(d)
    BY <1>4, <1>15, <2>2 DEF Lifecycle, CreateInstance, CreateSurface, CreateSwapchain,
       DestroyInstance, DestroySwapchain, DestroySurface, coreVars
  <2> QED  BY <2>1, <2>2
<1> QED  BY <1>5, <1>6, <1>7, <1>8, <1>9, <1>10, <1>11, <1>12, <1>13, <1>14, <1>15 DEF Next

LEMMA SpecRequestsInv == Spec => []RequestsInv
<1>1. Init => RequestsInv
  BY FS_EmptySet, FrameCaptureAssumption DEF Init, RequestsInv
<1> QED  BY <1>1, RequestsStep, SpecPlacedInv, PTL DEF Spec

(* No trigger, queued frame, key, marker or API call is used twice.        *)
THEOREM NothingUnaskedStarts == Spec => []NoUnaskedCapture
<1>1. RequestsInv => NoUnaskedCapture
  <2> SUFFICES ASSUME RequestsInv PROVE NoUnaskedCapture
    OBVIOUS
  <2>1. Cardinality(m_QueuedFrameCaptures) \in Nat
    BY QueuedFinite DEF RequestsInv
  <2> QED  BY <2>1 DEF RequestsInv, NoUnaskedCapture
<1> QED  BY <1>1, SpecRequestsInv, PTL

-----------------------------------------------------------------------------
(* The numbers of the captures *)

NumberedInv ==
    /\ \A d \in Devices : /\ driver[d].capture <= started
                          /\ Busy(d) => driver[d].capture # 0
    /\ m_CaptureTitle \subseteq 0 .. started
    /\ \A i \in DOMAIN m_Captures : m_Captures[i].capture \in 1 .. started

LEMMA NumberedStep == PlacedInv /\ PlacedInv' /\ NumberedInv /\ [Next]_vars => NumberedInv'
<1> SUFFICES ASSUME PlacedInv, PlacedInv', NumberedInv, [Next]_vars
             PROVE  NumberedInv'
  OBVIOUS
<1> USE DEF PlacedInv
<1>1. /\ started \in Nat /\ m_Captures \in Seq(CaptureRecords)
      /\ \A e \in Devices : driver[e].capture \in Nat
  BY DEF CaptureTyped, DriverRecords
<1>2. CASE TitleMove
  <2>1. InProgress \subseteq 0 .. started
    BY <1>1, InProgressIsBusy DEF NumberedInv
  <2>2. {0} \cup InProgress \subseteq 0 .. started
    BY <1>1, <2>1
  <2>3. m_CaptureTitle' \subseteq 0 .. started
    BY <1>2, <2>2 DEF TitleMove, NumberedInv
  <2> QED  BY <1>2, <2>3 DEF TitleMove, NumberedInv, Busy, Capturing
<1>3. ASSUME NEW d \in Devices, Moved(d)
      PROVE  NumberedInv'
  <2>1. started' \in {started, started + 1}
    BY <1>3 DEF Moved, Move, StartMove, PassMove, DropMove, WriteMove, FinishMove
  <2>2. m_CaptureTitle' \in {NoTitle, m_CaptureTitle}
    BY <1>3 DEF Moved, Move, StartMove, PassMove, DropMove, WriteMove, FinishMove
  <2>3. m_CaptureTitle' \subseteq 0 .. started'
    <3>1. CASE m_CaptureTitle' = m_CaptureTitle
      <4>1. 0 .. started \subseteq 0 .. started'
        BY <1>1, <2>1
      <4> QED  BY <3>1, <4>1 DEF NumberedInv
    <3>2. CASE m_CaptureTitle' = NoTitle
      BY <3>2 DEF NoTitle
    <3> QED  BY <2>2, <3>1, <3>2
  <2>4. ASSUME NEW e \in Devices
        PROVE  driver'[e].capture <= started' /\ (Busy(e)' => driver'[e].capture # 0)
    <3>1. CASE e # d
      <4>1. driver'[e] = driver[e] /\ thread'[e] = thread[e]
        BY <1>3, <3>1 DEF Moved, Move, OnlyChanges, CaptureTyped
      <4> QED  BY <1>1, <2>1, <4>1 DEF NumberedInv, Busy, Capturing
    <3>2. CASE e = d /\ StartMove(d)
      BY <1>1, <3>2 DEF StartMove
    <3>3. CASE e = d /\ ~StartMove(d)
      <4>1. driver'[d].capture \in {0, driver[d].capture}
        <5>1. CASE WriteMove(d)
          BY <5>1 DEF WriteMove, CaptureTyped, DriverRecords
        <5>2. CASE ~WriteMove(d)
          BY <1>3, <3>3, <5>2 DEF Moved, Move, PassMove, DropMove, FinishMove
        <5> QED  BY <5>1, <5>2
      <4>2. driver'[d].capture <= started'
        BY <1>1, <2>1, <4>1 DEF NumberedInv
      <4>3. Busy(d)' => driver'[d].capture # 0
        BY <1>3, <3>3, BusyBefore DEF NumberedInv
      <4> QED  BY <3>3, <4>2, <4>3
    <3> QED  BY <3>1, <3>2, <3>3
  <2>5. ASSUME NEW i \in DOMAIN m_Captures'
        PROVE  m_Captures'[i].capture \in 1 .. started'
    <3>1. CASE UNCHANGED m_Captures
      BY <1>1, <2>1, <2>5, <3>1 DEF NumberedInv
    <3>2. CASE FinishMove(d) /\ thread[d].file.created
      <4> DEFINE new == [path |-> m_CurrentLogFile, title |-> m_CaptureTitle,
                         frameNumber |-> driver[d].frameNumber, capture |-> driver[d].capture]
      <4>1. m_Captures' = Append(m_Captures, new) /\ Busy(d)
        BY <3>2 DEF FinishMove, Busy
      <4>2. new.capture \in 1 .. started
        BY <1>1, <4>1 DEF NumberedInv
      <4> HIDE DEF new
      <4>3. m_Captures'[i] = new \/ (i \in DOMAIN m_Captures /\ m_Captures'[i] = m_Captures[i])
        BY <1>1, <2>5, <4>1
      <4> QED  BY <1>1, <2>1, <4>2, <4>3 DEF NumberedInv
    <3> QED  BY <1>3, <3>1, <3>2 DEF Moved, Move, StartMove, PassMove, DropMove, WriteMove,
                                     FinishMove
  <2> QED  BY <2>3, <2>4, <2>5 DEF NumberedInv
<1> QED  BY <1>2, <1>3, StepMoves

(* The types, for any number of devices and requests.  Two parts are more  *)
(* than types: a thread in Present has a window to present, and what is    *)
(* listed is a capture that was started.                                   *)
THEOREM FrameCaptureTypeCorrect == Spec => []FrameCaptureTypeOK
<1>1. Init => NumberedInv
  BY DEF Init, NumberedInv, Busy, Capturing, NewDriver, IdleThread, NoTitle
<1>2. PlacedInv /\ NumberedInv /\ RequestsInv => FrameCaptureTypeOK
  <2> SUFFICES ASSUME PlacedInv, NumberedInv, RequestsInv
               PROVE  FrameCaptureTypeOK
    OBVIOUS
  <2> USE DEF PlacedInv
  <2>1. Cardinality(m_QueuedFrameCaptures) \in Nat
    BY QueuedFinite DEF RequestsInv
  <2>2. m_Cap \in 0 .. MaxRequests /\ started \in 0 .. MaxRequests
    BY <2>1, FrameCaptureAssumption DEF RequestsInv
  <2>3. m_CaptureTitle \subseteq 0 .. MaxRequests
    <3>1. 0 .. started \subseteq 0 .. MaxRequests
      BY <2>2, FrameCaptureAssumption
    <3> QED  BY <3>1 DEF NumberedInv
  <2>4. \A i \in DOMAIN m_Captures : m_Captures[i].capture \in 1 .. started
    BY DEF NumberedInv
  <2>5. m_QueuedFrameCaptures \subseteq QueuedFrames /\ m_CapturesActive \in Int
    BY DEF RequestsInv, CaptureTyped
  <2>6. \A d \in Devices : driver[d] \in DriverRecords /\ thread[d] \in ThreadRecords
    BY DEF CaptureTyped
  <2>7. \A d \in Devices :
          /\ driver[d].m_FrameCounter \in 0 .. MaxFrame
          /\ driver[d].m_State \in {"Background", "Active"}
          /\ driver[d].swapchains \subseteq driver[d].m_SwapLookup
          /\ thread[d].pc \in {"app", "present", "trigger", "write"}
          /\ thread[d].pc \in {"present", "trigger"} => thread[d].todo # <<>>
    BY <2>6 DEF DriverRecords, ThreadRecords, ThreadsPlaced, ThreadPlaced
  <2> QED  BY <2>2, <2>3, <2>4, <2>5, <2>7 DEF FrameCaptureTypeOK
<1> QED  BY <1>1, <1>2, NumberedStep, SpecPlacedInv, SpecRequestsInv, PTL DEF Spec

-----------------------------------------------------------------------------
(* The capture files of an application with one device *)

OneDeviceOnly == \E d : Devices = {d}

FilesInv ==
    /\ \A i \in DOMAIN m_Captures : /\ m_Captures[i].path \in DOMAIN disk
                                    /\ disk[m_Captures[i].path] = m_Captures[i].capture
    /\ \A d \in Devices :
          thread[d].pc = "write" /\ thread[d].file.created =>
              /\ m_CurrentLogFile \in DOMAIN disk
              /\ disk[m_CurrentLogFile] = driver[d].capture

LEMMA FilesStep ==
    ASSUME OneDeviceOnly
    PROVE  PlacedInv /\ PlacedInv' /\ FilesInv /\ [Next]_vars => FilesInv'
<1> SUFFICES ASSUME PlacedInv, PlacedInv', FilesInv, [Next]_vars
             PROVE  FilesInv'
  OBVIOUS
<1> USE DEF PlacedInv
<1>1. m_Captures \in Seq(CaptureRecords)
  BY DEF CaptureTyped
<1>2. CASE TitleMove
  BY <1>2 DEF TitleMove, FilesInv
<1>3. ASSUME NEW d \in Devices, Moved(d)
      PROVE  FilesInv'
  <2>1. Devices = {d}
    BY DEF OneDeviceOnly
  <2>2. CASE StartMove(d) \/ PassMove(d) \/ DropMove(d)
    <3>1. UNCHANGED <<m_Captures, disk, m_CurrentLogFile>> /\ thread'[d].pc # "write"
      BY <2>2 DEF StartMove, PassMove, DropMove
    <3> QED  BY <2>1, <3>1 DEF FilesInv
  <2>3. CASE WriteMove(d)
    <3> DEFINE path == CapturePath(driver[d].frameNumber)
    <3>1. \A i \in DOMAIN m_Captures : m_Captures[i].path # path
      BY <1>1, CapturePathFresh
    <3>2. /\ m_CurrentLogFile' = path /\ UNCHANGED m_Captures
          /\ disk' = IF thread'[d].file.created THEN WithFile(path, driver[d].capture) ELSE disk
          /\ driver'[d].capture = driver[d].capture
      BY <2>3 DEF WriteMove, CaptureTyped, DriverRecords
    <3> HIDE DEF path
    <3>3. CASE thread'[d].file.created
      <4>1. /\ DOMAIN disk' = {path} \cup DOMAIN disk
            /\ disk'[path] = driver[d].capture
            /\ \A p \in DOMAIN disk : p # path => disk'[p] = disk[p]
        BY <3>2, <3>3 DEF WithFile
      <4> QED  BY <2>1, <3>1, <3>2, <4>1 DEF FilesInv
    <3>4. CASE ~thread'[d].file.created
      BY <2>1, <3>2, <3>4 DEF FilesInv
    <3> QED  BY <3>3, <3>4
  <2>4. CASE FinishMove(d)
    <3>1. UNCHANGED disk /\ thread'[d].pc # "write" /\ thread[d].pc = "write"
      BY <2>4 DEF FinishMove
    <3>2. CASE ~thread[d].file.created
      BY <2>1, <2>4, <3>1, <3>2 DEF FinishMove, FilesInv
    <3>3. CASE thread[d].file.created
      <4> DEFINE new == [path |-> m_CurrentLogFile, title |-> m_CaptureTitle,
                         frameNumber |-> driver[d].frameNumber, capture |-> driver[d].capture]
      <4>1. m_Captures' = Append(m_Captures, new)
        BY <2>4, <3>3 DEF FinishMove
      <4>2. new.path \in DOMAIN disk /\ disk[new.path] = new.capture
        BY <3>1, <3>3 DEF FilesInv
      <4> HIDE DEF new
      <4>3. ASSUME NEW i \in DOMAIN m_Captures'
            PROVE  \/ m_Captures'[i] = new
                   \/ i \in DOMAIN m_Captures /\ m_Captures'[i] = m_Captures[i]
        BY <1>1, <4>1, <4>3
      <4> QED  BY <2>1, <3>1, <4>2, <4>3 DEF FilesInv
    <3> QED  BY <3>2, <3>3
  <2> QED  BY <1>3, <2>2, <2>3, <2>4 DEF Moved, Move
<1> QED  BY <1>2, <1>3, StepMoves

(* With one device, a listed capture keeps its file: CreateRDC picks a     *)
(* name that no listed capture has, however many there are, and while a    *)
(* file is written nobody changes m_CurrentLogFile.  Nor is any capture    *)
(* made that was not asked for.                                            *)
THEOREM CapturesAreAsAsked ==
    ASSUME OneDeviceOnly
    PROVE  Spec => []CapturesAsAsked
<1>1. Init => FilesInv
  BY DEF Init, FilesInv, IdleThread
<1>2. FilesInv /\ NoUnaskedCapture => CapturesAsAsked
  BY DEF FilesInv, CaptureFileIntact, CapturesAsAsked
<1> QED  BY <1>1, <1>2, FilesStep, SpecPlacedInv, NothingUnaskedStarts, PTL DEF Spec

=============================================================================
