--------------------------- MODULE MCFrameCapture ---------------------------
(* Instances of FrameCapture: one device with two windows, and two devices *)
(* that render to the same window.                                         *)
EXTENDS FrameCapture

OneDevice  == {10}
TwoDevices == {10, 20}
OneWindow  == {1}
TwoWindows == {1, 2}

NoQuery    == {}
AnyQuery   == {NoWindow}
(* a wildcard, a window that may have no swapchain, and the markers        *)
SomeQueries == {NoWindow, DeviceOwnedWindow(10, 2), DeviceOwnedWindow(10, NULL)}

NoFrames   == {}
FrameZero  == {0}
FirstTwo   == {0, 1}
One        == {1}
OneOrTwo   == {1, 2}

=============================================================================
