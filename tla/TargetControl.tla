---------------------------- MODULE TargetControl ----------------------------
(***************************************************************************)
(* The target control connection (renderdoc/core/target_control.cpp and    *)
(* the fields of the RenderDoc singleton it shares): an application with   *)
(* RenderDoc injected serves at most one UI at a time.                     *)
(*                                                                         *)
(* Threads: the server thread (TargetControlServerThread) accepts          *)
(* connections and decides who is served; one client thread per accepted   *)
(* connection (TargetControlClientThread) talks to one UI; the application *)
(* finishes captures, starts children, asks for the UI and shuts down; a   *)
(* UI owns a TargetControl object per connection.  A member of Clients is  *)
(* one connection, from both ends.                                         *)
(*                                                                         *)
(* A chunk on a socket is one record.  The fields `file' and `path' of     *)
(* records that carry an id are not serialised: they remember what the     *)
(* sender meant, for the properties only.  Ids are positions from 1.       *)
(***************************************************************************)
EXTENDS Naturals, FiniteSets, Sequences, SequencesExt

CONSTANTS
    Clients,           \* connections; each TargetControl object connects once
    NoClient,          \* the empty client name, the null thread handle, no callback
    Version,           \* protocol version each client announces
    Drivers,           \* graphics APIs the application may load
    Paths, NoPath,     \* local paths a UI saves copies to; the empty path
    MaxCaptures,       \* bound on captures requested
    MaxChildren,       \* bound on child processes
    MaxDriverChanges,  \* bound on the status changes of each driver
    MaxWindows,        \* bound on the capturable windows
    MaxCommands,       \* bound on commands a UI has in flight
    MaxQueue,          \* chunks a socket buffers before a send blocks
    Scenarios          \* who connects, how many captures are asked for, what may happen

CommandTypes == {"Trigger", "Queue", "Cycle", "Delete", "Copy"}
Events == {"fail",     \* the network, accept() or a capture fails
           "drivers",  \* graphics APIs are loaded and used
           "vanish",   \* capture files are deleted from disk
           "show",     \* the application calls ShowReplayUI
           "shutdown"} \* the application removes the hooks or exits

ASSUME ClientsAssumption == NoClient \notin Clients
ASSUME VersionAssumption == Version \in [Clients -> Nat]
ASSUME PathsAssumption == NoPath \notin Paths
ASSUME ScenariosAssumption ==
    \A s \in Scenarios : /\ s.clients \subseteq Clients /\ s.captures \in 0 .. MaxCaptures
                         /\ s.may \subseteq CommandTypes \cup Events
ASSUME BoundsAssumption ==
    /\ {MaxCaptures, MaxChildren, MaxDriverChanges, MaxWindows, MaxCommands} \subseteq Nat
    /\ MaxQueue \in Nat \ {0}

VARIABLES
    \* fields of the RenderDoc singleton
    m_Captures,                      \* sequence of [file, retrieved]
    m_Cap,                           \* frames still to capture
    m_QueuedFrameCaptures,           \* number of frames queued for capture
    m_Children,                      \* number of children, only ever appended to
    m_ActiveDrivers,                 \* status of each driver, 0 before it is added
    windows,                         \* m_WindowFrameCapturers.size()
    m_SingleClientName,
    m_RequestControllerShow,
    m_ControlClientThreadShutdown,
    m_TargetControlThreadShutdown,
    progressCallback,                \* client whose thread's variable the callback writes
    \* the application and its disk
    life, capturing, requested, written, disk,
    \* locals of the server thread
    serverPC, newClient, clientThread,
    \* locals of the client threads
    thread, sent, captureProgress,
    \* sockets
    link, toServer, toUI,
    \* TargetControl objects in the UI, and their histories
    ui, kick, view, m_CaptureCopies, m_BusyClient,
    askedFor,                        \* files some UI asked to copy or delete
    scenario                         \* the one of Scenarios that a behaviour is of

recordVars  == <<m_Captures, m_Children, m_ActiveDrivers, windows>>
serveVars   == <<m_SingleClientName, m_ControlClientThreadShutdown, progressCallback>>
lifeVars    == <<life, m_TargetControlThreadShutdown, scenario>>
requestVars == <<m_Cap, m_QueuedFrameCaptures, requested>>
appVars     == <<requestVars, capturing, written, disk>>
serverVars  == <<serverPC, newClient, clientThread>>
threadVars  == <<thread, sent, captureProgress>>
socketVars  == <<link, toServer, toUI>>
uiVars      == <<ui, kick, view, m_CaptureCopies, m_BusyClient, askedFor>>
vars == <<recordVars, serveVars, m_RequestControllerShow, lifeVars, appVars, serverVars,
          threadVars, socketVars, uiVars>>

Ids      == 1 .. MaxCaptures
Progress == {"none", "part", "done"}     \* -1.0f, between 0 and 1, 1.0f

Known(captures, children, drivers, w, p) ==
    [captures |-> captures, children |-> children, drivers |-> drivers,
     windows |-> w, progress |-> p]

NoDrivers == [d \in Drivers |-> 0]

\* The thread of c is inside TargetControlClientThread.
Serving(c) == thread[c] \notin {"none", "done"}
\* ... inside its message loop.
InLoop(c)  == thread[c] \in {"tick", "command"}

Init ==
    /\ m_Captures = <<>> /\ m_Cap = 0 /\ m_QueuedFrameCaptures = 0 /\ m_Children = 0
    /\ m_ActiveDrivers = NoDrivers /\ windows = 0
    /\ m_SingleClientName = NoClient /\ m_RequestControllerShow = FALSE
    /\ m_ControlClientThreadShutdown = FALSE /\ m_TargetControlThreadShutdown = FALSE
    /\ progressCallback = NoClient
    /\ life = "running" /\ capturing = FALSE /\ requested = 0 /\ written = 0 /\ disk = {}
    /\ serverPC = "accept" /\ newClient = NoClient /\ clientThread = NoClient
    /\ thread = [c \in Clients |-> "none"]
    /\ sent = [c \in Clients |-> Known(0, 0, NoDrivers, 0, "none")]
    /\ captureProgress = [c \in Clients |-> "none"]
    /\ link = [c \in Clients |-> "closed"]
    /\ toServer = [c \in Clients |-> <<>>] /\ toUI = [c \in Clients |-> <<>>]
    /\ ui = [c \in Clients |-> "idle"] /\ kick = [c \in Clients |-> FALSE]
    /\ view = [c \in Clients |-> Known(<<>>, 0, NoDrivers, 0, "none")]
    /\ m_CaptureCopies = [c \in Clients |-> [i \in Ids |-> NoPath]]
    /\ m_BusyClient = [c \in Clients |-> NoClient]
    /\ askedFor = {} /\ scenario \in Scenarios

-----------------------------------------------------------------------------
(* Sockets.  A link is up until one end closes it or the network fails;    *)
(* then writes may vanish or fail, and what is buffered can still be read  *)
(* unless the closing end left data unread, which resets the connection.   *)

CanSend(c) == link[c] # "up" \/ Len(toUI[c]) < MaxQueue

Send(c, packet) ==
    /\ toUI' = IF link[c] = "up" THEN [toUI EXCEPT ![c] = Append(@, packet)] ELSE toUI
    /\ UNCHANGED <<link, toServer>>

\* SAFE_DELETE(client) on the application's end.
CloseServerEnd(c) ==
    /\ link' = [link EXCEPT ![c] = "down"]
    /\ toServer' = [toServer EXCEPT ![c] = <<>>]
    /\ \/ toUI' = toUI
       \/ toServer[c] # <<>> /\ toUI' = [toUI EXCEPT ![c] = <<>>]

\* SAFE_DELETE(m_Socket) on the UI's end.
CloseUIEnd(c) ==
    /\ link' = [link EXCEPT ![c] = "down"]
    /\ toUI' = [toUI EXCEPT ![c] = <<>>]
    /\ \/ toServer' = toServer
       \/ toUI[c] # <<>> /\ toServer' = [toServer EXCEPT ![c] = <<>>]

\* The network drops the connection, with or without what is in flight.
Break(c) ==
    /\ "fail" \in scenario.may /\ link[c] = "up"
    /\ link' = [link EXCEPT ![c] = "down"]
    /\ toServer' \in {toServer, [toServer EXCEPT ![c] = <<>>]}
    /\ toUI' \in {toUI, [toUI EXCEPT ![c] = <<>>]}
    /\ UNCHANGED <<recordVars, serveVars, m_RequestControllerShow, lifeVars, appVars, serverVars,
                   threadVars, uiVars>>

-----------------------------------------------------------------------------
(* The server thread.                                                      *)

IsProtocolVersionSupported(version) == version \in 2 .. 9

\* AcceptClient and the handshake: an unsupported version is turned away.
ServerAccept(c) ==
    /\ serverPC = "accept" /\ ~m_TargetControlThreadShutdown
    /\ link[c] # "closed" /\ thread[c] = "none"
    /\ toServer[c] # <<>> /\ Head(toServer[c]).type = "Handshake"
    /\ IF IsProtocolVersionSupported(Head(toServer[c]).version)
         THEN /\ serverPC' = "lookup" /\ newClient' = c
              /\ toServer' = [toServer EXCEPT ![c] = Tail(@)]
              /\ UNCHANGED <<link, toUI, clientThread>>
         ELSE /\ CloseServerEnd(c) /\ UNCHANGED serverVars
    /\ UNCHANGED <<recordVars, serveVars, m_RequestControllerShow, lifeVars, appVars, threadVars, uiVars>>

\* Read m_SingleClientName under its lock and decide.
ServerLookup ==
    /\ serverPC = "lookup"
    /\ serverPC' = IF m_SingleClientName = NoClient THEN "claim"
                   ELSE IF kick[newClient] THEN "kick" ELSE "busy"
    /\ UNCHANGED <<recordVars, serveVars, m_RequestControllerShow, lifeVars, appVars, newClient,
                   clientThread, threadVars, socketVars, uiVars>>

\* As ServerKick, with the shutdown flag not set.
ServerKickUnsignalled ==
    /\ serverPC = "kick" /\ serverPC' = "join"
    /\ UNCHANGED <<recordVars, serveVars, m_RequestControllerShow, lifeVars, appVars, newClient,
                   clientThread, threadVars, socketVars, uiVars>>

\* Ask the existing client thread to stop ...
ServerKick ==
    /\ serverPC = "kick" /\ serverPC' = "join"
    /\ m_ControlClientThreadShutdown' = TRUE
    /\ UNCHANGED <<recordVars, m_SingleClientName, progressCallback, m_RequestControllerShow, lifeVars,
                   appVars, newClient, clientThread, threadVars, socketVars, uiVars>>

\* As ServerJoin, with the JoinThread call left out.
ServerJoinNoWait ==
    /\ serverPC = "join" /\ serverPC' = "claim"
    /\ clientThread' = NoClient
    /\ m_ControlClientThreadShutdown' = FALSE
    /\ UNCHANGED <<recordVars, m_SingleClientName, progressCallback, m_RequestControllerShow, lifeVars,
                   appVars, newClient, threadVars, socketVars, uiVars>>

\* ... wait for it (JoinThread, CloseThread), and reset the flag.
ServerJoin ==
    /\ serverPC = "join" /\ serverPC' = "claim"
    /\ clientThread = NoClient \/ thread[clientThread] = "done"
    /\ clientThread' = NoClient
    /\ m_ControlClientThreadShutdown' = FALSE
    /\ UNCHANGED <<recordVars, m_SingleClientName, progressCallback, m_RequestControllerShow, lifeVars,
                   appVars, newClient, threadVars, socketVars, uiVars>>

ServerClaim ==
    /\ serverPC = "claim" /\ serverPC' = "spawn"
    /\ m_SingleClientName' = newClient
    /\ UNCHANGED <<recordVars, m_ControlClientThreadShutdown, progressCallback, m_RequestControllerShow,
                   lifeVars, appVars, newClient, clientThread, threadVars, socketVars, uiVars>>

\* CreateThread; the previous handle is simply overwritten.
ServerSpawn ==
    /\ serverPC = "spawn" /\ serverPC' = "accept"
    /\ clientThread' = newClient /\ newClient' = NoClient
    /\ thread' = [thread EXCEPT ![newClient] = "handshake"]
    /\ UNCHANGED <<recordVars, serveVars, m_RequestControllerShow, lifeVars, appVars, sent,
                   captureProgress, socketVars, uiVars>>

\* Reject with Busy; the name is read again, without the lock.
ServerBusy ==
    /\ serverPC = "busy" /\ serverPC' = "accept"
    /\ newClient' = NoClient
    /\ link' = [link EXCEPT ![newClient] = "down"]
    /\ toServer' = [toServer EXCEPT ![newClient] = <<>>]
    /\ toUI' = IF link[newClient] = "up"
                 THEN [toUI EXCEPT ![newClient] =
                         Append(@, [type |-> "Busy", name |-> m_SingleClientName])]
                 ELSE toUI
    /\ UNCHANGED <<recordVars, serveVars, m_RequestControllerShow, lifeVars, appVars, clientThread,
                   threadVars, uiVars>>

\* SAFE_DELETE(sock): connections nobody accepted are refused.
CloseListener ==
    /\ serverPC' = "stopped"
    /\ link' = [c \in Clients |-> IF thread[c] = "none" /\ link[c] = "up" THEN "down"
                                                                       ELSE link[c]]
    /\ UNCHANGED <<recordVars, m_SingleClientName, progressCallback, m_RequestControllerShow, lifeVars,
                   appVars, newClient, threadVars, toServer, toUI, uiVars>>

\* As ServerStop, with the client thread not told.
ServerStopSilent ==
    /\ serverPC = "accept" /\ m_TargetControlThreadShutdown
    /\ UNCHANGED m_ControlClientThreadShutdown
    /\ clientThread' = NoClient
    /\ CloseListener

\* The loop ends: tell the client thread, but do not wait for it.
ServerStop ==
    /\ serverPC = "accept" /\ m_TargetControlThreadShutdown
    /\ m_ControlClientThreadShutdown' = TRUE
    /\ clientThread' = NoClient
    /\ CloseListener

\* accept() fails for good: the thread returns without telling anyone.
ServerAcceptFails ==
    /\ "fail" \in scenario.may /\ serverPC = "accept" /\ ~m_TargetControlThreadShutdown
    /\ UNCHANGED <<m_ControlClientThreadShutdown, clientThread>>
    /\ CloseListener

ServerStep ==
    \/ \E c \in Clients : ServerAccept(c)
    \/ ServerLookup \/ ServerKick \/ ServerJoin \/ ServerClaim \/ ServerSpawn
    \/ ServerBusy \/ ServerStop

-----------------------------------------------------------------------------
(* The client thread of c.                                                 *)

Goto(c, pc) == thread' = [thread EXCEPT ![c] = pc]

\* Reply to the handshake; if that fails only the name is given up.
ThreadHandshake(c) ==
    /\ thread[c] = "handshake" /\ CanSend(c)
    /\ \/ /\ Goto(c, "setCallback")
          /\ Send(c, [type |-> "Handshake"])
       \/ /\ link[c] = "down" /\ Goto(c, "clearName")
          /\ CloseServerEnd(c)
    /\ UNCHANGED <<recordVars, serveVars, m_RequestControllerShow, lifeVars, appVars, serverVars, sent,
                   captureProgress, uiVars>>

ThreadSetCallback(c) ==
    /\ thread[c] = "setCallback" /\ Goto(c, "validate")
    /\ progressCallback' = c
    /\ UNCHANGED <<recordVars, m_SingleClientName, m_ControlClientThreadShutdown, m_RequestControllerShow,
                   lifeVars, appVars, serverVars, sent, captureProgress, socketVars, uiVars>>

\* Those of the captures whose files exist, in their order.
Surviving(captures, files) ==
    LET kept[n \in 0 .. Len(captures)] ==
          IF n = 0 THEN <<>>
          ELSE IF captures[n].file \in files THEN Append(kept[n - 1], captures[n])
          ELSE kept[n - 1]
    IN kept[Len(captures)]

\* Forget the captures whose files are gone.
ValidateCaptures == m_Captures' = Surviving(m_Captures, disk)

ThreadValidate(c) ==
    /\ thread[c] = "validate" /\ Goto(c, "tick")
    /\ ValidateCaptures
    /\ UNCHANGED <<m_Children, m_ActiveDrivers, windows, serveVars, m_RequestControllerShow, lifeVars,
                   appVars, serverVars, sent, captureProgress, socketVars, uiVars>>

(* One tick sends the first difference between what was sent and what is.  *)

NewDriver(c)   == sent[c].drivers # m_ActiveDrivers
NewCapture(c)  == ~NewDriver(c) /\ sent[c].captures # Len(m_Captures)
NewChild(c)    == ~NewDriver(c) /\ sent[c].captures = Len(m_Captures)
                    /\ sent[c].children # m_Children
UpToDate(c)    == /\ sent[c].drivers = m_ActiveDrivers
                  /\ sent[c].captures = Len(m_Captures)
                  /\ sent[c].children = m_Children
NewProgress(c) == UpToDate(c) /\ sent[c].progress # captureProgress[c]
\* As NewWindows, for windows that are added only.
NewWindowsGrown(c) == /\ UpToDate(c) /\ sent[c].progress = captureProgress[c]
                      /\ Version[c] >= 4 /\ sent[c].windows < windows
NewWindows(c)  == /\ UpToDate(c) /\ sent[c].progress = captureProgress[c]
                  /\ Version[c] >= 4 /\ sent[c].windows # windows
NewShow(c)     == /\ UpToDate(c) /\ sent[c].progress = captureProgress[c]
                  /\ ~NewWindows(c) /\ Version[c] >= 7 /\ m_RequestControllerShow

ReportDriver(c) == \E d \in Drivers :
    /\ NewDriver(c) /\ sent[c].drivers[d] # m_ActiveDrivers[d]
    /\ sent' = [sent EXCEPT ![c].drivers[d] = m_ActiveDrivers[d]]
    /\ Send(c, [type |-> "APIUse", driver |-> d, status |-> m_ActiveDrivers[d]])
    /\ UNCHANGED <<captureProgress, m_RequestControllerShow>>

ReportCapture(c) ==
    LET idx == sent[c].captures + 1 IN
    /\ NewCapture(c)
    /\ sent' = [sent EXCEPT ![c].captures = idx]
    /\ Send(c, [type |-> "NewCapture", id |-> idx, file |-> m_Captures[idx].file])
    /\ UNCHANGED <<captureProgress, m_RequestControllerShow>>

ReportChild(c) ==
    /\ NewChild(c)
    /\ sent' = [sent EXCEPT ![c].children = @ + 1]
    /\ Send(c, [type |-> "NewChild"])
    /\ UNCHANGED <<captureProgress, m_RequestControllerShow>>

\* As ReportProgress, with completion held back like any other progress.
ReportProgressThrottled(c) ==
    /\ NewProgress(c) /\ captureProgress[c] # "done"
    /\ sent' = [sent EXCEPT ![c].progress = captureProgress[c]]
    /\ Send(c, [type |-> "Progress", progress |-> captureProgress[c]])
    /\ UNCHANGED <<captureProgress, m_RequestControllerShow>>

\* Completion is sent as "none", and at once; a part only every progresstime.
ReportProgress(c) ==
    LET now == IF captureProgress[c] = "done" THEN "none" ELSE captureProgress[c] IN
    /\ NewProgress(c)
    /\ captureProgress' = [captureProgress EXCEPT ![c] = now]
    /\ \/ /\ sent' = [sent EXCEPT ![c].progress = now]
          /\ Send(c, [type |-> "Progress", progress |-> now])
       \/ /\ now = "part" /\ UNCHANGED <<sent, socketVars>>
    /\ UNCHANGED m_RequestControllerShow

ReportWindows(c) ==
    /\ NewWindows(c)
    /\ sent' = [sent EXCEPT ![c].windows = windows]
    /\ Send(c, [type |-> "Windows", windows |-> windows])
    /\ UNCHANGED <<captureProgress, m_RequestControllerShow>>

ReportShow(c) ==
    /\ NewShow(c)
    /\ m_RequestControllerShow' = FALSE
    /\ Send(c, [type |-> "RequestShow"])
    /\ UNCHANGED <<sent, captureProgress>>

ReportNothing(c) ==
    /\ UpToDate(c) /\ ~NewProgress(c) /\ ~NewWindows(c) /\ ~NewShow(c)
    /\ UNCHANGED <<sent, captureProgress, m_RequestControllerShow, socketVars>>

Report(c) ==
    \/ ReportDriver(c) \/ ReportCapture(c) \/ ReportChild(c) \/ ReportProgress(c)
    \/ ReportWindows(c) \/ ReportShow(c) \/ ReportNothing(c)

\* The top of the loop and the tick.  Any write on a dead link, the ping's
\* included, may fail.
ThreadTick(c) ==
    /\ thread[c] = "tick"
    /\ \/ /\ m_ControlClientThreadShutdown
          /\ Goto(c, "clearCallback") /\ CloseServerEnd(c)
          /\ UNCHANGED <<sent, captureProgress, m_RequestControllerShow>>
       \/ /\ ~m_ControlClientThreadShutdown /\ CanSend(c)
          /\ Goto(c, "command") /\ Report(c)
       \/ /\ ~m_ControlClientThreadShutdown /\ link[c] = "down"
          /\ Goto(c, "clearCallback") /\ CloseServerEnd(c)
          /\ m_RequestControllerShow' = (m_RequestControllerShow /\ ~NewShow(c))
          /\ UNCHANGED <<sent, captureProgress>>
    /\ UNCHANGED <<recordVars, serveVars, lifeVars, appVars, serverVars, uiVars>>

(* One command of the UI.                                                  *)

Received(c) == toServer' = [toServer EXCEPT ![c] = Tail(@)]

\* As MarkCaptureRetrieved, one entry too far.
MarkNextRetrieved(id) ==
    m_Captures' = IF id + 1 \in 1 .. Len(m_Captures)
                    THEN [m_Captures EXCEPT ![id + 1].retrieved = TRUE] ELSE m_Captures

MarkCaptureRetrieved(id) ==
    m_Captures' = IF id \in 1 .. Len(m_Captures)
                    THEN [m_Captures EXCEPT ![id].retrieved = TRUE] ELSE m_Captures

\* As HandleCapture, with a trigger dropped.
HandleCaptureIgnored(c, cmd) ==
    /\ \/ cmd.type = "Trigger" /\ UNCHANGED <<m_Cap, m_QueuedFrameCaptures>>
       \/ cmd.type = "Queue" /\ m_QueuedFrameCaptures' = m_QueuedFrameCaptures + 1
                            /\ UNCHANGED m_Cap
       \/ cmd.type = "Cycle" /\ m_Cap' = 0 /\ UNCHANGED m_QueuedFrameCaptures
    /\ Goto(c, "tick") /\ Received(c)
    /\ UNCHANGED <<m_Captures, link, toUI>>

\* RenderDoc::TriggerCapture, QueueCapture and CycleActiveWindow: a trigger
\* replaces the frames still to capture, cycling forgets them.
HandleCapture(c, cmd) ==
    /\ \/ cmd.type = "Trigger" /\ m_Cap' = 1 /\ UNCHANGED m_QueuedFrameCaptures
       \/ cmd.type = "Queue" /\ m_QueuedFrameCaptures' = m_QueuedFrameCaptures + 1
                            /\ UNCHANGED m_Cap
       \/ cmd.type = "Cycle" /\ m_Cap' = 0 /\ UNCHANGED m_QueuedFrameCaptures
    /\ Goto(c, "tick") /\ Received(c)
    /\ UNCHANGED <<m_Captures, link, toUI>>

HandleDelete(c, cmd) ==
    /\ cmd.type = "Delete"
    /\ MarkCaptureRetrieved(cmd.id)
    /\ Goto(c, "tick") /\ Received(c)
    /\ UNCHANGED <<m_Cap, m_QueuedFrameCaptures, link, toUI>>

\* Stream the file back and mark it; a file or a socket that fails ends the
\* connection; an id that is out of range gets no answer.  (After a failure the
\* code still ends the chunk of a reader whose socket is deleted, 415 to 417;
\* that read is left out.)
HandleCopy(c, cmd) ==
    /\ cmd.type = "Copy"
    /\ UNCHANGED <<m_Cap, m_QueuedFrameCaptures>>
    /\ \/ /\ cmd.id > Len(m_Captures)
          /\ Goto(c, "tick") /\ Received(c) /\ UNCHANGED <<m_Captures, link, toUI>>
       \/ /\ cmd.id <= Len(m_Captures) /\ m_Captures[cmd.id].file \in disk /\ CanSend(c)
          /\ MarkCaptureRetrieved(cmd.id)
          /\ toUI' = IF link[c] # "up" THEN toUI
                     ELSE [toUI EXCEPT ![c] = Append(@,
                            [type |-> "Copy", id |-> cmd.id, path |-> cmd.path,
                             file |-> m_Captures[cmd.id].file])]
          /\ Goto(c, "tick") /\ Received(c) /\ UNCHANGED link
       \/ /\ cmd.id <= Len(m_Captures)
          /\ m_Captures[cmd.id].file \notin disk \/ link[c] = "down"
          /\ Goto(c, "clearCallback") /\ CloseServerEnd(c) /\ UNCHANGED m_Captures

ThreadCommand(c) ==
    /\ thread[c] = "command"
    /\ \/ /\ toServer[c] = <<>> /\ link[c] = "up"
          /\ Goto(c, "tick")
          /\ UNCHANGED <<m_Cap, m_QueuedFrameCaptures, m_Captures, socketVars>>
       \/ /\ toServer[c] = <<>> /\ link[c] = "down"
          /\ Goto(c, "clearCallback") /\ CloseServerEnd(c)
          /\ UNCHANGED <<m_Cap, m_QueuedFrameCaptures, m_Captures>>
       \/ /\ toServer[c] # <<>>
          /\ LET cmd == Head(toServer[c]) IN
               HandleCapture(c, cmd) \/ HandleDelete(c, cmd) \/ HandleCopy(c, cmd)
    /\ UNCHANGED <<m_Children, m_ActiveDrivers, windows, serveVars, m_RequestControllerShow, lifeVars,
                   capturing, requested, written, disk, serverVars, sent,
                   captureProgress, uiVars>>

\* As ThreadClearCallback, with the callback left in place.
ThreadKeepCallback(c) ==
    /\ thread[c] = "clearCallback" /\ Goto(c, "clearName")
    /\ UNCHANGED <<recordVars, serveVars, m_RequestControllerShow, lifeVars, appVars, serverVars, sent,
                   captureProgress, socketVars, uiVars>>

\* Leaving: first the callback into this thread's stack, then the name.
ThreadClearCallback(c) ==
    /\ thread[c] = "clearCallback" /\ Goto(c, "clearName")
    /\ progressCallback' = NoClient
    /\ UNCHANGED <<recordVars, m_SingleClientName, m_ControlClientThreadShutdown, m_RequestControllerShow,
                   lifeVars, appVars, serverVars, sent, captureProgress, socketVars, uiVars>>

ThreadClearName(c) ==
    /\ thread[c] = "clearName" /\ Goto(c, "done")
    /\ m_SingleClientName' = NoClient
    /\ UNCHANGED <<recordVars, m_ControlClientThreadShutdown, progressCallback, m_RequestControllerShow,
                   lifeVars, appVars, serverVars, sent, captureProgress, socketVars, uiVars>>

ThreadStep(c) ==
    \/ ThreadHandshake(c) \/ ThreadSetCallback(c) \/ ThreadValidate(c) \/ ThreadTick(c)
    \/ ThreadCommand(c) \/ ThreadClearCallback(c) \/ ThreadClearName(c)

-----------------------------------------------------------------------------
(* The application.                                                        *)

Running == life # "exited"

\* SetProgress: the callback writes the serving thread's variable.
SetProgress(p) ==
    captureProgress' = IF progressCallback = NoClient THEN captureProgress
                       ELSE [captureProgress EXCEPT ![progressCallback] = p]

\* The capture key, polled between captures, or the in-application API.
KeyTrigger ==
    /\ Running /\ requested < scenario.captures
    /\ requested' = requested + 1 /\ m_Cap' = 1
    /\ UNCHANGED <<recordVars, serveVars, m_RequestControllerShow, lifeVars, m_QueuedFrameCaptures, capturing,
                   written, disk, serverVars, threadVars, socketVars, uiVars>>

\* As BeginCapture, with the count not used up.
BeginCaptureUncounted ==
    /\ Running /\ ~capturing /\ m_Cap > 0
    /\ capturing' = TRUE
    /\ SetProgress("part")
    /\ UNCHANGED <<recordVars, serveVars, m_RequestControllerShow, lifeVars, requestVars, written, disk,
                   serverVars, thread, sent, socketVars, uiVars>>

\* A present finds frames to capture, or this frame queued; the queued frames
\* up to this one go.  (FrameCapture has the details.)
BeginCapture ==
    /\ Running /\ ~capturing /\ m_Cap + m_QueuedFrameCaptures > 0
    /\ capturing' = TRUE
    /\ m_Cap' = IF m_Cap > 0 THEN m_Cap - 1 ELSE 0
    /\ m_QueuedFrameCaptures' \in 0 .. m_QueuedFrameCaptures
    /\ m_Cap = 0 => m_QueuedFrameCaptures' < m_QueuedFrameCaptures
    /\ SetProgress("part")
    /\ UNCHANGED <<recordVars, serveVars, m_RequestControllerShow, lifeVars, requested, written, disk,
                   serverVars, thread, sent, socketVars, uiVars>>

\* FinishCaptureWriting, with a file or (discarded, failed) without.
FinishCaptureWriting ==
    /\ Running /\ capturing /\ capturing' = FALSE
    /\ \/ /\ written' = written + 1
          /\ disk' = disk \cup {written + 1}
          /\ m_Captures' = Append(m_Captures, [file |-> written + 1, retrieved |-> FALSE])
       \/ /\ "fail" \in scenario.may /\ UNCHANGED <<written, disk, m_Captures>>
    /\ SetProgress("done")
    /\ UNCHANGED <<m_Children, m_ActiveDrivers, windows, serveVars, m_RequestControllerShow, lifeVars,
                   requestVars, serverVars, thread, sent, socketVars, uiVars>>

AddChildProcess ==
    /\ Running /\ m_Children < MaxChildren
    /\ m_Children' = m_Children + 1
    /\ UNCHANGED <<m_Captures, m_ActiveDrivers, windows, serveVars, m_RequestControllerShow, lifeVars,
                   appVars, serverVars, threadVars, socketVars, uiVars>>

\* AddActiveDriver, and what GetActiveDrivers makes of it as time passes.
DriverChanges(d) ==
    /\ "drivers" \in scenario.may /\ Running /\ m_ActiveDrivers[d] < MaxDriverChanges
    /\ m_ActiveDrivers' = [m_ActiveDrivers EXCEPT ![d] = @ + 1]
    /\ UNCHANGED <<m_Captures, m_Children, windows, serveVars, m_RequestControllerShow, lifeVars,
                   appVars, serverVars, threadVars, socketVars, uiVars>>

WindowsChange ==
    /\ Running /\ windows' \in 0 .. MaxWindows /\ windows' # windows
    /\ UNCHANGED <<m_Captures, m_Children, m_ActiveDrivers, serveVars, m_RequestControllerShow, lifeVars,
                   appVars, serverVars, threadVars, socketVars, uiVars>>

\* The call returns true in exactly the states this step is enabled in.
ShowReplayUI ==
    /\ "show" \in scenario.may /\ Running /\ m_SingleClientName # NoClient
    /\ m_RequestControllerShow' = TRUE
    /\ UNCHANGED <<recordVars, serveVars, lifeVars, appVars, serverVars, threadVars,
                   socketVars, uiVars>>

\* Somebody removes a temporary capture: a local UI, the remote server, the user.
FileDeleted(f) ==
    /\ "vanish" \in scenario.may /\ f \in disk
    /\ disk' = disk \ {f}
    /\ UNCHANGED <<recordVars, serveVars, m_RequestControllerShow, lifeVars, requestVars, capturing, written,
                   serverVars, threadVars, socketVars, uiVars>>

RemoveHooks ==
    /\ "shutdown" \in scenario.may /\ life = "running" /\ life' = "removing"
    /\ m_TargetControlThreadShutdown' = TRUE
    /\ UNCHANGED <<recordVars, serveVars, m_RequestControllerShow, scenario, appVars, serverVars,
                   threadVars, socketVars, uiVars>>

RemoveHooksReturns ==
    /\ life = "removing" /\ serverPC = "stopped" /\ life' = "removed"
    /\ UNCHANGED <<recordVars, serveVars, m_RequestControllerShow, m_TargetControlThreadShutdown, scenario,
                   appVars, serverVars, threadVars, socketVars, uiVars>>

\* ~RenderDoc: delete what was retrieved, then stop the server thread.  The
\* threads live on for a while.
Retrieved == {m_Captures[i].file : i \in {j \in DOMAIN m_Captures : m_Captures[j].retrieved}}

Exit ==
    /\ "shutdown" \in scenario.may /\ life \in {"running", "removed"} /\ life' = "exited"
    /\ disk' = disk \ Retrieved
    /\ m_TargetControlThreadShutdown' = TRUE
    /\ UNCHANGED <<recordVars, serveVars, m_RequestControllerShow, scenario, requestVars, capturing,
                   written, serverVars, threadVars, socketVars, uiVars>>

AppStep ==
    \/ KeyTrigger \/ BeginCapture \/ FinishCaptureWriting \/ AddChildProcess
    \/ WindowsChange \/ ShowReplayUI \/ RemoveHooks \/ RemoveHooksReturns \/ Exit
    \/ \E d \in Drivers : DriverChanges(d)
    \/ \E f \in disk : FileDeleted(f)

-----------------------------------------------------------------------------
(* The UI's TargetControl objects.                                         *)

appSide == <<recordVars, serveVars, m_RequestControllerShow, lifeVars, capturing, written, disk, m_Cap,
             m_QueuedFrameCaptures, serverVars, threadVars>>

\* CreateTargetControl: connect and send the handshake, kicking or not.
UIConnect(c) ==
    /\ c \in scenario.clients /\ ui[c] = "idle" /\ serverPC # "stopped"
    /\ ui' = [ui EXCEPT ![c] = "waiting"]
    /\ kick' \in {kick, [kick EXCEPT ![c] = TRUE]}
    /\ link' = [link EXCEPT ![c] = "up"]
    /\ toServer' = [toServer EXCEPT ![c] = <<[type |-> "Handshake", version |-> Version[c]]>>]
    /\ UNCHANGED <<appSide, requested, toUI, view, m_CaptureCopies, m_BusyClient, askedFor>>

\* The connection is gone and everything received has been read.
UILost(c) ==
    /\ ui[c] \in {"waiting", "busy", "connected"} /\ toUI[c] = <<>> /\ link[c] = "down"
    /\ ui' = [ui EXCEPT ![c] = "closed"]
    /\ CloseUIEnd(c)
    /\ UNCHANGED <<appSide, requested, kick, view, m_CaptureCopies, m_BusyClient, askedFor>>

\* The rest of the constructor: Handshake or Busy.
UIHandshake(c) ==
    /\ ui[c] = "waiting" /\ toUI[c] # <<>>
    /\ LET packet == Head(toUI[c]) IN
         \/ /\ packet.type = "Handshake"
            /\ ui' = [ui EXCEPT ![c] = "connected"] /\ UNCHANGED m_BusyClient
         \/ /\ packet.type = "Busy"
            /\ ui' = [ui EXCEPT ![c] = "busy"]
            /\ m_BusyClient' = [m_BusyClient EXCEPT ![c] = packet.name]
    /\ toUI' = [toUI EXCEPT ![c] = Tail(@)]
    /\ UNCHANGED <<appSide, requested, link, toServer, kick, view, m_CaptureCopies, askedFor>>

\* ReceiveMessage.
UIReceive(c) ==
    /\ ui[c] = "connected" /\ toUI[c] # <<>>
    /\ toUI' = [toUI EXCEPT ![c] = Tail(@)]
    /\ LET packet == Head(toUI[c]) IN
         \/ /\ packet.type = "APIUse"
            /\ view' = [view EXCEPT ![c].drivers[packet.driver] = packet.status]
            /\ UNCHANGED m_CaptureCopies
         \/ /\ packet.type = "NewCapture"
            /\ view' = [view EXCEPT ![c].captures = Append(@, packet.file)]
            /\ UNCHANGED m_CaptureCopies
         \/ /\ packet.type = "NewChild"
            /\ view' = [view EXCEPT ![c].children = @ + 1]
            /\ UNCHANGED m_CaptureCopies
         \/ /\ packet.type = "Progress"
            /\ view' = [view EXCEPT ![c].progress = packet.progress]
            /\ UNCHANGED m_CaptureCopies
         \/ /\ packet.type = "Windows"
            /\ view' = [view EXCEPT ![c].windows = packet.windows]
            /\ UNCHANGED m_CaptureCopies
         \/ /\ packet.type = "RequestShow"
            /\ UNCHANGED <<view, m_CaptureCopies>>
         \/ /\ packet.type = "Copy"      \* saved under m_CaptureCopies[id], then erased
            /\ m_CaptureCopies' = [m_CaptureCopies EXCEPT ![c][packet.id] = NoPath]
            /\ UNCHANGED view
    /\ UNCHANGED <<appSide, requested, link, toServer, ui, kick, m_BusyClient, askedFor>>

\* A command; on a dead link the write vanishes and the next receive notices.
UISend(c, cmd) ==
    /\ cmd.type \in scenario.may /\ ui[c] = "connected" /\ Len(toServer[c]) < MaxCommands
    /\ toServer' = IF link[c] = "up" THEN [toServer EXCEPT ![c] = Append(@, cmd)] ELSE toServer
    /\ UNCHANGED <<appSide, link, toUI, ui, kick, view, m_BusyClient>>

UIRequest(c) ==
    /\ \/ /\ requested < scenario.captures /\ requested' = requested + 1
          /\ \E type \in {"Trigger", "Queue"} : UISend(c, [type |-> type])
       \/ UISend(c, [type |-> "Cycle"]) /\ UNCHANGED requested
    /\ UNCHANGED <<m_CaptureCopies, askedFor>>

UIDelete(c) == \E id \in DOMAIN view[c].captures :
    /\ UISend(c, [type |-> "Delete", id |-> id, file |-> view[c].captures[id]])
    /\ askedFor' = askedFor \cup {view[c].captures[id]}
    /\ UNCHANGED <<requested, m_CaptureCopies>>

UICopy(c) == \E id \in DOMAIN view[c].captures, path \in Paths :
    /\ UISend(c, [type |-> "Copy", id |-> id, path |-> path, file |-> view[c].captures[id]])
    /\ m_CaptureCopies' = [m_CaptureCopies EXCEPT ![c][id] = path]
    /\ askedFor' = askedFor \cup {view[c].captures[id]}
    /\ UNCHANGED requested

UIShutdown(c) ==
    /\ ui[c] \in {"busy", "connected"}
    /\ ui' = [ui EXCEPT ![c] = "closed"]
    /\ CloseUIEnd(c)
    /\ UNCHANGED <<appSide, requested, kick, view, m_CaptureCopies, m_BusyClient, askedFor>>

UIReads(c) == UIHandshake(c) \/ UIReceive(c) \/ UILost(c)

UIStep(c) ==
    \/ UIConnect(c) \/ UIReads(c) \/ UIRequest(c) \/ UIDelete(c) \/ UICopy(c) \/ UIShutdown(c)

Next ==
    \/ ServerStep \/ ServerAcceptFails
    \/ \E c \in Clients : ThreadStep(c) \/ UIStep(c) \/ Break(c)
    \/ AppStep

Spec == Init /\ [][Next]_vars

\* Threads run, the tick counter lets partial progress out again and again, and
\* the UI keeps calling ReceiveMessage (LiveCapture's loop).
Fairness ==
    /\ WF_vars(ServerStep)
    /\ \A c \in Clients :
         /\ WF_vars(ThreadStep(c)) /\ WF_vars(UIReads(c))
         /\ SF_vars(ThreadTick(c) /\ sent' # sent)

FairSpec == Spec /\ Fairness

\* In addition the application keeps presenting, so captures begin and end.
PresentingSpec == FairSpec /\ WF_vars(BeginCapture) /\ WF_vars(FinishCaptureWriting)

-----------------------------------------------------------------------------
(* Types.                                                                  *)

ThreadPC == {"none", "handshake", "setCallback", "validate", "tick", "command",
             "clearCallback", "clearName", "done"}

ServerPC == {"accept", "lookup", "kick", "join", "claim", "spawn", "busy", "stopped"}

\* Every variable stays in its type; ids and counters stay within the bounds,
\* although commands and reports arrive through sockets in any state.
TargetControlTypeOK ==
    /\ m_Captures \in Seq([file : Ids, retrieved : BOOLEAN]) /\ Len(m_Captures) <= written
    /\ {m_Cap, m_QueuedFrameCaptures, written} \subseteq Nat /\ requested <= scenario.captures
    /\ written + (IF capturing THEN 1 ELSE 0) + m_Cap + m_QueuedFrameCaptures <= requested
    /\ disk \subseteq 1 .. written
    /\ m_Children \in 0 .. MaxChildren /\ windows \in 0 .. MaxWindows
    /\ m_ActiveDrivers \in [Drivers -> 0 .. MaxDriverChanges]
    /\ {m_SingleClientName, progressCallback, newClient, clientThread}
         \subseteq Clients \cup {NoClient}
    /\ {m_RequestControllerShow, m_ControlClientThreadShutdown,
        m_TargetControlThreadShutdown, capturing} \subseteq BOOLEAN
    /\ life \in {"running", "removing", "removed", "exited"}
    /\ serverPC \in ServerPC /\ thread \in [Clients -> ThreadPC]
    /\ captureProgress \in [Clients -> Progress]
    /\ link \in [Clients -> {"closed", "up", "down"}]
    /\ ui \in [Clients -> {"idle", "waiting", "connected", "busy", "closed"}]
    /\ \A c \in Clients :
         /\ Len(toUI[c]) <= MaxQueue + 1 /\ Len(toServer[c]) <= MaxCommands + 1
         /\ sent[c].captures <= MaxCaptures /\ sent[c].children <= MaxChildren
         /\ m_CaptureCopies[c] \in [Ids -> Paths \cup {NoPath}]
    /\ askedFor \subseteq Ids

-----------------------------------------------------------------------------
(* Safety.                                                                 *)

\* A running client thread belongs to the client named in m_SingleClientName,
\* and a name is only held by a client whose thread runs or is about to be
\* created: the lock covers each access, but not the server's read, kick,
\* join, claim and spawn, between which the old thread gives up its name.
NameHeldByServingThread ==
    /\ \A c \in Clients : Serving(c) => m_SingleClientName = c
    /\ m_SingleClientName # NoClient =>
         \/ Serving(m_SingleClientName)
         \/ serverPC = "spawn" /\ newClient = m_SingleClientName

\* The progress callback is the one of the thread in its loop (an earlier
\* client that leaves does not remove it), and it never outlives the thread
\* whose stack it writes to.
CallbackOwnedByServingThread ==
    \A c \in Clients :
        /\ thread[c] \in {"validate", "tick", "command"} => progressCallback = c
        /\ progressCallback = c => thread[c] \in {"validate", "tick", "command", "clearCallback"}

\* A kick joins a thread that exists: the handle was not overwritten or
\* closed since the name was read.
KickJoinsAThread ==
    serverPC \in {"kick", "join"} =>
        /\ clientThread # NoClient
        /\ \A c \in Clients : Serving(c) => c = clientThread

\* An id in a command still means the capture the UI saw under that id: the
\* list is compacted (ValidateCaptures) and grows while ids are in flight.
CommandIdsMeanWhatWasSeen ==
    \A c \in Clients : InLoop(c) =>
        \A i \in DOMAIN toServer[c] :
            LET cmd == toServer[c][i] IN
            cmd.type \in {"Delete", "Copy"} =>
                cmd.id \in DOMAIN m_Captures /\ m_Captures[cmd.id].file = cmd.file

\* Only captures some UI asked to delete or to copy are marked retrieved, and
\* so deleted when the application exits.
OnlyAskedForAreRetrieved == Retrieved \subseteq askedFor

\* What a UI asks for by index happens to the capture it saw, and to no other,
\* from the list in front of the user to the files deleted at exit.
CommandsReachTheirCapture == CommandIdsMeanWhatWasSeen /\ OnlyAskedForAreRetrieved

\* The threads implement the abstract hand-over of the application.
Abstract == INSTANCE SingleClient WITH
    holder  <- m_SingleClientName,
    working <- {c \in Clients : Serving(c)},
    served  <- {c \in Clients : thread[c] # "none"}

AbstractSpec == Abstract!Spec

-----------------------------------------------------------------------------
(* Liveness, under FairSpec.                                               *)

\* Every connection gets an answer: nobody waits for ever for the server
\* thread to finish with a kicked client.
ConnectionAnswered == \A c \in Clients : ui[c] = "waiting" ~> ui[c] # "waiting"

\* A client that kicks is served, unless its connection or the server ends.
KickTakesOver ==
    \A c \in Clients : (ui[c] = "waiting" /\ kick[c]) ~>
        thread[c] # "none" \/ link[c] = "down"

\* Whoever else connects, kicks and is kicked, a UI is answered, and served
\* if it asked to kick.
UIsAreServed == ConnectionAnswered /\ KickTakesOver

\* A served UI catches up with children and windows, although every tick sends
\* one report only, and drivers, captures and progress come first.
UICatchesUp ==
    \A c \in Clients :
        /\ \A n \in 1 .. MaxChildren :
             (InLoop(c) /\ m_Children >= n) ~> (view[c].children >= n \/ link[c] = "down")
        /\ \A n \in 0 .. MaxWindows :
             (InLoop(c) /\ Version[c] >= 4 /\ windows = n) ~>
                 (view[c].windows = n \/ windows # n \/ link[c] = "down")

\* After RemoveHooks or exit every client thread ends.
ShutdownStopsThreads ==
    m_TargetControlThreadShutdown ~> \A c \in Clients : ~Serving(c)

(* Under PresentingSpec.                                                   *)

\* Every capture written is reported to a served UI, in the order of writing.
CapturesReported ==
    \A c \in Clients, n \in Ids :
        (InLoop(c) /\ written >= n) ~> (Len(view[c].captures) >= n \/ link[c] = "down")

Triggering(c) == \E i \in DOMAIN toServer[c] : toServer[c][i].type = "Trigger"

\* A trigger is answered with a new capture, begun after it was sent, whatever
\* triggers of others it replaces or is replaced by.
TriggerAnswered ==
    \A c \in Clients, n \in 0 .. MaxCaptures :
        (InLoop(c) /\ Triggering(c) /\ n = written + (IF capturing THEN 1 ELSE 0)) ~>
            (Len(view[c].captures) > n \/ link[c] = "down")

\* A request to show the UI leaves with a report, for any client that
\* understands it, although it is the last thing a tick looks at: windows that
\* come and go for ever would hold it back, so they have to settle.
ShowIsPassedOn ==
    <>[][windows' = windows]_windows =>
        \A c \in Clients :
            (InLoop(c) /\ Version[c] >= 7 /\ m_RequestControllerShow) ~>
                (~m_RequestControllerShow \/ link[c] = "down")

\* No report starves, although a tick sends the first one that is due only.
EverythingIsReported == CapturesReported /\ UICatchesUp /\ ShowIsPassedOn

\* The UI does not show a capture in progress for ever.
ProgressSettles ==
    \A c \in Clients : view[c].progress = "part" ~>
        (view[c].progress = "none" \/ link[c] = "down")

\* A trigger ends in a capture that the UI shows, and no longer as one in progress.
CapturesAreShown == TriggerAnswered /\ ProgressSettles

=============================================================================
