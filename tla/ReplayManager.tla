---------------------------- MODULE ReplayManager ----------------------------
(***************************************************************************)
(* The replay manager of the UI (qrenderdoc/Code/ReplayManager.cpp) with   *)
(* the calls CaptureContext and MainWindow make of it: a capture is opened *)
(* and closed again and again, each time with a replay thread that runs    *)
(* the commands other threads queue, locally or over the connection to a   *)
(* remote server, which the UI uses as well.                               *)
(*                                                                         *)
(* Threads: the UI (with the loader thread it waits for when it opens a    *)
(* capture); the replay thread (ReplayManager::run); a helper thread that  *)
(* copies a capture or launches a program while the UI shows a progress    *)
(* dialog; one that connects to a server; workers, such as Python scripts, *)
(* that queue commands of their own.                                       *)
(*                                                                         *)
(* A request to a server and its answer are a conversation, over a         *)
(* connection that can carry one at a time; it begins in one step and ends *)
(* in a later one.  Connections are what IRemoteServer objects stand for.  *)
(***************************************************************************)
EXTENDS Naturals, FiniteSets, Sequences

CONSTANTS
    Connections,   \* connections to remote servers, each made once
    Workers,       \* other threads that queue commands
    NoConnection,  \* the null IRemoteServer, and the renderer of a local capture
    MaxCaptures,   \* bound on the captures opened
    MaxQueue,      \* bound on the commands queued
    WhileOpen      \* what a user does although a capture is open, see below

ASSUME ConnectionsAssumption == NoConnection \notin Connections
ASSUME WorkersAssumption == Workers \cap {"ui", "replay", "helper"} = {}
ASSUME ReplayBoundsAssumption == MaxCaptures \in Nat /\ MaxQueue \in Nat \ {0}
ASSUME WhileOpenAssumption == WhileOpen \subseteq {"Browse", "ShutdownServer", "Connect"}

VARIABLES
    m_Running, m_RenderQueue,
    m_Remote, m_OrphanedRemote,
    m_RemoteHost,   \* "none", "up", or "down" when it is known not to run
    m_RemoteLock,   \* the thread that holds it, or NoThread
    replay,         \* pc, current command and m_Renderer of the replay thread
    ui,             \* pc of the UI, and what it goes back to
    helper,
    contextChooser, \* enabled
    connecting,     \* how many threads connect to a server
    worker,
    blocked,        \* threads waiting for a command of theirs
    m_CaptureLoaded,
    talk,           \* the conversation each thread is in
    link, opened,   \* connections, and whether a capture is open over them
    capture,        \* captures opened so far
    crashed         \* somebody used a null m_Remote

queueVars  == <<m_Running, m_RenderQueue>>
remoteVars == <<m_Remote, m_OrphanedRemote, m_RemoteHost>>
talkVars   == <<m_RemoteLock, talk>>
linkVars   == <<link, opened>>
loadVars   == <<m_CaptureLoaded, capture>>
connectVars == <<contextChooser, connecting>>
vars == <<queueVars, remoteVars, talkVars, linkVars, loadVars, replay, ui, helper,
          connectVars, worker, blocked, crashed>>

NoThread == "nobody"
Talkers  == {"ui", "replay", "helper"}

\* A command: who queued it for which capture, what it does, how its caller
\* waits.  "work" replays, "remote" takes the lock to delete or copy a capture,
\* "ping" is messageCheck's.  A caller waits not at all, in BlockInvoke
\* ("block"), or for a flag the command sets when it runs ("flag").
Command(from, op, wait) == [from |-> from, op |-> op, wait |-> wait, capture |-> capture]
NoCommand == [from |-> NoThread, op |-> "none", wait |-> "no", capture |-> 0]

ThreadRunning == replay.pc # "off"
IsRunning     == ThreadRunning /\ m_Running

Init ==
    /\ m_Running = FALSE /\ m_RenderQueue = <<>>
    /\ m_Remote = NoConnection /\ m_OrphanedRemote = NoConnection /\ m_RemoteHost = "none"
    /\ m_RemoteLock = NoThread /\ talk = [t \in Talkers |-> NoConnection]
    /\ link = [c \in Connections |-> "unused"] /\ opened = [c \in Connections |-> FALSE]
    /\ replay = [pc |-> "off", cmd |-> NoCommand, m_Renderer |-> NoConnection]
    /\ ui = [pc |-> "idle", then |-> "idle"]
    /\ helper = "none" /\ contextChooser = TRUE /\ connecting = 0
    /\ worker = [w \in Workers |-> NoCommand]
    /\ blocked = {} /\ m_CaptureLoaded = FALSE /\ capture = 0 /\ crashed = FALSE

-----------------------------------------------------------------------------
(* Conversations.                                                          *)

Talk(t, c) == talk' = [talk EXCEPT ![t] = c]
Hang(t)    == talk' = [talk EXCEPT ![t] = NoConnection]

\* QMutexLocker, then m_Remote->...: fatal when m_Remote was reset meanwhile.
LockAndTalk(t) ==
    /\ m_RemoteLock = NoThread
    /\ IF m_Remote = NoConnection
         THEN crashed' = TRUE /\ UNCHANGED talkVars
         ELSE m_RemoteLock' = t /\ Talk(t, m_Remote) /\ UNCHANGED crashed

UnlockAndHang(t) ==
    /\ m_RemoteLock' = IF m_RemoteLock = t THEN NoThread ELSE m_RemoteLock
    /\ Hang(t)

\* Ping() of t fails exactly when the server is gone: SetShutdown.
Pinged(t) ==
    m_RemoteHost' = IF m_RemoteHost = "up" /\ link[talk[t]] # "up" THEN "down" ELSE m_RemoteHost

-----------------------------------------------------------------------------
(* The queue.                                                              *)

PushInvoke(cmd) ==
    /\ m_RenderQueue' = Append(m_RenderQueue, cmd)
    /\ blocked' = IF cmd.wait = "no" THEN blocked ELSE blocked \cup {cmd.from}

Room == Len(m_RenderQueue) < MaxQueue

\* A command of a worker: first the check, of flags nobody locks ...
WorkerInvoke(w) ==
    /\ worker[w] = NoCommand /\ w \notin blocked
    /\ IsRunning /\ Room
    /\ \E wait \in {"no", "block"} : worker' = [worker EXCEPT ![w] = Command(w, "work", wait)]
    /\ UNCHANGED <<queueVars, remoteVars, talkVars, linkVars, loadVars, replay, ui, helper,
                   connectVars, blocked, crashed>>

\* ... and then, whatever happened since, the queue.
WorkerPush(w) ==
    /\ worker[w] # NoCommand
    /\ PushInvoke(worker[w])
    /\ worker' = [worker EXCEPT ![w] = NoCommand]
    /\ UNCHANGED <<m_Running, remoteVars, talkVars, linkVars, loadVars, replay, ui, helper,
                   connectVars, crashed>>

-----------------------------------------------------------------------------
(* The replay thread.                                                      *)

Goto(pc) == replay' = [replay EXCEPT !.pc = pc]

\* run() opens the capture, with the remote server if there is one.
ReplayCreate ==
    /\ replay.pc = "create"
    /\ IF m_Remote = NoConnection
         THEN /\ \/ Goto("loop") /\ m_Running' = TRUE
                 \/ Goto("off") /\ UNCHANGED m_Running
              /\ UNCHANGED talk
         ELSE Talk("replay", m_Remote) /\ Goto("creating") /\ UNCHANGED m_Running
    /\ UNCHANGED <<m_RenderQueue, remoteVars, m_RemoteLock, linkVars, loadVars, ui, helper,
                   connectVars, worker, blocked, crashed>>

ReplayCreated ==
    /\ replay.pc = "creating"
    /\ Hang("replay")
    /\ \/ /\ link[talk["replay"]] = "up"
          /\ opened' = [opened EXCEPT ![talk["replay"]] = TRUE]
          /\ replay' = [replay EXCEPT !.pc = "loop", !.m_Renderer = talk["replay"]]
          /\ m_Running' = TRUE
       \/ Goto("off") /\ UNCHANGED <<opened, m_Running>>
    /\ UNCHANGED <<m_RenderQueue, remoteVars, m_RemoteLock, link, loadVars, ui, helper,
                   connectVars, worker, blocked, crashed>>

\* The condition of the loop is read apart from the queue.
ReplayLoop ==
    /\ replay.pc = "loop"
    /\ Goto(IF m_Running THEN "take" ELSE "cleanup")
    /\ UNCHANGED <<queueVars, remoteVars, talkVars, linkVars, loadVars, ui, helper, connectVars,
                   worker, blocked, crashed>>

ReplayTake ==
    /\ replay.pc = "take"
    /\ IF m_RenderQueue = <<>>
         THEN Goto("loop") /\ UNCHANGED m_RenderQueue
         ELSE /\ replay' = [replay EXCEPT !.pc = "execute", !.cmd = Head(m_RenderQueue)]
              /\ m_RenderQueue' = Tail(m_RenderQueue)
    /\ UNCHANGED <<m_Running, remoteVars, talkVars, linkVars, loadVars, ui, helper, connectVars,
                   worker, blocked, crashed>>

\* As CommandDone, with the caller not released.
CommandDoneSilent ==
    /\ replay' = [replay EXCEPT !.pc = "loop", !.cmd = NoCommand]
    /\ blocked' = IF replay.cmd.wait = "flag" THEN blocked \ {replay.cmd.from} ELSE blocked

\* processed.release(), or the flag.
CommandDone ==
    /\ replay' = [replay EXCEPT !.pc = "loop", !.cmd = NoCommand]
    /\ blocked' = IF replay.cmd.wait = "no" THEN blocked ELSE blocked \ {replay.cmd.from}

\* The commands that need the remote server look for it without the lock.
ReplayExecute ==
    /\ replay.pc = "execute"
    /\ \/ /\ replay.cmd.op = "work" /\ replay.m_Renderer # NoConnection
          /\ Talk("replay", replay.m_Renderer) /\ Goto("talking") /\ UNCHANGED blocked
       \/ /\ \/ replay.cmd.op = "work" /\ replay.m_Renderer = NoConnection
             \/ replay.cmd.op # "work" /\ m_Remote = NoConnection
          /\ CommandDone /\ UNCHANGED talk
       \/ /\ replay.cmd.op # "work" /\ m_Remote # NoConnection
          /\ Goto("lock") /\ UNCHANGED <<talk, blocked>>
    /\ UNCHANGED <<queueVars, remoteVars, m_RemoteLock, linkVars, loadVars, ui, helper,
                   connectVars, worker, crashed>>

\* DeleteCapture and the copies wait for the lock, PingRemote does not.
ReplayLock ==
    /\ replay.pc = "lock"
    /\ \/ LockAndTalk("replay") /\ Goto("talking") /\ UNCHANGED blocked
       \/ /\ replay.cmd.op = "ping" /\ m_RemoteLock # NoThread
          /\ CommandDone /\ UNCHANGED <<talkVars, crashed>>
    /\ UNCHANGED <<queueVars, remoteVars, linkVars, loadVars, ui, helper, connectVars, worker>>

\* As ReplayTalked, with the lock kept.
ReplayTalkedLocked ==
    /\ replay.pc = "talking"
    /\ IF replay.cmd.op = "ping" THEN Pinged("replay") ELSE UNCHANGED m_RemoteHost
    /\ Hang("replay") /\ UNCHANGED m_RemoteLock
    /\ CommandDone
    /\ UNCHANGED <<queueVars, m_Remote, m_OrphanedRemote, linkVars, loadVars, ui, helper,
                   connectVars, worker, crashed>>

ReplayTalked ==
    /\ replay.pc = "talking"
    /\ IF replay.cmd.op = "ping" THEN Pinged("replay") ELSE UNCHANGED m_RemoteHost
    /\ UnlockAndHang("replay")
    /\ CommandDone
    /\ UNCHANGED <<queueVars, m_Remote, m_OrphanedRemote, linkVars, loadVars, ui, helper,
                   connectVars, worker, crashed>>

\* As ReplayCleanup, with the queue left as it is.
ReplayCleanupNothing ==
    /\ replay.pc = "cleanup" /\ Goto("close")
    /\ UNCHANGED <<queueVars, remoteVars, talkVars, linkVars, loadVars, ui, helper, connectVars,
                   worker, blocked, crashed>>

\* What is left in the queue is dropped, and BlockInvoke's callers released.
ReplayCleanup ==
    LET dropped == {m_RenderQueue[i] : i \in DOMAIN m_RenderQueue} IN
    /\ replay.pc = "cleanup" /\ Goto("close")
    /\ m_RenderQueue' = <<>>
    /\ blocked' = blocked \ {cmd.from : cmd \in {d \in dropped : d.wait = "block"}}
    /\ UNCHANGED <<m_Running, remoteVars, talkVars, linkVars, loadVars, ui, helper, connectVars,
                   worker, crashed>>

\* As ReplayClose, with the orphan forgotten.
ReplayCloseRemote ==
    /\ replay.pc = "close"
    /\ IF m_Remote # NoConnection
         THEN Talk("replay", m_Remote) /\ Goto("closing")
         ELSE /\ replay' = [replay EXCEPT !.pc = "off", !.m_Renderer = NoConnection]
              /\ UNCHANGED talk
    /\ UNCHANGED <<queueVars, remoteVars, m_RemoteLock, linkVars, loadVars, ui, helper,
                   connectVars, worker, blocked, crashed>>

\* Close the capture: over the orphaned connection, over m_Remote, or locally.
ReplayClose ==
    LET remote == IF m_OrphanedRemote # NoConnection THEN m_OrphanedRemote ELSE m_Remote IN
    /\ replay.pc = "close"
    /\ IF remote # NoConnection
         THEN Talk("replay", remote) /\ Goto("closing")
         ELSE /\ replay' = [replay EXCEPT !.pc = "off", !.m_Renderer = NoConnection]
              /\ UNCHANGED talk
    /\ UNCHANGED <<queueVars, remoteVars, m_RemoteLock, linkVars, loadVars, ui, helper,
                   connectVars, worker, blocked, crashed>>

\* CloseCapture returned; an orphaned connection is shut down as well.
ReplayClosed ==
    /\ replay.pc = "closing"
    /\ opened' = [opened EXCEPT ![talk["replay"]] = FALSE]
    /\ link' = IF m_OrphanedRemote = NoConnection THEN link
               ELSE [link EXCEPT ![m_OrphanedRemote] = "closed"]
    /\ m_OrphanedRemote' = NoConnection
    /\ Hang("replay")
    /\ replay' = [replay EXCEPT !.pc = "off", !.m_Renderer = NoConnection]
    /\ UNCHANGED <<queueVars, m_Remote, m_RemoteHost, m_RemoteLock, loadVars, ui, helper,
                   connectVars, worker, blocked, crashed>>

ReplayStep ==
    \/ ReplayCreate \/ ReplayCreated \/ ReplayLoop \/ ReplayTake \/ ReplayExecute \/ ReplayLock
    \/ ReplayTalked \/ ReplayCleanup \/ ReplayClose \/ ReplayClosed

-----------------------------------------------------------------------------
(* The UI: opening and closing captures.                                   *)

UIGoto(pc) == ui' = [ui EXCEPT !.pc = pc]
\* Go to pc and come back to where the UI is now.
UICall(pc) == ui' = [pc |-> pc, then |-> ui.pc]
UIReturn   == ui' = [pc |-> ui.then, then |-> "idle"]

\* A capture open or being opened: in the way of what the user may do, if the
\* UI prevents it.
Open == m_CaptureLoaded \/ ThreadRunning
May(action) == ~Open \/ action \in WhileOpen

\* LoadCapture, once nothing is open; the dialog it shows is modal.
UILoadCapture ==
    /\ ui.pc = "idle" /\ ~Open /\ capture < MaxCaptures
    /\ connecting > 0 => "Connect" \in WhileOpen
    /\ UIGoto("loading")
    /\ capture' = capture + 1
    /\ replay' = [pc |-> "create", cmd |-> NoCommand, m_Renderer |-> NoConnection]
    /\ UNCHANGED <<queueVars, remoteVars, talkVars, linkVars, m_CaptureLoaded, helper,
                   connectVars, worker, blocked, crashed>>

\* OpenCapture returns when the thread runs or ended; then its BlockInvoke.
UIOpened ==
    /\ ui.pc = "loading"
    /\ \/ /\ IsRunning /\ UIGoto("fetching")
          /\ PushInvoke(Command("ui", "work", "block"))
       \/ /\ ~ThreadRunning /\ UIGoto("idle")
          /\ UNCHANGED <<m_RenderQueue, blocked>>
    /\ UNCHANGED <<m_Running, remoteVars, talkVars, linkVars, loadVars, replay, helper,
                   connectVars, worker, crashed>>

UIFetched ==
    /\ ui.pc = "fetching" /\ "ui" \notin blocked
    /\ UIGoto("idle") /\ m_CaptureLoaded' = TRUE /\ contextChooser' = FALSE
    /\ UNCHANGED <<queueVars, remoteVars, talkVars, linkVars, capture, replay, helper,
                   connecting, worker, blocked, crashed>>

\* CloseThread, up to its wait.
CloseThread == m_Running' = FALSE /\ UIGoto("closing")

\* CloseCapture; OnCaptureClosed lets go of a server that is gone.
UICloseCapture ==
    /\ ui.pc = "idle" /\ m_CaptureLoaded
    /\ m_CaptureLoaded' = FALSE /\ contextChooser' = TRUE
    /\ IF m_RemoteHost = "down" THEN UIGoto("orphan") /\ UNCHANGED m_Running ELSE CloseThread
    /\ UNCHANGED <<m_RenderQueue, remoteVars, talkVars, linkVars, capture, replay, helper,
                   connecting, worker, blocked, crashed>>

\* As DisconnectFromRemoteServer, shutting down whatever is running.
DisconnectAlways ==
    /\ m_RemoteHost' = "none" /\ m_Remote' = NoConnection
    /\ IF m_Remote = NoConnection THEN UNCHANGED <<m_OrphanedRemote, link>>
       ELSE /\ m_RemoteLock = NoThread
            /\ link' = [link EXCEPT ![m_Remote] = "closed"] /\ UNCHANGED m_OrphanedRemote

\* A connection a capture is open over goes to the replay thread to be closed.
DisconnectFromRemoteServer ==
    /\ m_RemoteHost' = "none" /\ m_Remote' = NoConnection
    /\ IF m_Remote = NoConnection THEN UNCHANGED <<m_OrphanedRemote, link>>
       ELSE /\ m_RemoteLock = NoThread
            /\ IF IsRunning
                 THEN m_OrphanedRemote' = m_Remote /\ UNCHANGED link
                 ELSE /\ link' = [link EXCEPT ![m_Remote] = "closed"]
                      /\ UNCHANGED m_OrphanedRemote

UIOrphan ==
    /\ ui.pc = "orphan"
    /\ DisconnectFromRemoteServer /\ CloseThread
    /\ UNCHANGED <<m_RenderQueue, talkVars, opened, loadVars, replay, helper, connectVars, worker,
                   blocked, crashed>>

UIClosed ==
    /\ ui.pc = "closing" /\ ~ThreadRunning
    /\ UIGoto("idle")
    /\ UNCHANGED <<queueVars, remoteVars, talkVars, linkVars, loadVars, replay, helper,
                   connectVars, worker, blocked, crashed>>

-----------------------------------------------------------------------------
(* The UI: commands.                                                       *)

\* Windows invoke, SetEventID and the copy of an open capture wait behind a
\* dialog, and DeleteCapture is passed on while a capture is open.
UIInvoke ==
    /\ ui.pc = "idle" /\ m_CaptureLoaded /\ Room
    /\ \E op \in {"work", "remote"}, wait \in {"no", "block", "flag"} :
         /\ PushInvoke(Command("ui", op, wait))
         /\ IF wait = "no" THEN UNCHANGED ui ELSE UIGoto("waiting")
    /\ UNCHANGED <<m_Running, remoteVars, talkVars, linkVars, loadVars, replay, helper,
                   connectVars, worker, crashed>>

UIInvoked ==
    /\ ui.pc = "waiting" /\ "ui" \notin blocked
    /\ UIGoto("idle")
    /\ UNCHANGED <<queueVars, remoteVars, talkVars, linkVars, loadVars, replay, helper,
                   connectVars, worker, blocked, crashed>>

\* Without a capture the UI asks the server itself: ListFolder, GetHomeFolder,
\* GetRemoteSupport, DeleteCapture.  The first two do so in any case.
UIRequest ==
    /\ ui.pc = "idle" /\ May("Browse") /\ m_Remote # NoConnection
    /\ LockAndTalk("ui") /\ UICall("request")
    /\ UNCHANGED <<queueVars, remoteVars, linkVars, loadVars, replay, helper, connectVars, worker,
                   blocked>>

UIRequested ==
    /\ ui.pc = "request"
    /\ UnlockAndHang("ui") /\ UIReturn
    /\ UNCHANGED <<queueVars, remoteVars, linkVars, loadVars, replay, helper, connectVars, worker,
                   blocked, crashed>>

\* The copies and ExecuteAndInject, while a dialog or a sleep keeps the UI.
UIHelp ==
    /\ ui.pc = "idle" /\ ~Open /\ m_Remote # NoConnection
    /\ UIGoto("helped") /\ helper' = "lock"
    /\ UNCHANGED <<queueVars, remoteVars, talkVars, linkVars, loadVars, replay, connectVars,
                   worker, blocked, crashed>>

HelperLock ==
    /\ helper = "lock" /\ helper' = "talk"
    /\ LockAndTalk("helper")
    /\ UNCHANGED <<queueVars, remoteVars, linkVars, loadVars, replay, ui, connectVars, worker,
                   blocked>>

HelperTalked ==
    /\ helper = "talk" /\ helper' = "none"
    /\ UnlockAndHang("helper")
    /\ UNCHANGED <<queueVars, remoteVars, linkVars, loadVars, replay, ui, connectVars, worker,
                   blocked, crashed>>

UIHelped ==
    /\ ui.pc = "helped" /\ helper = "none"
    /\ UIGoto("idle")
    /\ UNCHANGED <<queueVars, remoteVars, talkVars, linkVars, loadVars, replay, helper,
                   connectVars, worker, blocked, crashed>>

-----------------------------------------------------------------------------
(* The UI: messageCheck, from a timer that fires in dialogs too.           *)

\* Where events are handled: not in a blocking call.
HandlesEvents ==
    \/ ui.pc \in {"idle", "helped", "loading"}
    \/ ui.pc = "waiting" /\ \A i \in DOMAIN m_RenderQueue :
           m_RenderQueue[i].from = "ui" => m_RenderQueue[i].wait # "block"

\* A capture is loaded: the replay thread is to ping.
CheckLoaded ==
    /\ HandlesEvents /\ m_CaptureLoaded /\ Room
    /\ PushInvoke(Command("ui", "ping", "no"))
    /\ UNCHANGED <<m_Running, remoteVars, talkVars, linkVars, loadVars, replay, ui, helper,
                   connectVars, worker, crashed>>

\* As CheckUnloaded, whether or not a capture is being loaded.
CheckLoading ==
    /\ HandlesEvents /\ ~m_CaptureLoaded
    /\ m_RemoteHost # "none" /\ ~IsRunning
    /\ m_Remote # NoConnection /\ LockAndTalk("ui") /\ UICall("ping")
    /\ UNCHANGED <<queueVars, remoteVars, linkVars, loadVars, replay, helper, connectVars, worker,
                   blocked>>

\* No capture is loaded or being loaded: PingRemote, if the lock is free.
CheckUnloaded ==
    /\ HandlesEvents /\ ~m_CaptureLoaded /\ ui.pc # "loading"
    /\ m_RemoteHost # "none"
    /\ \/ /\ m_Remote # NoConnection /\ ~IsRunning
          /\ LockAndTalk("ui") /\ UICall("ping")
       \/ /\ m_Remote = NoConnection \/ m_RemoteLock # NoThread
          /\ m_RemoteHost = "down" /\ UICall("disconnect")
          /\ UNCHANGED <<talkVars, crashed>>
    /\ UNCHANGED <<queueVars, remoteVars, linkVars, loadVars, replay, helper, connectVars, worker,
                   blocked>>

\* The rest of messageCheck: let go of a server that is gone.
UIPinged ==
    /\ ui.pc = "ping"
    /\ Pinged("ui") /\ UnlockAndHang("ui")
    /\ IF m_RemoteHost' = "down" THEN UIGoto("disconnect") ELSE UIReturn
    /\ UNCHANGED <<queueVars, m_Remote, m_OrphanedRemote, linkVars, loadVars, replay, helper,
                   connectVars, worker, blocked, crashed>>

UIDisconnect ==
    /\ ui.pc = "disconnect"
    /\ DisconnectFromRemoteServer /\ UIReturn
    /\ UNCHANGED <<queueVars, talkVars, opened, loadVars, replay, helper, connectVars, worker,
                   blocked, crashed>>

-----------------------------------------------------------------------------
(* Connecting.                                                             *)

\* setRemoteHost: let go of the server there is, and connect to another one.
SetRemoteHost ==
    /\ ui.pc = "idle" /\ ~Open /\ contextChooser
    /\ DisconnectFromRemoteServer
    /\ \/ connecting' = connecting + 1 /\ contextChooser' = FALSE
       \/ UNCHANGED connectVars
    /\ UNCHANGED <<queueVars, talkVars, opened, loadVars, replay, ui, helper, worker, blocked,
                   crashed>>

\* ConnectToRemoteServer, on a thread of its own and without the lock: done,
\* failed, or not called because the server is busy or does not run.
ConnectToRemoteServer(c) ==
    /\ connecting > 0 /\ link[c] = "unused"
    /\ connecting' = connecting - 1 /\ contextChooser' = TRUE
    /\ \/ m_RemoteHost' = "up" /\ m_Remote' = c /\ link' = [link EXCEPT ![c] = "up"]
       \/ m_RemoteHost' = "up" /\ UNCHANGED <<m_Remote, link>>
       \/ UNCHANGED <<m_RemoteHost, m_Remote, link>>
    /\ UNCHANGED <<queueVars, m_OrphanedRemote, talkVars, opened, loadVars, replay, ui, helper,
                   worker, blocked, crashed>>

\* The remote manager shuts the connected server down.
ShutdownServer ==
    /\ ui.pc = "idle" /\ May("ShutdownServer") /\ m_Remote # NoConnection
    /\ m_RemoteLock = NoThread
    /\ link' = [link EXCEPT ![m_Remote] = "closed"]
    /\ m_Remote' = NoConnection /\ m_RemoteHost' = "down"
    /\ UNCHANGED <<queueVars, m_OrphanedRemote, talkVars, opened, loadVars, replay, ui, helper,
                   connectVars, worker, blocked, crashed>>

\* The server crashes or the network fails.
ServerLost(c) ==
    /\ link[c] = "up" /\ link' = [link EXCEPT ![c] = "lost"]
    /\ UNCHANGED <<queueVars, remoteVars, talkVars, opened, loadVars, replay, ui, helper,
                   connectVars, worker, blocked, crashed>>

-----------------------------------------------------------------------------

\* What the UI does by itself, and what its user or a timer starts.
UIStep ==
    \/ UIOpened \/ UIFetched \/ UIOrphan \/ UIClosed \/ UIInvoked \/ UIRequested \/ UIHelped
    \/ UIPinged \/ UIDisconnect

UserStep ==
    \/ UILoadCapture \/ UICloseCapture \/ UIInvoke \/ UIRequest \/ UIHelp \/ SetRemoteHost
    \/ ShutdownServer \/ CheckLoaded \/ CheckUnloaded

HelperStep == HelperLock \/ HelperTalked

Next ==
    /\ ~crashed
    /\ \/ ReplayStep \/ UIStep \/ UserStep \/ HelperStep
       \/ \E w \in Workers : WorkerInvoke(w) \/ WorkerPush(w)
       \/ \E c \in Connections : ConnectToRemoteServer(c) \/ ServerLost(c)

Spec == Init /\ [][Next]_vars

\* Threads run; users, workers and servers do what they like.  Helper and
\* dialog get on although messageCheck takes lock and UI now and then: it comes
\* every 175 ms, and they are ready all the time in between.
FairSpec ==
    /\ Spec
    /\ WF_vars(~crashed /\ ReplayStep) /\ WF_vars(~crashed /\ UIStep)
    /\ SF_vars(~crashed /\ HelperStep) /\ SF_vars(~crashed /\ UIHelped)
    /\ \A w \in Workers : WF_vars(~crashed /\ WorkerPush(w))

-----------------------------------------------------------------------------
(* Types.                                                                  *)

UIPC     == {"idle", "loading", "fetching", "waiting", "request", "helped", "ping",
             "disconnect", "orphan", "closing"}
ReplayPC == {"off", "create", "creating", "loop", "take", "execute", "lock", "talking",
             "cleanup", "close", "closing"}
Callers  == Workers \cup {"ui"}

\* Every variable has its type, whoever holds the lock is in a conversation,
\* and a replay thread in its loop is one the UI has not given up.
ReplayManagerTypeOK ==
    /\ m_Running \in BOOLEAN /\ contextChooser \in BOOLEAN /\ m_CaptureLoaded \in BOOLEAN
    /\ {m_Remote, m_OrphanedRemote, replay.m_Renderer} \subseteq Connections \cup {NoConnection}
    /\ connecting \in Nat
    /\ m_RemoteHost \in {"none", "up", "down"}
    /\ m_RemoteLock \in Talkers \cup {NoThread}
    /\ m_RemoteLock # NoThread => talk[m_RemoteLock] # NoConnection
    /\ replay.pc \in ReplayPC /\ {ui.pc, ui.then} \subseteq UIPC
    /\ helper \in {"none", "lock", "talk"}
    /\ \A i \in DOMAIN m_RenderQueue :
         m_RenderQueue[i].from \in Callers /\ m_RenderQueue[i].capture \in 1 .. capture
    /\ link \in [Connections -> {"unused", "up", "lost", "closed"}]
    /\ m_CaptureLoaded => IsRunning

-----------------------------------------------------------------------------
(* Safety.                                                                 *)

\* Two threads never talk to a server at once: opening, closing and replaying
\* a capture do without m_RemoteLock and rely on what the UI does meanwhile.
OneConversation ==
    \A s, t \in Talkers : s # t /\ talk[s] # NoConnection => talk[s] # talk[t]

\* A connection is not shut down while a capture is open over it, and then
\* some pointer to it remains, so that it will be.
OpenCaptureKeepsConnection ==
    \A c \in Connections : opened[c] => link[c] # "closed" /\ c \in {m_Remote, m_OrphanedRemote}

\* No connection is forgotten without being shut down.
NoConnectionLeaks ==
    \A c \in Connections : link[c] \in {"up", "lost"} => c \in {m_Remote, m_OrphanedRemote}

\* A connection has one user at a time, lasts as long as it is needed, and is shut
\* down after that.
ConnectionsKept == OneConversation /\ OpenCaptureKeepsConnection /\ NoConnectionLeaks

\* A thread that waits for a command is not forgotten: the command is queued or
\* being executed, even when the capture is closed with commands left.
WaitedForCommandExists ==
    \A t \in blocked :
        LET Of(cmd) == cmd.from = t /\ cmd.wait # "no" IN
        Of(replay.cmd) \/ \E i \in DOMAIN m_RenderQueue : Of(m_RenderQueue[i])

\* What the UI asks of a capture is never executed on the next one.  (What a
\* worker asks may be: see WorkerPush.)
UICommandsOnTheirCapture ==
    replay.cmd.from = "ui" => replay.cmd.capture = capture

\* Commands are neither lost while somebody waits for them nor, those of the
\* UI, executed on another capture than the one they were meant for.
CommandsAreKept == WaitedForCommandExists /\ UICommandsOnTheirCapture

-----------------------------------------------------------------------------
(* Liveness, under FairSpec.                                               *)

\* The UI does not hang: every wait for the replay thread, the helper thread or
\* the lock ends.
UIComesBack == ui.pc # "idle" ~> ui.pc = "idle" \/ crashed

\* A worker's BlockInvoke returns, if the capture stays open.
WorkerAnswered ==
    <>[]IsRunning => \A w \in Workers : w \in blocked ~> w \notin blocked \/ crashed

\* A connection given to the replay thread is shut down.
OrphanIsShutDown == m_OrphanedRemote # NoConnection ~> m_OrphanedRemote = NoConnection \/ crashed

\* The UI, the workers and the connections given up: every wait has an end.
NobodyWaitsForEver == UIComesBack /\ WorkerAnswered /\ OrphanIsShutDown
=============================================================================
