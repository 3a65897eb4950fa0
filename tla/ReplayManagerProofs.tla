------------------------ MODULE ReplayManagerProofs ------------------------
(***************************************************************************)
(* For any number of captures, connections and workers.                    *)
(*                                                                         *)
(* Two theorems hold whatever the user does while a capture is open.  They *)
(* rest on where UI, replay thread and helper are at a time (Control): the *)
(* thread runs from the loading of a capture to the end of its closing.    *)
(* Then who is in a conversation and who holds the lock (Talks), and the   *)
(* commands (Queued): each step makes one of six moves of the queue        *)
(* (QueueMove), and the invariant is proved of the moves.  The commands    *)
(* left when a capture is closed are dropped, and only BlockInvoke's       *)
(* callers released: nobody may wait for a flag then (UIWaitsOnce).        *)
(*                                                                         *)
(* The third, about the connections, needs a user whom the UI keeps from   *)
(* the server while a capture is open (WhileOpen is empty): the connection *)
(* of the replay thread is m_Remote until it is orphaned                   *)
(* (RendererHasConnection), and nobody asks a server nor connects to one   *)
(* meanwhile (NobodyInterferes).                                           *)
(***************************************************************************)
EXTENDS ReplayManager, SequenceTheorems, TLAPS

\* What a queued command is.
Commands == [from : Callers, op : {"work", "remote", "ping"}, wait : {"no", "block", "flag"},
             capture : Nat]
-----------------------------------------------------------------------------
(* Who does what at a time: the UI, the replay thread, the helper.         *)

\* Calls the UI comes back from to where it was.
Away == {"request", "ping", "disconnect"}
UIAt == IF ui.pc \in Away THEN ui.then ELSE ui.pc

Starting == {"create", "creating"}
Looping  == {"loop", "take", "execute", "lock", "talking"}
Ending   == {"cleanup", "close", "closing"}

ReplayThread ==
    [pc : ReplayPC, cmd : Commands \cup {NoCommand}, m_Renderer : Connections \cup {NoConnection}]

ControlTypes ==
    /\ m_Running \in BOOLEAN /\ contextChooser \in BOOLEAN /\ m_CaptureLoaded \in BOOLEAN
    /\ connecting \in Nat /\ capture \in Nat
    /\ replay \in ReplayThread
    /\ ui \in [pc : UIPC, then : UIPC]
    /\ helper \in {"none", "lock", "talk"}

\* The thread runs from the loading of a capture to the end of its closing,
\* and m_Running while it is in its loop and not told to leave it.
ThreadFollowsUI ==
    /\ UIAt \notin Away /\ (ui.pc \in Away => UIAt \in {"idle", "helped"})
    /\ m_CaptureLoaded => m_Running /\ UIAt \in {"idle", "waiting"}
    /\ UIAt \in {"fetching", "orphan"} => m_Running
    /\ UIAt = "waiting" => m_CaptureLoaded
    /\ UIAt = "closing" => ~m_Running
    /\ UIAt \in {"idle", "helped"} /\ ~m_CaptureLoaded => replay.pc = "off"
    /\ UIAt = "closing" \/ replay.pc \notin Ending
    /\ UIAt = "loading" \/ replay.pc \notin Starting
    /\ m_Running => replay.pc \in Looping
    /\ replay.pc \in Looping /\ ~m_Running => UIAt = "closing"
    /\ ui.pc \in {"ping", "disconnect"} => ~m_CaptureLoaded
    /\ helper # "none" => UIAt = "helped"
    /\ replay.pc # "off" => capture > 0

Control == ControlTypes /\ ThreadFollowsUI

-----------------------------------------------------------------------------
(* Locks and conversations.                                                *)

TalkTypes ==
    /\ {m_Remote, m_OrphanedRemote} \subseteq Connections \cup {NoConnection}
    /\ m_RemoteHost \in {"none", "up", "down"}
    /\ m_RemoteLock \in Talkers \cup {NoThread}
    /\ talk \in [Talkers -> Connections \cup {NoConnection}]
    /\ link \in [Connections -> {"unused", "up", "lost", "closed"}]
    /\ opened \in [Connections -> BOOLEAN]

TalkersHaveTime ==
    /\ talk["ui"] # NoConnection => ui.pc \in {"request", "ping"}
    /\ talk["helper"] # NoConnection => helper = "talk"
    /\ talk["replay"] # NoConnection => replay.pc \in {"creating", "talking", "closing"}

LockIsForTalk ==
    /\ m_RemoteLock # NoThread => talk[m_RemoteLock] # NoConnection
    /\ m_RemoteLock = "replay" => replay.pc = "talking"
    /\ talk["ui"] # NoConnection => m_RemoteLock = "ui"
    /\ talk["helper"] # NoConnection => m_RemoteLock = "helper"

Talks == TalkTypes /\ TalkersHaveTime /\ LockIsForTalk

-----------------------------------------------------------------------------
(* Commands.                                                               *)

WaitedFor(cmd, t) == cmd.from = t /\ cmd.wait # "no"

QueueTypes ==
    /\ m_RenderQueue \in Seq(Commands)
    /\ \A i \in DOMAIN m_RenderQueue :
         /\ m_RenderQueue[i].capture \in 1 .. capture
         /\ m_RenderQueue[i].wait = "flag" => m_RenderQueue[i].from = "ui"

WorkerTypes ==
    /\ worker \in [Workers -> Commands \cup {NoCommand}]
    /\ \A w \in Workers : worker[w] # NoCommand =>
         worker[w].from = w /\ worker[w].wait # "flag" /\ worker[w].capture \in 1 .. capture

Executing == {"execute", "lock", "talking"}

UIQueues ==
    /\ \A i \in DOMAIN m_RenderQueue : m_RenderQueue[i].from = "ui" =>
         /\ m_RenderQueue[i].capture = capture
         /\ replay.pc \in Looping \cup {"cleanup"}
    /\ replay.cmd.from = "ui" => replay.cmd.capture = capture
    /\ replay.pc \notin Executing => replay.cmd = NoCommand

\* The UI waits for one command at a time, and only then there is one.
UIWaitsOnce ==
    /\ "ui" \in blocked => UIAt \in {"waiting", "fetching"}
    /\ WaitedFor(replay.cmd, "ui") => "ui" \in blocked
    /\ \A i \in DOMAIN m_RenderQueue : WaitedFor(m_RenderQueue[i], "ui") =>
         /\ "ui" \in blocked /\ ~WaitedFor(replay.cmd, "ui")
         /\ \A j \in DOMAIN m_RenderQueue : WaitedFor(m_RenderQueue[j], "ui") => j = i

Queued == QueueTypes /\ WorkerTypes /\ UIQueues /\ UIWaitsOnce /\ WaitedForCommandExists

-----------------------------------------------------------------------------
(* Connections, if WhileOpen is empty.                                     *)

\* A capture is open over the connection the replay thread has, which is
\* m_Remote until it is orphaned.
RendererHasConnection ==
    /\ replay.pc \in Looping \cup Ending =>
         \/ m_Remote = replay.m_Renderer /\ m_OrphanedRemote = NoConnection
         \/ m_Remote = NoConnection /\ m_OrphanedRemote = replay.m_Renderer
    /\ replay.pc \notin Looping \cup Ending =>
         replay.m_Renderer = NoConnection /\ m_OrphanedRemote = NoConnection
    /\ m_OrphanedRemote # NoConnection => UIAt = "closing"
    /\ replay.pc = "creating" => talk["replay"] = m_Remote /\ m_Remote # NoConnection
    /\ replay.pc = "closing" =>
         talk["replay"] = replay.m_Renderer /\ replay.m_Renderer # NoConnection
    /\ \A c \in Connections : opened[c] <=> c = replay.m_Renderer
    /\ replay.m_Renderer # NoConnection => link[replay.m_Renderer] # "closed"

\* Nothing is asked of a server, nor is one connected to, while a capture is open.
NobodyInterferes ==
    /\ ui.pc = "request" => ~m_CaptureLoaded
    /\ connecting > 0 =>
         /\ ~contextChooser /\ connecting = 1 /\ m_Remote = NoConnection /\ replay.pc = "off"
         /\ UIAt \in {"idle", "helped"}

Kept == RendererHasConnection /\ NobodyInterferes /\ NoConnectionLeaks

SafeInv == Control /\ Talks /\ Queued

-----------------------------------------------------------------------------
(* The threads.                                                            *)

LEMMA CommandsDiffer == NoCommand \notin Commands /\ "ui" \in Callers /\ "ui" \notin Workers
  <1>1. NoCommand \notin Commands
    BY DEF NoCommand, Commands
  <1>2. QED
    BY <1>1, WorkersAssumption DEF Callers

\* What a step of the replay thread does to the fields of replay.
ReplayMoved(pc, cmd, renderer) ==
    /\ replay' \in ReplayThread
    /\ replay'.pc = pc /\ replay'.cmd = cmd /\ replay'.m_Renderer = renderer

LEMMA GotoMoves ==
    ASSUME Control, NEW pc \in ReplayPC, Goto(pc)
    PROVE  ReplayMoved(pc, replay.cmd, replay.m_Renderer)
  BY DEF Control, ControlTypes, ReplayThread, Goto, ReplayMoved

LEMMA DoneMoves ==
    ASSUME Control, CommandDone
    PROVE  ReplayMoved("loop", NoCommand, replay.m_Renderer)
  BY DEF Control, ControlTypes, ReplayThread, CommandDone, ReplayMoved, ReplayPC

LEMMA ReplayMoves ==
    ASSUME SafeInv, ReplayStep
    PROVE  /\ \/ /\ replay.pc \in Starting /\ UNCHANGED m_Running
                 /\ ReplayMoved("creating", replay.cmd, replay.m_Renderer)
              \/ /\ replay.pc \in Starting /\ UNCHANGED m_Running
                 /\ ReplayMoved("off", replay.cmd, replay.m_Renderer)
              \/ /\ replay.pc \in Starting /\ m_Running' = TRUE
                 /\ \E r \in Connections \cup {NoConnection} : ReplayMoved("loop", replay.cmd, r)
              \/ /\ replay.pc \in Looping /\ UNCHANGED m_Running
                 /\ \E pc \in Looping, cmd \in Commands \cup {NoCommand} :
                      ReplayMoved(pc, cmd, replay.m_Renderer)
              \/ /\ replay.pc \in Looping /\ ~m_Running /\ UNCHANGED m_Running
                 /\ ReplayMoved("cleanup", replay.cmd, replay.m_Renderer)
              \/ /\ replay.pc \in Ending /\ UNCHANGED m_Running
                 /\ \E pc \in Ending \cup {"off"}, r \in {replay.m_Renderer, NoConnection} :
                      ReplayMoved(pc, replay.cmd, r)
           /\ UNCHANGED <<ui, helper, contextChooser, connecting, m_CaptureLoaded, capture>>
  <1>1. Control /\ replay \in ReplayThread
    BY DEF SafeInv, Control, ControlTypes
  <1>2. Starting \cup Looping \cup Ending \cup {"off"} \subseteq ReplayPC
    BY DEF Starting, Looping, Ending, ReplayPC
  <1>3. CASE ReplayCreate
    <2>1. replay.pc \in Starting
      BY <1>3 DEF ReplayCreate, Starting
    <2>2. /\ \/ Goto("loop") /\ m_Running' = TRUE
             \/ Goto("off") /\ UNCHANGED m_Running
             \/ Goto("creating") /\ UNCHANGED m_Running
          /\ UNCHANGED <<ui, helper, contextChooser, connecting, m_CaptureLoaded, capture>>
      BY <1>3 DEF ReplayCreate, loadVars, connectVars
    <2>3. replay.m_Renderer \in Connections \cup {NoConnection}
      BY <1>1 DEF ReplayThread
    <2>4. QED
      BY <1>1, <1>2, <2>1, <2>2, <2>3, GotoMoves DEF Looping, Starting
  <1>4. CASE ReplayCreated
    <2>1. replay.pc \in Starting /\ talk["replay"] \in Connections \cup {NoConnection}
      BY <1>4 DEF ReplayCreated, Starting, SafeInv, Talks, TalkTypes, Talkers
    <2>2. /\ \/ /\ replay' = [replay EXCEPT !.pc = "loop", !.m_Renderer = talk["replay"]]
                /\ m_Running' = TRUE
             \/ Goto("off") /\ UNCHANGED m_Running
          /\ UNCHANGED <<ui, helper, contextChooser, connecting, m_CaptureLoaded, capture>>
      BY <1>4 DEF ReplayCreated, loadVars, connectVars
    <2>3. replay' = [replay EXCEPT !.pc = "loop", !.m_Renderer = talk["replay"]] =>
            ReplayMoved("loop", replay.cmd, talk["replay"])
      BY <1>1, <1>2, <2>1 DEF ReplayMoved, ReplayThread, Looping
    <2>4. QED
      BY <1>1, <1>2, <2>1, <2>2, <2>3, GotoMoves
  <1>5. CASE ReplayLoop
    <2>1. /\ replay.pc \in Looping /\ UNCHANGED m_Running
          /\ \/ Goto("take")
             \/ ~m_Running /\ Goto("cleanup")
          /\ UNCHANGED <<ui, helper, contextChooser, connecting, m_CaptureLoaded, capture>>
      BY <1>5 DEF ReplayLoop, Looping, queueVars, loadVars, connectVars
    <2>2. "take" \in Looping /\ "cleanup" \in Ending
      BY DEF Looping, Ending
    <2>3. replay.cmd \in Commands \cup {NoCommand}
      BY <1>1 DEF ReplayThread
    <2>4. QED
      BY <1>1, <1>2, <2>1, <2>2, <2>3, GotoMoves
  <1>6. CASE ReplayTake
    <2>1. /\ replay.pc \in Looping /\ UNCHANGED m_Running
          /\ UNCHANGED <<ui, helper, contextChooser, connecting, m_CaptureLoaded, capture>>
      BY <1>6 DEF ReplayTake, Looping, loadVars, connectVars
    <2>2. CASE Goto("loop")
      <3>1. "loop" \in Looping /\ replay.cmd \in Commands \cup {NoCommand}
        BY <1>1 DEF Looping, ReplayThread
      <3>2. QED
        BY <1>1, <1>2, <2>1, <2>2, <3>1, GotoMoves
    <2>3. CASE m_RenderQueue # <<>> /\
               replay' = [replay EXCEPT !.pc = "execute", !.cmd = Head(m_RenderQueue)]
      <3>1. PICK cmd \in Commands : cmd = Head(m_RenderQueue)
        <4>1. m_RenderQueue \in Seq(Commands)
          BY DEF SafeInv, Queued, QueueTypes
        <4>2. QED
          BY <2>3, <4>1
      <3>2. "execute" \in Looping
        BY DEF Looping
      <3>3. ReplayMoved("execute", cmd, replay.m_Renderer)
        BY <1>1, <1>2, <2>3, <3>1, <3>2 DEF ReplayMoved, ReplayThread
      <3>4. QED
        BY <2>1, <3>2, <3>3
    <2>4. QED
      BY <1>6, <2>2, <2>3 DEF ReplayTake
  <1>7. CASE ReplayExecute \/ ReplayLock \/ ReplayTalked
    <2>1. /\ replay.pc \in Looping /\ UNCHANGED m_Running
          /\ Goto("talking") \/ Goto("lock") \/ CommandDone
          /\ UNCHANGED <<ui, helper, contextChooser, connecting, m_CaptureLoaded, capture>>
      BY <1>7 DEF ReplayExecute, ReplayLock, ReplayTalked, Looping, queueVars, loadVars, connectVars
    <2>2. {"talking", "lock", "loop"} \subseteq Looping
      BY DEF Looping
    <2>3. replay.cmd \in Commands \cup {NoCommand}
      BY <1>1 DEF ReplayThread
    <2>4. QED
      BY <1>1, <1>2, <2>1, <2>2, <2>3, GotoMoves, DoneMoves
  <1>8. CASE ReplayCleanup \/ ReplayClose \/ ReplayClosed
    <2>1. /\ replay.pc \in Ending /\ UNCHANGED m_Running
          /\ \/ Goto("close") \/ Goto("closing")
             \/ replay' = [replay EXCEPT !.pc = "off", !.m_Renderer = NoConnection]
          /\ UNCHANGED <<ui, helper, contextChooser, connecting, m_CaptureLoaded, capture>>
      BY <1>8 DEF ReplayCleanup, ReplayClose, ReplayClosed, Ending, queueVars, loadVars, connectVars
    <2>2. {"close", "closing"} \subseteq Ending
      BY DEF Ending
    <2>3. replay' = [replay EXCEPT !.pc = "off", !.m_Renderer = NoConnection] =>
            ReplayMoved("off", replay.cmd, NoConnection)
      BY <1>1, <1>2 DEF ReplayMoved, ReplayThread
    <2>4. QED
      BY <1>1, <1>2, <2>1, <2>2, <2>3, GotoMoves
  <1>9. QED
    BY <1>3, <1>4, <1>5, <1>6, <1>7, <1>8 DEF ReplayStep

LEMMA ReplayKeepsControl ==
    ASSUME SafeInv, ReplayStep
    PROVE  Control'
  <1>1. /\ Control
        /\ ui' = ui /\ helper' = helper /\ contextChooser' = contextChooser
        /\ connecting' = connecting /\ m_CaptureLoaded' = m_CaptureLoaded /\ capture' = capture
    BY ReplayMoves DEF SafeInv
  <1>2. /\ replay' \in ReplayThread
        /\ \/ /\ replay.pc \in Starting /\ m_Running' = m_Running
              /\ replay'.pc \in {"creating", "off"}
           \/ replay.pc \in Starting /\ m_Running' = TRUE /\ replay'.pc = "loop"
           \/ replay.pc \in Looping /\ m_Running' = m_Running /\ replay'.pc \in Looping
           \/ replay.pc \in Looping /\ ~m_Running /\ m_Running' = m_Running /\ replay'.pc = "cleanup"
           \/ replay.pc \in Ending /\ m_Running' = m_Running /\ replay'.pc \in Ending \cup {"off"}
    <2>1. ASSUME NEW pc \in Looping, NEW cmd, ReplayMoved(pc, cmd, replay.m_Renderer)
          PROVE  replay' \in ReplayThread /\ replay'.pc \in Looping
      BY <2>1 DEF ReplayMoved
    <2>2. ASSUME NEW pc \in Ending \cup {"off"}, NEW r, ReplayMoved(pc, replay.cmd, r)
          PROVE  replay' \in ReplayThread /\ replay'.pc \in Ending \cup {"off"}
      BY <2>2 DEF ReplayMoved
    <2>3. ASSUME NEW pc, NEW r, ReplayMoved(pc, replay.cmd, r)
          PROVE  replay' \in ReplayThread /\ replay'.pc = pc
      BY <2>3 DEF ReplayMoved
    <2>4. QED
      BY <2>1, <2>2, <2>3, ReplayMoves
  <1>3. ControlTypes'
    <2>1. ControlTypes /\ m_Running' \in BOOLEAN
      BY <1>1, <1>2 DEF Control, ControlTypes
    <2>2. QED
      BY <1>1, <1>2, <2>1 DEF ControlTypes
  <1>4. ThreadFollowsUI'
    BY <1>1, <1>2 DEF Control, ThreadFollowsUI, UIAt, Away, Starting, Looping, Ending
  <1>5. QED
    BY <1>3, <1>4 DEF Control

LEMMA ConnectingTyped ==
    ASSUME SafeInv, SetRemoteHost \/ \E c \in Connections : ConnectToRemoteServer(c) \/ ServerLost(c)
    PROVE  connecting' \in Nat /\ contextChooser' \in BOOLEAN
  <1>1. connecting \in Nat /\ contextChooser \in BOOLEAN
    BY DEF SafeInv, Control, ControlTypes
  <1>2. CASE SetRemoteHost
    <2>1. CASE UNCHANGED connectVars
      <3>1. contextChooser' = contextChooser /\ connecting' = connecting
        BY <2>1 DEF connectVars
      <3>2. QED
        BY <1>1, <3>1
    <2>2. CASE connecting' = connecting + 1 /\ contextChooser' = FALSE
      <3>1. connecting' \in Nat
        BY <1>1, <2>2
      <3>2. QED
        BY <2>2, <3>1
    <2>3. QED
      BY <1>2, <2>1, <2>2 DEF SetRemoteHost
  <1>3. ASSUME NEW c \in Connections, ConnectToRemoteServer(c) \/ ServerLost(c)
        PROVE  connecting' \in Nat /\ contextChooser' \in BOOLEAN
    <2>1. CASE ConnectToRemoteServer(c)
      <3>1. connecting > 0 /\ connecting' = connecting - 1 /\ contextChooser' = TRUE
        BY <2>1 DEF ConnectToRemoteServer
      <3>2. connecting' \in Nat
        BY <1>1, <3>1
      <3>3. QED
        BY <3>1, <3>2
    <2>2. CASE ServerLost(c)
      BY <1>1, <2>2 DEF ServerLost, connectVars
    <2>3. QED
      BY <1>3, <2>1, <2>2
  <1>4. QED
    BY <1>2, <1>3

LEMMA UIKeepsControl ==
    ASSUME SafeInv, UIStep \/ UserStep
    PROVE  Control'
  <1> USE DEF SafeInv, Control, ControlTypes, ThreadFollowsUI, UIAt, Away, Starting, Looping, Ending,
              ReplayPC, UIPC, UIGoto, UICall, UIReturn, Open, IsRunning, ThreadRunning, loadVars,
              connectVars, queueVars
  <1>1. CASE UIOpened
    BY <1>1 DEF UIOpened
  <1>2. CASE UIFetched
    BY <1>2 DEF UIFetched
  <1>3. CASE UIOrphan
    BY <1>3 DEF UIOrphan, CloseThread
  <1>4. CASE UIClosed
    BY <1>4 DEF UIClosed
  <1>5. CASE UIInvoked
    BY <1>5 DEF UIInvoked
  <1>6. CASE UIRequested
    BY <1>6 DEF UIRequested
  <1>7. CASE UIHelped
    BY <1>7 DEF UIHelped
  <1>8. CASE UIPinged
    BY <1>8 DEF UIPinged
  <1>9. CASE UIDisconnect
    BY <1>9 DEF UIDisconnect
  <1>10. CASE UILoadCapture
    BY <1>10 DEF UILoadCapture, ReplayThread
  <1>11. CASE UICloseCapture
    BY <1>11 DEF UICloseCapture, CloseThread
  <1>12. CASE UIInvoke
    BY <1>12 DEF UIInvoke
  <1>13. CASE UIRequest
    BY <1>13 DEF UIRequest
  <1>14. CASE UIHelp
    BY <1>14 DEF UIHelp
  <1>15. CASE SetRemoteHost
    <2>1. connecting' \in Nat /\ contextChooser' \in BOOLEAN
      BY <1>15, ConnectingTyped
    <2>2. UNCHANGED <<m_Running, m_CaptureLoaded, capture, replay, ui, helper>>
      BY <1>15 DEF SetRemoteHost
    <2>3. QED
      BY <2>1, <2>2
  <1>16. CASE ShutdownServer
    BY <1>16 DEF ShutdownServer
  <1>17. CASE CheckLoaded
    BY <1>17 DEF CheckLoaded
  <1>18. CASE CheckUnloaded
    BY <1>18 DEF CheckUnloaded, HandlesEvents
  <1>19. QED
    BY <1>1, <1>2, <1>3, <1>4, <1>5, <1>6, <1>7, <1>8, <1>9, <1>10, <1>11, <1>12, <1>13, <1>14,
       <1>15, <1>16, <1>17, <1>18 DEF UIStep, UserStep

LEMMA OthersKeepControl ==
    ASSUME SafeInv,
           \/ HelperStep \/ UNCHANGED vars
           \/ \E w \in Workers : WorkerInvoke(w) \/ WorkerPush(w)
           \/ \E c \in Connections : ConnectToRemoteServer(c) \/ ServerLost(c)
    PROVE  Control'
  <1> USE DEF SafeInv, Control, ControlTypes, ThreadFollowsUI, UIAt, loadVars, connectVars, queueVars
  <1>1. CASE HelperStep
    BY <1>1 DEF HelperStep, HelperLock, HelperTalked
  <1>2. CASE UNCHANGED vars
    BY <1>2 DEF vars
  <1>3. ASSUME NEW w \in Workers, WorkerInvoke(w) \/ WorkerPush(w)
        PROVE  Control'
    BY <1>3 DEF WorkerInvoke, WorkerPush
  <1>4. ASSUME NEW c \in Connections, ConnectToRemoteServer(c) \/ ServerLost(c)
        PROVE  Control'
    <2>1. connecting' \in Nat /\ contextChooser' \in BOOLEAN
      BY <1>4, ConnectingTyped
    <2>2. UNCHANGED <<m_Running, m_CaptureLoaded, capture, replay, ui, helper>>
      BY <1>4 DEF ConnectToRemoteServer, ServerLost
    <2>3. QED
      BY <2>1, <2>2
  <1>5. QED
    BY <1>1, <1>2, <1>3, <1>4

-----------------------------------------------------------------------------
(* The conversations.                                                      *)

LEMMA TalkTypesKept ==
    ASSUME SafeInv, [Next]_vars
    PROVE  TalkTypes'
  <1> USE DEF SafeInv, Talks, TalkTypes
  <1>1. Control /\ replay.m_Renderer \in Connections \cup {NoConnection}
    BY DEF Control, ControlTypes, ReplayThread
  <1>2. {"ui", "replay", "helper"} \subseteq Talkers
    BY DEF Talkers
  <1>3. CASE UNCHANGED vars
    BY <1>3 DEF vars, remoteVars, talkVars, linkVars
  <1>4. CASE ReplayStep
    <2>1. CASE ReplayCreate
      BY <1>2, <2>1 DEF ReplayCreate, remoteVars, linkVars, Talk
    <2>2. CASE ReplayCreated
      BY <1>2, <2>2 DEF ReplayCreated, remoteVars, Hang
    <2>3. CASE ReplayLoop \/ ReplayTake \/ ReplayCleanup
      BY <2>3 DEF ReplayLoop, ReplayTake, ReplayCleanup, remoteVars, talkVars, linkVars
    <2>4. CASE ReplayExecute
      BY <1>1, <1>2, <2>4 DEF ReplayExecute, remoteVars, linkVars, Talk
    <2>5. CASE ReplayLock
      BY <1>2, <2>5 DEF ReplayLock, remoteVars, linkVars, talkVars, LockAndTalk, Talk
    <2>6. CASE ReplayTalked
      BY <1>2, <2>6 DEF ReplayTalked, linkVars, UnlockAndHang, Hang, Pinged
    <2>7. CASE ReplayClose
      BY <1>2, <2>7 DEF ReplayClose, remoteVars, linkVars, Talk
    <2>8. CASE ReplayClosed
      BY <1>2, <2>8 DEF ReplayClosed, Hang
    <2>9. QED
      BY <1>4, <2>1, <2>2, <2>3, <2>4, <2>5, <2>6, <2>7, <2>8 DEF ReplayStep
  <1>5. ASSUME DisconnectFromRemoteServer, UNCHANGED <<talkVars, opened>>
        PROVE  TalkTypes'
    BY <1>5 DEF DisconnectFromRemoteServer, talkVars
  <1>6. CASE UIStep \/ UserStep
    <2>1. CASE \/ UIOpened \/ UIFetched \/ UIClosed \/ UIInvoked \/ UIHelped \/ UILoadCapture
               \/ UICloseCapture \/ UIInvoke \/ UIHelp \/ CheckLoaded
      BY <2>1 DEF UIOpened, UIFetched, UIClosed, UIInvoked, UIHelped, UILoadCapture, UICloseCapture,
                  UIInvoke, UIHelp, CheckLoaded, remoteVars, talkVars, linkVars
    <2>2. CASE UIOrphan \/ UIDisconnect \/ SetRemoteHost
      BY <1>5, <2>2 DEF UIOrphan, UIDisconnect, SetRemoteHost
    <2>3. CASE UIRequested
      BY <1>2, <2>3 DEF UIRequested, remoteVars, linkVars, UnlockAndHang, Hang
    <2>4. CASE UIPinged
      BY <1>2, <2>4 DEF UIPinged, linkVars, UnlockAndHang, Hang, Pinged
    <2>5. CASE UIRequest
      BY <1>2, <2>5 DEF UIRequest, remoteVars, linkVars, talkVars, LockAndTalk, Talk
    <2>6. CASE CheckUnloaded
      BY <1>2, <2>6 DEF CheckUnloaded, remoteVars, linkVars, talkVars, LockAndTalk, Talk
    <2>7. CASE ShutdownServer
      BY <2>7 DEF ShutdownServer, talkVars
    <2>8. QED
      BY <1>6, <2>1, <2>2, <2>3, <2>4, <2>5, <2>6, <2>7 DEF UIStep, UserStep
  <1>7. CASE HelperStep
    BY <1>2, <1>7 DEF HelperStep, HelperLock, HelperTalked, remoteVars, linkVars, talkVars,
                      LockAndTalk,
                      Talk, UnlockAndHang, Hang
  <1>8. ASSUME NEW w \in Workers, WorkerInvoke(w) \/ WorkerPush(w)
        PROVE  TalkTypes'
    BY <1>8 DEF WorkerInvoke, WorkerPush, remoteVars, talkVars, linkVars
  <1>9. ASSUME NEW c \in Connections, ConnectToRemoteServer(c) \/ ServerLost(c)
        PROVE  TalkTypes'
    BY <1>9 DEF ConnectToRemoteServer, ServerLost, remoteVars, talkVars
  <1>10. QED
    BY <1>3, <1>4, <1>6, <1>7, <1>8, <1>9 DEF Next

LEMMA TalkersKept ==
    ASSUME SafeInv, [Next]_vars
    PROVE  (TalkersHaveTime /\ LockIsForTalk)'
  <1> USE DEF Talkers, TalkersHaveTime, LockIsForTalk
  <1>1. /\ TalkTypes /\ TalkersHaveTime /\ LockIsForTalk /\ replay \in ReplayThread
        /\ ui \in [pc : UIPC, then : UIPC]
        /\ talk \in [Talkers -> Connections \cup {NoConnection}]
        /\ m_RemoteLock \in Talkers \cup {NoThread}
    BY DEF SafeInv, Talks, TalkTypes, Control, ControlTypes
  <1>2. "replay" \in Talkers /\ "ui" \in Talkers /\ "helper" \in Talkers /\ NoThread \notin Talkers
    BY DEF NoThread
  <1>3. CASE UNCHANGED vars
    BY <1>1, <1>3 DEF vars, talkVars
  <1>4. CASE ReplayStep
    <2>1. ui' = ui /\ helper' = helper
      BY <1>4, ReplayMoves
    <2>2. CASE ReplayCreate
      BY <1>1, <1>2, <2>1, <2>2 DEF ReplayCreate, Talk, Goto, ReplayThread
    <2>3. CASE ReplayCreated
      BY <1>1, <1>2, <2>1, <2>3 DEF ReplayCreated, Hang, Goto, ReplayThread
    <2>4. CASE ReplayLoop \/ ReplayTake \/ ReplayCleanup
      BY <1>1, <1>2, <2>1, <2>4
         DEF ReplayLoop, ReplayTake, ReplayCleanup, talkVars, Goto, ReplayThread
    <2>5. CASE ReplayExecute
      BY <1>1, <1>2, <2>1, <2>5 DEF ReplayExecute, Talk, Goto, CommandDone, ReplayThread
    <2>6. CASE ReplayLock
      BY <1>1, <1>2, <2>1, <2>6
         DEF ReplayLock, talkVars, LockAndTalk, Talk, Goto, CommandDone, ReplayThread
    <2>7. CASE ReplayTalked
      BY <1>1, <1>2, <2>1, <2>7 DEF ReplayTalked, UnlockAndHang, Hang, Goto, CommandDone, ReplayThread
    <2>8. CASE ReplayClose
      BY <1>1, <1>2, <2>1, <2>8 DEF ReplayClose, Talk, Goto, ReplayThread
    <2>9. CASE ReplayClosed
      BY <1>1, <1>2, <2>1, <2>9 DEF ReplayClosed, Hang, Goto, ReplayThread
    <2>10. QED
      BY <1>4, <2>2, <2>3, <2>4, <2>5, <2>6, <2>7, <2>8, <2>9 DEF ReplayStep
  <1>5. CASE UIStep \/ UserStep
    <2>1. CASE UIOpened \/ UIFetched \/ UIClosed \/ UIInvoked \/ UIHelped
      BY <1>1, <1>2, <2>1 DEF UIOpened, UIFetched, UIClosed, UIInvoked, UIHelped, talkVars, UIGoto
    <2>2. CASE UILoadCapture \/ UICloseCapture \/ UIInvoke \/ UIHelp \/ CheckLoaded
      <3>1. talk' = talk /\ m_RemoteLock' = m_RemoteLock
        BY <2>2 DEF UILoadCapture, UICloseCapture, UIInvoke, UIHelp, CheckLoaded, talkVars
      <3>2. CASE UILoadCapture
        BY <1>1, <1>2, <3>1, <3>2 DEF UILoadCapture, UIGoto, Open, ThreadRunning, ReplayThread
      <3>3. CASE UICloseCapture \/ UIInvoke \/ CheckLoaded
        BY <1>1, <1>2, <3>1, <3>3 DEF UICloseCapture, UIInvoke, CheckLoaded, UIGoto, CloseThread
      <3>4. CASE UIHelp
        <4>1. helper = "none"
          BY <3>4 DEF UIHelp, SafeInv, Control, ThreadFollowsUI, UIAt, Away
        <4>2. QED
          BY <1>1, <1>2, <3>1, <3>4, <4>1 DEF UIHelp, UIGoto
      <3>5. QED
        BY <2>2, <3>2, <3>3, <3>4
    <2>3. CASE UIOrphan \/ UIDisconnect \/ SetRemoteHost \/ ShutdownServer
      BY <1>1, <1>2, <2>3
         DEF UIOrphan, UIDisconnect, SetRemoteHost, ShutdownServer, talkVars, CloseThread,
             UIGoto, UIReturn
    <2>4. CASE UIRequested
      BY <1>1, <1>2, <2>4 DEF UIRequested, UnlockAndHang, Hang
    <2>5. CASE UIPinged
      BY <1>1, <1>2, <2>5 DEF UIPinged, UnlockAndHang, Hang
    <2>6. CASE UIRequest
      BY <1>1, <1>2, <2>6 DEF UIRequest, talkVars, LockAndTalk, Talk, UICall
    <2>7. CASE CheckUnloaded
      BY <1>1, <1>2, <2>7 DEF CheckUnloaded, HandlesEvents, talkVars, LockAndTalk, Talk, UICall
    <2>8. QED
      BY <1>5, <2>1, <2>2, <2>3, <2>4, <2>5, <2>6, <2>7 DEF UIStep, UserStep
  <1>6. CASE HelperStep
    BY <1>1, <1>2, <1>6 DEF HelperStep, HelperLock, HelperTalked, talkVars, LockAndTalk, Talk,
                            UnlockAndHang, Hang
  <1>7. ASSUME NEW w \in Workers, WorkerInvoke(w) \/ WorkerPush(w)
        PROVE  (TalkersHaveTime /\ LockIsForTalk)'
    BY <1>1, <1>7 DEF WorkerInvoke, WorkerPush, talkVars
  <1>8. ASSUME NEW c \in Connections, ConnectToRemoteServer(c) \/ ServerLost(c)
        PROVE  (TalkersHaveTime /\ LockIsForTalk)'
    BY <1>1, <1>8 DEF ConnectToRemoteServer, ServerLost, talkVars
  <1>9. QED
    BY <1>3, <1>4, <1>5, <1>6, <1>7, <1>8 DEF Next

-----------------------------------------------------------------------------
(* The queue: what each kind of step does to it.                           *)

QuietMove ==
    /\ m_RenderQueue' = m_RenderQueue /\ blocked' = blocked /\ capture' = capture
    /\ replay'.cmd = replay.cmd
    /\ replay.pc \in Looping \cup {"cleanup"} => replay'.pc \in Looping \cup {"cleanup"}
    /\ replay'.pc \notin Executing => replay.cmd = NoCommand
    /\ "ui" \in blocked => UIAt' = UIAt

Pushes(cmd) ==
    /\ PushInvoke(cmd) /\ replay' = replay /\ capture' = capture
    /\ cmd.capture \in 1 .. capture /\ (cmd.wait = "flag" => cmd.from = "ui")
    /\ cmd.from = "ui" => cmd.capture = capture /\ replay.pc \in Looping
    /\ IF WaitedFor(cmd, "ui")
         THEN "ui" \notin blocked /\ UIAt' \in {"waiting", "fetching"}
         ELSE UIAt' = UIAt

PushMove == \E cmd \in Commands : Pushes(cmd)

TakeMove ==
    /\ m_RenderQueue # <<>> /\ m_RenderQueue' = Tail(m_RenderQueue)
    /\ replay.cmd = NoCommand /\ replay'.cmd = Head(m_RenderQueue)
    /\ replay.pc \in Looping /\ replay'.pc = "execute"
    /\ blocked' = blocked /\ capture' = capture /\ UIAt' = UIAt

DoneMove ==
    /\ m_RenderQueue' = m_RenderQueue /\ capture' = capture /\ UIAt' = UIAt
    /\ replay.pc \in Looping /\ replay'.pc = "loop" /\ replay'.cmd = NoCommand
    /\ blocked' = IF replay.cmd.wait = "no" THEN blocked ELSE blocked \ {replay.cmd.from}

DropMove ==
    /\ m_RenderQueue' = <<>> /\ capture' = capture /\ UIAt' = UIAt
    /\ replay.pc = "cleanup" /\ replay'.pc = "close" /\ replay'.cmd = replay.cmd
    /\ blocked' = {t \in blocked : \A i \in DOMAIN m_RenderQueue :
                     m_RenderQueue[i].wait = "block" => m_RenderQueue[i].from # t}

OpenMove ==
    /\ m_RenderQueue' = m_RenderQueue /\ blocked' = blocked /\ capture' = capture + 1
    /\ replay.pc = "off" /\ replay'.pc = "create" /\ replay'.cmd = NoCommand
    /\ UIAt = "idle" /\ UIAt' = "loading"

QueueMove == QuietMove \/ PushMove \/ TakeMove \/ DoneMove \/ DropMove \/ OpenMove

LEMMA ReplayMovesQueue ==
    ASSUME SafeInv, ReplayStep
    PROVE  QueueMove
  <1>1. /\ replay \in ReplayThread /\ replay' \in ReplayThread /\ UIAt' = UIAt
        /\ capture' = capture
    BY ReplayMoves DEF ReplayMoved, UIAt, SafeInv, Control, ControlTypes
  <1>2. replay.pc \notin Executing => replay.cmd = NoCommand
    BY DEF SafeInv, Queued, UIQueues
  <1> USE DEF Goto, Looping, Executing
  <1>3. CASE ReplayCreate
    BY <1>1, <1>2, <1>3 DEF ReplayCreate, ReplayThread, QueueMove, QuietMove
  <1>4. CASE ReplayCreated
    BY <1>1, <1>2, <1>4 DEF ReplayCreated, ReplayThread, QueueMove, QuietMove
  <1>5. CASE ReplayLoop
    BY <1>1, <1>2, <1>5 DEF ReplayLoop, queueVars, ReplayThread, QueueMove, QuietMove
  <1>6. CASE ReplayTake
    <2>1. CASE m_RenderQueue = <<>>
      BY <1>1, <1>2, <1>6, <2>1 DEF ReplayTake, ReplayThread, QueueMove, QuietMove
    <2>2. CASE m_RenderQueue # <<>>
      <3>1. replay' = [replay EXCEPT !.pc = "execute", !.cmd = Head(m_RenderQueue)]
        BY <1>6, <2>2 DEF ReplayTake
      <3>2. replay'.pc = "execute" /\ replay'.cmd = Head(m_RenderQueue)
        BY <1>1, <3>1 DEF ReplayThread
      <3>3. /\ replay.pc = "take" /\ m_RenderQueue' = Tail(m_RenderQueue) /\ blocked' = blocked
        BY <1>6, <2>2 DEF ReplayTake
      <3>4. QED
        BY <1>1, <1>2, <2>2, <3>2, <3>3 DEF QueueMove, TakeMove
    <2>3. QED
      BY <2>1, <2>2
  <1>7. CASE ReplayExecute \/ ReplayLock \/ ReplayTalked
    <2>1. CASE CommandDone
      BY <1>1, <1>7, <2>1
         DEF ReplayExecute, ReplayLock, ReplayTalked, CommandDone, ReplayThread, queueVars,
             QueueMove, DoneMove
    <2>2. CASE ~CommandDone
      <3>1. /\ Goto("talking") \/ Goto("lock")
            /\ m_RenderQueue' = m_RenderQueue /\ blocked' = blocked
        BY <1>7, <2>2 DEF ReplayExecute, ReplayLock, ReplayTalked, queueVars
      <3>2. QED
        BY <1>1, <3>1 DEF ReplayThread, QueueMove, QuietMove
    <2>3. QED
      BY <2>1, <2>2
  <1>8. CASE ReplayCleanup
    <2>1. /\ replay.pc = "cleanup" /\ replay'.pc = "close" /\ replay'.cmd = replay.cmd
          /\ m_RenderQueue' = <<>>
      BY <1>1, <1>8 DEF ReplayCleanup, ReplayThread
    <2>2. blocked' = {t \in blocked : \A i \in DOMAIN m_RenderQueue :
                       m_RenderQueue[i].wait = "block" => m_RenderQueue[i].from # t}
      BY <1>8 DEF ReplayCleanup
    <2>3. QED
      BY <1>1, <2>1, <2>2 DEF QueueMove, DropMove
  <1>9. CASE ReplayClose \/ ReplayClosed
    <2>1. /\ m_RenderQueue' = m_RenderQueue /\ blocked' = blocked
          /\ replay.pc \in {"close", "closing"} /\ replay'.pc \in {"off", "closing"}
          /\ replay'.cmd = replay.cmd
      BY <1>1, <1>9 DEF ReplayClose, ReplayClosed, queueVars, ReplayThread
    <2>2. QED
      BY <1>1, <1>2, <2>1 DEF QueueMove, QuietMove
  <1>10. QED
    BY <1>3, <1>4, <1>5, <1>6, <1>7, <1>8, <1>9 DEF ReplayStep


LEMMA UIMovesQueue ==
    ASSUME SafeInv, UIStep \/ UserStep
    PROVE  QueueMove
  <1>1. /\ Control /\ replay \in ReplayThread /\ ui \in [pc : UIPC, then : UIPC] /\ capture \in Nat
        /\ replay.pc \notin Executing => replay.cmd = NoCommand
        /\ "ui" \in blocked => UIAt \in {"waiting", "fetching"}
        /\ ui.pc \in Away => UIAt \in {"idle", "helped"}
    BY DEF SafeInv, Queued, UIQueues, UIWaitsOnce, Control, ControlTypes, ThreadFollowsUI
  <1>2. ASSUME m_RenderQueue' = m_RenderQueue, blocked' = blocked, capture' = capture,
               replay' = replay,
               "ui" \notin blocked \/ UIAt' = UIAt
        PROVE  QueueMove
    BY <1>1, <1>2 DEF QueueMove, QuietMove
  <1>3. CASE UIOpened
    <2>1. CASE ~ThreadRunning
      BY <1>1, <1>2, <1>3, <2>1 DEF UIOpened, IsRunning, loadVars, UIAt, Away
    <2>2. CASE ThreadRunning
      <3>1. /\ m_Running /\ UIAt = "loading" /\ UIAt' = "fetching"
            /\ PushInvoke(Command("ui", "work", "block")) /\ replay' = replay /\ capture' = capture
        BY <1>1, <1>3, <2>2 DEF UIOpened, IsRunning, loadVars, UIGoto, UIAt, Away
      <3>2. replay.pc \in Looping /\ capture \in 1 .. capture
        BY <1>1, <3>1 DEF Control, ThreadFollowsUI, Looping
      <3>3. PICK cmd \in Commands : cmd = Command("ui", "work", "block")
        BY <1>1 DEF Command, Commands, Callers
      <3>4. Pushes(cmd)
        BY <1>1, <3>1, <3>2, <3>3 DEF Pushes, Command, WaitedFor
      <3>5. QED
        BY <3>4 DEF QueueMove, PushMove
    <2>3. QED
      BY <2>1, <2>2
  <1>4. CASE UIInvoke
    <2>1. PICK op \in {"work", "remote"}, wait \in {"no", "block", "flag"} :
            /\ PushInvoke(Command("ui", op, wait))
            /\ IF wait = "no" THEN UNCHANGED ui ELSE UIGoto("waiting")
      BY <1>4 DEF UIInvoke
    <2>2. /\ ui.pc = "idle" /\ m_CaptureLoaded /\ replay' = replay /\ capture' = capture
      BY <1>4 DEF UIInvoke, loadVars
    <2>3. UIAt = "idle" /\ UIAt' = IF wait = "no" THEN "idle" ELSE "waiting"
      BY <1>1, <2>1, <2>2 DEF UIAt, Away, UIGoto
    <2>4. replay.pc \in Looping /\ capture \in 1 .. capture
      BY <1>1, <2>2 DEF Control, ThreadFollowsUI, Looping
    <2>5. PICK cmd \in Commands : cmd = Command("ui", op, wait)
      BY <1>1 DEF Command, Commands, Callers
    <2>6. cmd.from = "ui" /\ cmd.wait = wait /\ cmd.capture = capture
      BY <2>5 DEF Command
    <2>7. Pushes(cmd)
      BY <1>1, <2>1, <2>2, <2>3, <2>4, <2>5, <2>6 DEF Pushes, WaitedFor
    <2>8. QED
      BY <2>7 DEF QueueMove, PushMove
  <1>5. CASE CheckLoaded
    <2>1. /\ PushInvoke(Command("ui", "ping", "no")) /\ m_CaptureLoaded
          /\ replay' = replay /\ capture' = capture /\ UIAt' = UIAt
      BY <1>5 DEF CheckLoaded, loadVars, UIAt
    <2>2. replay.pc \in Looping /\ capture \in 1 .. capture
      BY <1>1, <2>1 DEF Control, ThreadFollowsUI, Looping
    <2>3. PICK cmd \in Commands : cmd = Command("ui", "ping", "no")
      BY <1>1 DEF Command, Commands, Callers
    <2>4. cmd.from = "ui" /\ cmd.wait = "no" /\ cmd.capture = capture
      BY <2>3 DEF Command
    <2>5. Pushes(cmd)
      BY <2>1, <2>2, <2>3, <2>4 DEF Pushes, WaitedFor
    <2>6. QED
      BY <2>5 DEF QueueMove, PushMove
  <1>6. CASE UILoadCapture
    <2>1. /\ ui.pc = "idle" /\ replay.pc = "off" /\ ui' = [ui EXCEPT !.pc = "loading"]
          /\ replay' = [pc |-> "create", cmd |-> NoCommand, m_Renderer |-> NoConnection]
          /\ m_RenderQueue' = m_RenderQueue /\ blocked' = blocked /\ capture' = capture + 1
      BY <1>6 DEF UILoadCapture, Open, ThreadRunning, queueVars, UIGoto
    <2>2. UIAt = "idle" /\ UIAt' = "loading"
      BY <1>1, <2>1 DEF UIAt, Away
    <2>3. QED
      BY <2>1, <2>2 DEF QueueMove, OpenMove
  <1>7. CASE UIFetched \/ UIInvoked
    <2>1. /\ "ui" \notin blocked /\ m_RenderQueue' = m_RenderQueue /\ blocked' = blocked
          /\ capture' = capture /\ replay' = replay
      BY <1>7 DEF UIFetched, UIInvoked, loadVars, queueVars
    <2>2. QED
      BY <1>2, <2>1
  <1>8. CASE UIOrphan \/ UIClosed \/ UIHelped \/ UICloseCapture \/ UIHelp
    <2>1. /\ ui.pc \in {"orphan", "closing", "helped", "idle"}
          /\ m_RenderQueue' = m_RenderQueue /\ blocked' = blocked
          /\ capture' = capture /\ replay' = replay
      BY <1>8 DEF UIOrphan, UIClosed, UIHelped, UICloseCapture, UIHelp, loadVars, queueVars
    <2>2. QED
      BY <1>1, <1>2, <2>1 DEF UIAt, Away
  <1>9. CASE UIRequested \/ UIPinged \/ UIDisconnect
    <2>1. /\ ui.pc \in Away
          /\ m_RenderQueue' = m_RenderQueue /\ blocked' = blocked
          /\ capture' = capture /\ replay' = replay
      BY <1>9 DEF UIRequested, UIPinged, UIDisconnect, loadVars, queueVars, Away
    <2>2. QED
      BY <1>1, <1>2, <2>1
  <1>10. CASE UIRequest \/ CheckUnloaded
    <2>1. /\ m_RenderQueue' = m_RenderQueue /\ blocked' = blocked
          /\ capture' = capture /\ replay' = replay
          /\ UICall("request") \/ UICall("ping") \/ UICall("disconnect")
          /\ ui.pc \notin Away
      BY <1>10 DEF UIRequest, CheckUnloaded, HandlesEvents, loadVars, queueVars, Away
    <2>2. UIAt' = UIAt
      BY <1>1, <2>1 DEF UICall, UIAt, Away
    <2>3. QED
      BY <1>2, <2>1, <2>2
  <1>11. CASE SetRemoteHost \/ ShutdownServer
    <2>1. /\ m_RenderQueue' = m_RenderQueue /\ blocked' = blocked
          /\ capture' = capture /\ replay' = replay /\ UIAt' = UIAt
      BY <1>11 DEF SetRemoteHost, ShutdownServer, loadVars, queueVars, UIAt
    <2>2. QED
      BY <1>2, <2>1
  <1>12. QED
    BY <1>3, <1>4, <1>5, <1>6, <1>7, <1>8, <1>9, <1>10, <1>11 DEF UIStep, UserStep

LEMMA EveryStepMovesQueue ==
    ASSUME SafeInv, [Next]_vars
    PROVE  QueueMove
  <1>1. /\ replay.pc \notin Executing => replay.cmd = NoCommand
        /\ worker \in [Workers -> Commands \cup {NoCommand}]
    BY DEF SafeInv, Queued, UIQueues, WorkerTypes
  <1>2. ASSUME m_RenderQueue' = m_RenderQueue, blocked' = blocked, capture' = capture,
               replay' = replay,
               ui' = ui
        PROVE  QueueMove
    BY <1>1, <1>2 DEF QueueMove, QuietMove, UIAt
  <1>3. CASE UNCHANGED vars
    BY <1>2, <1>3 DEF vars, queueVars, loadVars
  <1>4. CASE HelperStep
    BY <1>2, <1>4 DEF HelperStep, HelperLock, HelperTalked, queueVars, loadVars
  <1>5. ASSUME NEW c \in Connections, ConnectToRemoteServer(c) \/ ServerLost(c)
        PROVE  QueueMove
    BY <1>2, <1>5 DEF ConnectToRemoteServer, ServerLost, queueVars, loadVars
  <1>6. ASSUME NEW w \in Workers, WorkerInvoke(w)
        PROVE  QueueMove
    BY <1>2, <1>6 DEF WorkerInvoke, queueVars, loadVars
  <1>7. ASSUME NEW w \in Workers, WorkerPush(w)
        PROVE  QueueMove
    <2>1. /\ worker[w] # NoCommand /\ PushInvoke(worker[w]) /\ replay' = replay /\ capture' = capture
          /\ UIAt' = UIAt
      BY <1>7 DEF WorkerPush, loadVars, UIAt
    <2>2. PICK cmd \in Commands : cmd = worker[w]
      BY <1>1, <2>1
    <2>3. /\ cmd.from # "ui" /\ cmd.wait # "flag" /\ cmd.capture \in 1 .. capture
      BY <2>1, <2>2, CommandsDiffer DEF SafeInv, Queued, WorkerTypes
    <2>4. Pushes(cmd)
      BY <2>1, <2>2, <2>3 DEF Pushes, WaitedFor
    <2>5. QED
      BY <2>4 DEF QueueMove, PushMove
  <1>8. QED
    BY <1>3, <1>4, <1>5, <1>6, <1>7, ReplayMovesQueue, UIMovesQueue DEF Next

-----------------------------------------------------------------------------
(* The queue: what is in it.                                               *)

\* What a push and a take do to the commands queued.
LEMMA QueuePushed ==
    ASSUME m_RenderQueue \in Seq(Commands), NEW cmd \in Commands, PushInvoke(cmd)
    PROVE  /\ m_RenderQueue' \in Seq(Commands)
           /\ DOMAIN m_RenderQueue' = DOMAIN m_RenderQueue \cup {Len(m_RenderQueue) + 1}
           /\ Len(m_RenderQueue) + 1 \notin DOMAIN m_RenderQueue
           /\ \A i \in DOMAIN m_RenderQueue : m_RenderQueue'[i] = m_RenderQueue[i]
           /\ m_RenderQueue'[Len(m_RenderQueue) + 1] = cmd
           /\ blocked' = IF cmd.wait = "no" THEN blocked ELSE blocked \cup {cmd.from}
  BY DEF PushInvoke

LEMMA QueueTaken ==
    ASSUME m_RenderQueue \in Seq(Commands), m_RenderQueue # <<>>, m_RenderQueue' = Tail(m_RenderQueue)
    PROVE  /\ m_RenderQueue' \in Seq(Commands)
           /\ \A i \in DOMAIN m_RenderQueue' :
                /\ i + 1 \in DOMAIN m_RenderQueue /\ i + 1 # 1
                /\ m_RenderQueue'[i] = m_RenderQueue[i + 1]
           /\ \A i \in DOMAIN m_RenderQueue : i # 1 =>
                /\ i - 1 \in DOMAIN m_RenderQueue' /\ i = (i - 1) + 1
                /\ m_RenderQueue'[i - 1] = m_RenderQueue[i]
           /\ 1 \in DOMAIN m_RenderQueue /\ Head(m_RenderQueue) = m_RenderQueue[1]
           /\ DOMAIN m_RenderQueue \subseteq Nat /\ DOMAIN m_RenderQueue' \subseteq Nat
  OBVIOUS

LEMMA QueueTypesKept ==
    ASSUME SafeInv, QueueMove
    PROVE  QueueTypes'
  <1>1. QueueTypes /\ capture \in Nat /\ m_RenderQueue \in Seq(Commands)
    BY DEF SafeInv, Queued, Control, ControlTypes, QueueTypes
  <1>2. CASE m_RenderQueue' = m_RenderQueue /\ capture' \in {capture, capture + 1}
    BY <1>1, <1>2 DEF QueueTypes
  <1>3. ASSUME NEW cmd \in Commands, Pushes(cmd)
        PROVE  QueueTypes'
    <2>1. /\ m_RenderQueue' \in Seq(Commands) /\ capture' = capture
          /\ DOMAIN m_RenderQueue' = DOMAIN m_RenderQueue \cup {Len(m_RenderQueue) + 1}
          /\ \A i \in DOMAIN m_RenderQueue : m_RenderQueue'[i] = m_RenderQueue[i]
          /\ m_RenderQueue'[Len(m_RenderQueue) + 1] = cmd
          /\ cmd.capture \in 1 .. capture /\ (cmd.wait = "flag" => cmd.from = "ui")
      BY <1>1, <1>3, QueuePushed DEF Pushes
    <2>2. QED
      BY <1>1, <2>1 DEF QueueTypes
  <1>4. CASE TakeMove
    <2>1. /\ m_RenderQueue' \in Seq(Commands) /\ capture' = capture
          /\ \A i \in DOMAIN m_RenderQueue' :
               i + 1 \in DOMAIN m_RenderQueue /\ m_RenderQueue'[i] = m_RenderQueue[i + 1]
      BY <1>1, <1>4, QueueTaken DEF TakeMove
    <2>2. QED
      BY <1>1, <2>1 DEF QueueTypes
  <1>5. CASE DropMove
    <2>1. m_RenderQueue' = <<>>
      BY <1>5 DEF DropMove
    <2>2. m_RenderQueue' \in Seq(Commands) /\ DOMAIN m_RenderQueue' = {}
      BY <2>1
    <2>3. QED
      BY <2>2 DEF QueueTypes
  <1>6. QED
    BY <1>2, <1>3, <1>4, <1>5 DEF QueueMove, PushMove, QuietMove, DoneMove, OpenMove

LEMMA WorkersKept ==
    ASSUME SafeInv, [Next]_vars
    PROVE  WorkerTypes'
  <1>1. WorkerTypes /\ capture \in Nat /\ capture' \in {capture, capture + 1} /\ Control
    <2>1. capture' \in {capture, capture + 1}
      BY EveryStepMovesQueue
         DEF QueueMove, PushMove, Pushes, QuietMove, TakeMove, DoneMove, DropMove, OpenMove
    <2>2. QED
      BY <2>1 DEF SafeInv, Queued, Control, ControlTypes
  <1>2. CASE worker' = worker
    BY <1>1, <1>2 DEF WorkerTypes
  <1>3. ASSUME NEW w \in Workers, WorkerInvoke(w)
        PROVE  WorkerTypes'
    <2>1. PICK wait \in {"no", "block"} : worker' = [worker EXCEPT ![w] = Command(w, "work", wait)]
      BY <1>3 DEF WorkerInvoke
    <2>2. capture \in 1 .. capture
      BY <1>1, <1>3 DEF WorkerInvoke, IsRunning, ThreadRunning, Control, ThreadFollowsUI
    <2>3. PICK cmd \in Commands : cmd = Command(w, "work", wait)
      BY <1>1 DEF Command, Commands, Callers
    <2>4. cmd.from = w /\ cmd.wait = wait /\ cmd.capture = capture
      BY <2>3 DEF Command
    <2>5. worker' = [worker EXCEPT ![w] = cmd]
      BY <2>1, <2>3
    <2>6. QED
      BY <1>1, <2>2, <2>4, <2>5 DEF WorkerTypes
  <1>4. ASSUME NEW w \in Workers, WorkerPush(w)
        PROVE  WorkerTypes'
    <2>1. worker' = [worker EXCEPT ![w] = NoCommand]
      BY <1>4 DEF WorkerPush
    <2>2. QED
      BY <1>1, <2>1 DEF WorkerTypes
  <1>5. CASE ReplayStep
    BY <1>2, <1>5 DEF ReplayStep, ReplayCreate, ReplayCreated, ReplayLoop, ReplayTake, ReplayExecute,
                      ReplayLock, ReplayTalked, ReplayCleanup, ReplayClose, ReplayClosed
  <1>6. CASE UIStep \/ UserStep
    BY <1>2, <1>6 DEF UIStep, UserStep, UIOpened, UIFetched, UIOrphan, UIClosed, UIInvoked,
                      UIRequested, UIHelped, UIPinged, UIDisconnect, UILoadCapture, UICloseCapture,
                      UIInvoke, UIRequest, UIHelp, SetRemoteHost, ShutdownServer, CheckLoaded, CheckUnloaded
  <1>7. CASE HelperStep \/ UNCHANGED vars
    BY <1>2, <1>7 DEF HelperStep, HelperLock, HelperTalked, vars
  <1>8. ASSUME NEW c \in Connections, ConnectToRemoteServer(c) \/ ServerLost(c)
        PROVE  WorkerTypes'
    BY <1>2, <1>8 DEF ConnectToRemoteServer, ServerLost
  <1>9. QED
    BY <1>3, <1>4, <1>5, <1>6, <1>7, <1>8 DEF Next

LEMMA UIQueuesKept ==
    ASSUME SafeInv, QueueMove
    PROVE  UIQueues'
  <1>1. /\ UIQueues /\ QueueTypes /\ m_RenderQueue \in Seq(Commands)
        /\ replay.cmd \in Commands \cup {NoCommand} /\ capture \in Nat
        /\ NoCommand.from # "ui"
    BY DEF SafeInv, Queued, QueueTypes, Control, ControlTypes, ReplayThread, NoCommand, NoThread
  <1>2. CASE QuietMove
    BY <1>1, <1>2 DEF QuietMove, UIQueues
  <1>3. ASSUME NEW cmd \in Commands, Pushes(cmd)
        PROVE  UIQueues'
    <2>1. /\ DOMAIN m_RenderQueue' = DOMAIN m_RenderQueue \cup {Len(m_RenderQueue) + 1}
          /\ \A i \in DOMAIN m_RenderQueue : m_RenderQueue'[i] = m_RenderQueue[i]
          /\ m_RenderQueue'[Len(m_RenderQueue) + 1] = cmd
          /\ cmd.from = "ui" => cmd.capture = capture /\ replay.pc \in Looping
          /\ capture' = capture /\ replay' = replay
      BY <1>1, <1>3, QueuePushed DEF Pushes
    <2>2. QED
      BY <1>1, <2>1 DEF UIQueues
  <1>4. CASE TakeMove
    <2>1. /\ \A i \in DOMAIN m_RenderQueue' :
               i + 1 \in DOMAIN m_RenderQueue /\ m_RenderQueue'[i] = m_RenderQueue[i + 1]
          /\ 1 \in DOMAIN m_RenderQueue /\ replay'.cmd = m_RenderQueue[1]
          /\ capture' = capture /\ replay'.pc = "execute"
      BY <1>1, <1>4, QueueTaken DEF TakeMove
    <2>2. "execute" \in Looping /\ "execute" \in Executing
      BY DEF Looping, Executing
    <2>3. \A i \in DOMAIN m_RenderQueue :
            m_RenderQueue[i].from = "ui" => m_RenderQueue[i].capture = capture
      BY <1>1 DEF UIQueues
    <2>4. QED
      BY <2>1, <2>2, <2>3 DEF UIQueues
  <1>5. CASE DoneMove
    <2>1. "loop" \in Looping
      BY DEF Looping
    <2>2. QED
      BY <1>1, <1>5, <2>1 DEF DoneMove, UIQueues
  <1>6. CASE DropMove
    <2>1. m_RenderQueue' = <<>> /\ replay.cmd = NoCommand /\ replay'.cmd = NoCommand
      BY <1>1, <1>6 DEF DropMove, UIQueues, Executing
    <2>2. DOMAIN m_RenderQueue' = {}
      BY <2>1
    <2>3. QED
      BY <1>1, <2>1, <2>2 DEF UIQueues
  <1>7. CASE OpenMove
    <2>1. \A i \in DOMAIN m_RenderQueue : m_RenderQueue[i].from # "ui"
      BY <1>1, <1>7 DEF OpenMove, UIQueues, Looping
    <2>2. QED
      BY <1>1, <1>7, <2>1 DEF OpenMove, UIQueues
  <1>8. QED
    BY <1>2, <1>3, <1>4, <1>5, <1>6, <1>7 DEF QueueMove, PushMove

\* Nobody is released whose command is still to come, and the UI waits for one.
LEMMA WaitsKept ==
    ASSUME SafeInv, QueueMove
    PROVE  (UIWaitsOnce /\ WaitedForCommandExists)'
  <1> DEFINE Exists(cmd, queue, t) ==
               WaitedFor(cmd, t) \/ \E i \in DOMAIN queue : WaitedFor(queue[i], t)
  <1>1. /\ UIWaitsOnce /\ UIQueues /\ QueueTypes /\ m_RenderQueue \in Seq(Commands)
        /\ \A t \in blocked : Exists(replay.cmd, m_RenderQueue, t)
        /\ \A t : ~WaitedFor(NoCommand, t)
    BY DEF SafeInv, Queued, QueueTypes, WaitedForCommandExists, WaitedFor, NoCommand
  <1>2. SUFFICES UIWaitsOnce' /\ \A t \in blocked' : Exists(replay'.cmd, m_RenderQueue', t)
    BY DEF WaitedForCommandExists, WaitedFor
  <1>3. CASE QuietMove
    BY <1>1, <1>3 DEF QuietMove, UIWaitsOnce
  <1>4. ASSUME NEW cmd \in Commands, Pushes(cmd)
        PROVE  UIWaitsOnce' /\ \A t \in blocked' : Exists(replay'.cmd, m_RenderQueue', t)
    <2>1. /\ DOMAIN m_RenderQueue' = DOMAIN m_RenderQueue \cup {Len(m_RenderQueue) + 1}
          /\ Len(m_RenderQueue) + 1 \notin DOMAIN m_RenderQueue
          /\ \A i \in DOMAIN m_RenderQueue : m_RenderQueue'[i] = m_RenderQueue[i]
          /\ m_RenderQueue'[Len(m_RenderQueue) + 1] = cmd
          /\ blocked' = IF cmd.wait = "no" THEN blocked ELSE blocked \cup {cmd.from}
          /\ replay'.cmd = replay.cmd
          /\ IF WaitedFor(cmd, "ui")
               THEN "ui" \notin blocked /\ UIAt' \in {"waiting", "fetching"}
               ELSE UIAt' = UIAt
      BY <1>1, <1>4, QueuePushed DEF Pushes
    <2>2. ASSUME NEW t \in blocked'
          PROVE  Exists(replay'.cmd, m_RenderQueue', t)
      <3>1. CASE t \in blocked
        BY <1>1, <2>1, <3>1
      <3>2. CASE t \notin blocked
        <4>1. WaitedFor(cmd, t)
          BY <2>1, <2>2, <3>2 DEF WaitedFor
        <4>2. QED
          BY <2>1, <4>1
      <3>3. QED
        BY <3>1, <3>2
    <2>3. UIWaitsOnce'
      <3>1. CASE WaitedFor(cmd, "ui")
        <4>1. /\ \A i \in DOMAIN m_RenderQueue : ~WaitedFor(m_RenderQueue[i], "ui")
              /\ ~WaitedFor(replay.cmd, "ui")
          BY <1>1, <2>1, <3>1 DEF UIWaitsOnce
        <4>2. "ui" \in blocked' /\ UIAt' \in {"waiting", "fetching"}
          BY <2>1, <3>1 DEF WaitedFor
        <4>3. QED
          BY <2>1, <4>1, <4>2 DEF UIWaitsOnce
      <3>2. CASE ~WaitedFor(cmd, "ui")
        <4>1. ("ui" \in blocked' <=> "ui" \in blocked) /\ UIAt' = UIAt
          BY <2>1, <3>2 DEF WaitedFor
        <4>2. QED
          BY <1>1, <2>1, <3>2, <4>1 DEF UIWaitsOnce
      <3>3. QED
        BY <3>1, <3>2
    <2>4. QED
      BY <2>2, <2>3
  <1>5. CASE TakeMove
    <2>1. /\ \A i \in DOMAIN m_RenderQueue' :
               i + 1 \in DOMAIN m_RenderQueue /\ i + 1 # 1 /\ m_RenderQueue'[i] = m_RenderQueue[i + 1]
          /\ \A i \in DOMAIN m_RenderQueue : i # 1 =>
               /\ i - 1 \in DOMAIN m_RenderQueue' /\ i = (i - 1) + 1
               /\ m_RenderQueue'[i - 1] = m_RenderQueue[i]
          /\ DOMAIN m_RenderQueue \subseteq Nat /\ DOMAIN m_RenderQueue' \subseteq Nat
          /\ 1 \in DOMAIN m_RenderQueue /\ replay'.cmd = m_RenderQueue[1] /\ replay.cmd = NoCommand
          /\ blocked' = blocked /\ UIAt' = UIAt
      BY <1>1, <1>5, QueueTaken DEF TakeMove
    <2>2. ASSUME NEW t \in blocked'
          PROVE  Exists(replay'.cmd, m_RenderQueue', t)
      <3>1. PICK i \in DOMAIN m_RenderQueue : WaitedFor(m_RenderQueue[i], t)
        BY <1>1, <2>1, <2>2
      <3>2. QED
        BY <2>1, <3>1
    <2>3. UIWaitsOnce'
      <3>1. ASSUME NEW i \in DOMAIN m_RenderQueue', WaitedFor(m_RenderQueue'[i], "ui")
            PROVE  /\ "ui" \in blocked' /\ ~WaitedFor(replay'.cmd, "ui")
                   /\ \A j \in DOMAIN m_RenderQueue' : WaitedFor(m_RenderQueue'[j], "ui") => j = i
        <4>1. /\ i + 1 \in DOMAIN m_RenderQueue /\ i + 1 # 1
              /\ WaitedFor(m_RenderQueue[i + 1], "ui")
          BY <2>1, <3>1
        <4>2. /\ "ui" \in blocked
              /\ \A j \in DOMAIN m_RenderQueue : WaitedFor(m_RenderQueue[j], "ui") => j = i + 1
          BY <1>1, <4>1 DEF UIWaitsOnce
        <4>3. ASSUME NEW j \in DOMAIN m_RenderQueue', WaitedFor(m_RenderQueue'[j], "ui")
              PROVE  j = i
          <5>1. j + 1 \in DOMAIN m_RenderQueue /\ WaitedFor(m_RenderQueue[j + 1], "ui")
            BY <2>1, <4>3
          <5>2. j + 1 = i + 1 /\ i \in Nat /\ j \in Nat
            BY <2>1, <4>2, <5>1
          <5>3. QED
            BY <5>2
        <4>4. ~WaitedFor(replay'.cmd, "ui")
          BY <2>1, <4>1, <4>2
        <4>5. QED
          BY <2>1, <4>2, <4>3, <4>4
      <3>2. WaitedFor(replay'.cmd, "ui") => "ui" \in blocked'
        BY <1>1, <2>1 DEF UIWaitsOnce
      <3>3. "ui" \in blocked' => UIAt' \in {"waiting", "fetching"}
        BY <1>1, <2>1 DEF UIWaitsOnce
      <3>4. QED
        BY <3>1, <3>2, <3>3 DEF UIWaitsOnce
    <2>4. QED
      BY <2>2, <2>3
  <1>6. CASE DoneMove
    <2>1. /\ m_RenderQueue' = m_RenderQueue /\ replay'.cmd = NoCommand /\ UIAt' = UIAt
          /\ blocked' = IF replay.cmd.wait = "no" THEN blocked ELSE blocked \ {replay.cmd.from}
      BY <1>6 DEF DoneMove
    <2>2. \A t \in blocked' : t \in blocked /\ ~WaitedFor(replay.cmd, t)
      BY <2>1 DEF WaitedFor
    <2>3. ~WaitedFor(replay.cmd, "ui") => ("ui" \in blocked' <=> "ui" \in blocked)
      BY <2>1 DEF WaitedFor
    <2>4. QED
      BY <1>1, <2>1, <2>2, <2>3 DEF UIWaitsOnce
  <1>7. CASE DropMove
    <2>1. /\ m_RenderQueue' = <<>> /\ replay.cmd = NoCommand /\ replay'.cmd = NoCommand
          /\ UIAt' = UIAt /\ UIAt = "closing"
          /\ blocked' = {t \in blocked : \A i \in DOMAIN m_RenderQueue :
                           m_RenderQueue[i].wait = "block" => m_RenderQueue[i].from # t}
      BY <1>1, <1>7
         DEF DropMove, UIQueues, Executing, SafeInv, Control, ThreadFollowsUI, Ending
    <2>2. \A i \in DOMAIN m_RenderQueue : ~WaitedFor(m_RenderQueue[i], "ui")
      BY <1>1, <2>1 DEF UIWaitsOnce
    <2>3. blocked' = {}
      <3>1. ASSUME NEW t \in blocked'
            PROVE  FALSE
        <4>1. PICK i \in DOMAIN m_RenderQueue : WaitedFor(m_RenderQueue[i], t)
          BY <1>1, <2>1, <3>1
        <4>2. /\ m_RenderQueue[i] \in Commands
              /\ m_RenderQueue[i].from = t /\ m_RenderQueue[i].wait # "no"
          BY <1>1, <4>1 DEF WaitedFor
        <4>3. m_RenderQueue[i].wait \in {"block", "flag"}
          BY <4>2 DEF Commands
        <4>4. m_RenderQueue[i].wait = "flag" => t = "ui"
          BY <1>1, <4>2 DEF QueueTypes
        <4>5. QED
          BY <2>1, <2>2, <3>1, <4>1, <4>2, <4>3, <4>4
      <3>2. QED
        BY <3>1
    <2>4. DOMAIN m_RenderQueue' = {}
      BY <2>1
    <2>5. QED
      BY <1>1, <2>1, <2>3, <2>4 DEF UIWaitsOnce
  <1>8. CASE OpenMove
    <2>1. /\ m_RenderQueue' = m_RenderQueue /\ blocked' = blocked /\ replay'.cmd = NoCommand
          /\ "ui" \notin blocked /\ replay.cmd = NoCommand
      BY <1>1, <1>8 DEF OpenMove, UIWaitsOnce, UIQueues, Executing
    <2>2. QED
      BY <1>1, <2>1 DEF UIWaitsOnce
  <1>9. QED
    BY <1>3, <1>4, <1>5, <1>6, <1>7, <1>8 DEF QueueMove, PushMove

LEMMA InitSafe == Init => SafeInv
  <1> SUFFICES ASSUME Init
               PROVE  SafeInv
    OBVIOUS
  <1>1. Control
    BY DEF Init, Control, ControlTypes, ThreadFollowsUI, UIAt, Away, Starting, Looping, Ending,
           ReplayThread, ReplayPC, UIPC
  <1>2. Talks
    BY DEF Init, Talks, TalkTypes, TalkersHaveTime, LockIsForTalk, Talkers, NoThread
  <1>3. Queued
    <2>1. m_RenderQueue = <<>> /\ replay.cmd = NoCommand /\ blocked = {} /\ capture = 0
          /\ worker = [w \in Workers |-> NoCommand]
      BY DEF Init
    <2>2. m_RenderQueue \in Seq(Commands) /\ DOMAIN m_RenderQueue = {}
      BY <2>1
    <2>3. NoCommand.from # "ui" /\ NoCommand.wait = "no"
      BY DEF NoCommand, NoThread
    <2>4. QED
      BY <2>1, <2>2, <2>3 DEF Queued, QueueTypes, WorkerTypes, UIQueues, UIWaitsOnce,
                              WaitedForCommandExists, WaitedFor
  <1>4. QED
    BY <1>1, <1>2, <1>3 DEF SafeInv

LEMMA StepSafe ==
    ASSUME SafeInv, [Next]_vars
    PROVE  SafeInv'
  <1>1. Control'
    BY ReplayKeepsControl, UIKeepsControl, OthersKeepControl DEF Next
  <1>2. Talks'
    BY TalkTypesKept, TalkersKept DEF Talks
  <1>3. Queued'
    BY EveryStepMovesQueue, QueueTypesKept, WorkersKept, UIQueuesKept, WaitsKept DEF Queued
  <1>4. QED
    BY <1>1, <1>2, <1>3 DEF SafeInv

LEMMA SafeHolds == Spec => []SafeInv
  BY InitSafe, StepSafe, PTL DEF Spec

\* Every variable keeps its type, in any number of captures, with any number of
\* workers and whatever a user does while a capture is open: who holds the lock
\* is in a conversation, and a capture that is loaded has a thread that runs.
THEOREM ReplayManagerTypeCorrect == Spec => []ReplayManagerTypeOK
  <1>1. SafeInv => ReplayManagerTypeOK
    <2> SUFFICES ASSUME SafeInv
                 PROVE  ReplayManagerTypeOK
      OBVIOUS
    <2>1. Control /\ Talks /\ QueueTypes /\ m_RenderQueue \in Seq(Commands)
      BY DEF SafeInv, Queued, QueueTypes
    <2>2. /\ m_Running \in BOOLEAN /\ contextChooser \in BOOLEAN /\ m_CaptureLoaded \in BOOLEAN
          /\ connecting \in Nat /\ helper \in {"none", "lock", "talk"}
          /\ replay.pc \in ReplayPC /\ {ui.pc, ui.then} \subseteq UIPC
          /\ replay.m_Renderer \in Connections \cup {NoConnection}
      BY <2>1 DEF Control, ControlTypes, ReplayThread
    <2>3. /\ {m_Remote, m_OrphanedRemote} \subseteq Connections \cup {NoConnection}
          /\ m_RemoteHost \in {"none", "up", "down"}
          /\ m_RemoteLock \in Talkers \cup {NoThread}
          /\ m_RemoteLock # NoThread => talk[m_RemoteLock] # NoConnection
          /\ link \in [Connections -> {"unused", "up", "lost", "closed"}]
      BY <2>1 DEF Talks, TalkTypes, LockIsForTalk
    <2>4. ASSUME NEW i \in DOMAIN m_RenderQueue
          PROVE  m_RenderQueue[i].from \in Callers /\ m_RenderQueue[i].capture \in 1 .. capture
      <3>1. m_RenderQueue[i] \in Commands
        BY <2>1
      <3>2. QED
        BY <2>1, <3>1 DEF QueueTypes, Commands
    <2>5. m_CaptureLoaded => IsRunning
      BY <2>1 DEF Control, ThreadFollowsUI, IsRunning, ThreadRunning, Looping
    <2>6. QED
      BY <2>2, <2>3, <2>4, <2>5 DEF ReplayManagerTypeOK
  <1>2. QED
    BY <1>1, SafeHolds, PTL

\* Commands are neither lost while somebody waits for them nor, those of the
\* UI, executed on another capture, although captures are closed with commands
\* in the queue and workers queue theirs at any time.
THEOREM CommandsStay == Spec => []CommandsAreKept
  <1>1. SafeInv => CommandsAreKept
    BY DEF SafeInv, Queued, UIQueues, CommandsAreKept, UICommandsOnTheirCapture
  <1>2. QED
    BY <1>1, SafeHolds, PTL

-----------------------------------------------------------------------------
(* The connections.                                                        *)

KeptInv == SafeInv /\ Kept

\* Steps that have nothing to do with a connection, but perhaps end a command.
Leaves ==
    /\ m_Remote' = m_Remote /\ m_OrphanedRemote' = m_OrphanedRemote
    /\ link' = link /\ opened' = opened
    /\ replay'.m_Renderer = replay.m_Renderer
    /\ \/ replay'.pc = replay.pc
       \/ replay.pc \in Looping /\ replay'.pc \in Looping \cup {"cleanup"}
       \/ replay.pc = "cleanup" /\ replay'.pc = "close"
    /\ replay.pc \in {"creating", "closing"} => talk'["replay"] = talk["replay"]
    /\ m_OrphanedRemote # NoConnection => UIAt' = UIAt

LEMMA LeavesKeeps ==
    ASSUME RendererHasConnection, NoConnectionLeaks, Leaves
    PROVE  (RendererHasConnection /\ NoConnectionLeaks)'
  <1>1. NoConnectionLeaks'
    BY DEF Leaves, NoConnectionLeaks
  <1>2. RendererHasConnection'
    BY DEF Leaves, RendererHasConnection, Looping, Ending
  <1>3. QED
    BY <1>1, <1>2

LEMMA ReplayKeepsConnections ==
    ASSUME KeptInv, ReplayStep
    PROVE  (RendererHasConnection /\ NoConnectionLeaks)'
  <1>1. /\ RendererHasConnection /\ NoConnectionLeaks /\ SafeInv
        /\ replay \in ReplayThread /\ replay' \in ReplayThread /\ UIAt' = UIAt
        /\ talk \in [Talkers -> Connections \cup {NoConnection}] /\ "replay" \in Talkers
        /\ m_Remote \in Connections \cup {NoConnection}
        /\ m_OrphanedRemote \in Connections \cup {NoConnection}
        /\ opened \in [Connections -> BOOLEAN]
        /\ link \in [Connections -> {"unused", "up", "lost", "closed"}]
        /\ NoConnection \notin Connections
    BY ReplayMoves, ConnectionsAssumption
       DEF ReplayMoved, UIAt, KeptInv, Kept, SafeInv, Control, ControlTypes, Talks, TalkTypes, Talkers
  <1> USE DEF Goto, Looping, Ending
  <1>2. CASE ReplayLoop \/ ReplayTake \/ ReplayExecute \/ ReplayLock \/ ReplayTalked \/ ReplayCleanup
    <2>1. /\ m_Remote' = m_Remote /\ m_OrphanedRemote' = m_OrphanedRemote
          /\ link' = link /\ opened' = opened
          /\ replay.pc \notin {"creating", "closing"}
      BY <1>2 DEF ReplayLoop, ReplayTake, ReplayExecute, ReplayLock, ReplayTalked, ReplayCleanup,
                  remoteVars, linkVars
    <2>2. /\ replay'.m_Renderer = replay.m_Renderer
          /\ \/ replay.pc \in Looping /\ replay'.pc \in Looping \cup {"cleanup"}
             \/ replay.pc = "cleanup" /\ replay'.pc = "close"
      BY <1>1, <1>2
         DEF ReplayLoop, ReplayTake, ReplayExecute, ReplayLock, ReplayTalked, ReplayCleanup,
             CommandDone, ReplayThread
    <2>3. Leaves
      BY <1>1, <2>1, <2>2 DEF Leaves
    <2>4. QED
      BY <1>1, <2>3, LeavesKeeps
  <1>3. CASE ReplayCreate
    <2>1. /\ m_Remote' = m_Remote /\ m_OrphanedRemote' = m_OrphanedRemote
          /\ link' = link /\ opened' = opened /\ replay.pc = "create"
          /\ replay'.m_Renderer = replay.m_Renderer
          /\ \/ replay'.pc = "off"
             \/ replay'.pc = "loop" /\ m_Remote = NoConnection
             \/ replay'.pc = "creating" /\ m_Remote # NoConnection /\ talk'["replay"] = m_Remote
      BY <1>1, <1>3 DEF ReplayCreate, remoteVars, linkVars, Talk, ReplayThread
    <2>2. RendererHasConnection'
      BY <1>1, <2>1 DEF RendererHasConnection
    <2>3. QED
      BY <1>1, <2>1, <2>2 DEF NoConnectionLeaks
  <1>4. CASE ReplayCreated
    <2>1. /\ m_Remote' = m_Remote /\ m_OrphanedRemote' = m_OrphanedRemote /\ link' = link
          /\ replay.pc = "creating" /\ talk["replay"] = m_Remote /\ m_Remote \in Connections
          /\ m_OrphanedRemote = NoConnection /\ replay.m_Renderer = NoConnection
      BY <1>1, <1>4 DEF ReplayCreated, remoteVars, RendererHasConnection
    <2>2. \/ /\ link[m_Remote] = "up" /\ opened' = [opened EXCEPT ![m_Remote] = TRUE]
             /\ replay'.pc = "loop" /\ replay'.m_Renderer = m_Remote
          \/ opened' = opened /\ replay'.pc = "off" /\ replay'.m_Renderer = replay.m_Renderer
      BY <1>1, <1>4, <2>1 DEF ReplayCreated, ReplayThread
    <2>3. RendererHasConnection'
      BY <1>1, <2>1, <2>2 DEF RendererHasConnection
    <2>4. QED
      BY <1>1, <2>1, <2>3 DEF NoConnectionLeaks
  <1>5. CASE ReplayClose
    <2>1. /\ m_Remote' = m_Remote /\ m_OrphanedRemote' = m_OrphanedRemote
          /\ link' = link /\ opened' = opened /\ replay.pc = "close"
      BY <1>5 DEF ReplayClose, remoteVars, linkVars
    <2>2. \/ m_Remote = replay.m_Renderer /\ m_OrphanedRemote = NoConnection
          \/ m_Remote = NoConnection /\ m_OrphanedRemote = replay.m_Renderer
      BY <1>1, <2>1 DEF RendererHasConnection
    <2>3. PICK remote : remote = IF m_OrphanedRemote # NoConnection THEN m_OrphanedRemote ELSE m_Remote
      OBVIOUS
    <2>4. remote = replay.m_Renderer
      BY <2>2, <2>3
    <2>5. IF remote # NoConnection
            THEN /\ talk'["replay"] = remote /\ replay'.pc = "closing"
                 /\ replay'.m_Renderer = replay.m_Renderer
            ELSE replay'.pc = "off" /\ replay'.m_Renderer = NoConnection
      BY <1>1, <1>5, <2>3 DEF ReplayClose, Talk, ReplayThread
    <2>6. RendererHasConnection'
      BY <1>1, <2>1, <2>2, <2>4, <2>5 DEF RendererHasConnection
    <2>7. QED
      BY <1>1, <2>1, <2>6 DEF NoConnectionLeaks
  <1>6. CASE ReplayClosed
    <2>1. PICK r \in Connections : r = replay.m_Renderer /\ talk["replay"] = r
      BY <1>1, <1>6 DEF ReplayClosed, RendererHasConnection, ReplayThread
    <2>2. \/ m_Remote = r /\ m_OrphanedRemote = NoConnection
          \/ m_Remote = NoConnection /\ m_OrphanedRemote = r
      BY <1>1, <1>6, <2>1 DEF ReplayClosed, RendererHasConnection
    <2>3. /\ opened' = [opened EXCEPT ![r] = FALSE]
          /\ link' = IF m_OrphanedRemote = NoConnection THEN link
                     ELSE [link EXCEPT ![m_OrphanedRemote] = "closed"]
          /\ m_OrphanedRemote' = NoConnection /\ m_Remote' = m_Remote
          /\ replay'.pc = "off" /\ replay'.m_Renderer = NoConnection
      BY <1>1, <1>6, <2>1 DEF ReplayClosed, ReplayThread
    <2>4. RendererHasConnection'
      BY <1>1, <2>1, <2>2, <2>3 DEF RendererHasConnection
    <2>5. NoConnectionLeaks'
      BY <1>1, <2>1, <2>2, <2>3 DEF NoConnectionLeaks
    <2>6. QED
      BY <2>4, <2>5
  <1>7. QED
    BY <1>2, <1>3, <1>4, <1>5, <1>6 DEF ReplayStep

LEMMA DisconnectKeeps ==
    ASSUME KeptInv, DisconnectFromRemoteServer, replay' = replay, opened' = opened, talk' = talk,
           \/ replay.pc = "off" /\ UIAt' = UIAt
           \/ IsRunning /\ replay.pc \in Looping /\ UIAt' = "closing"
    PROVE  (RendererHasConnection /\ NoConnectionLeaks)' /\ m_Remote' = NoConnection
  <1>1. /\ RendererHasConnection /\ NoConnectionLeaks
        /\ m_Remote \in Connections \cup {NoConnection}
        /\ m_OrphanedRemote \in Connections \cup {NoConnection}
        /\ replay.m_Renderer \in Connections \cup {NoConnection}
        /\ link \in [Connections -> {"unused", "up", "lost", "closed"}]
        /\ NoConnection \notin Connections
        /\ m_Remote' = NoConnection
    BY ConnectionsAssumption
       DEF KeptInv, Kept, SafeInv, Control, ControlTypes, Talks, TalkTypes, ReplayThread,
           DisconnectFromRemoteServer
  <1>2. CASE replay.pc = "off" /\ UIAt' = UIAt
    <2>1. /\ m_OrphanedRemote = NoConnection /\ m_OrphanedRemote' = NoConnection
          /\ replay.m_Renderer = NoConnection
          /\ link' = IF m_Remote = NoConnection THEN link ELSE [link EXCEPT ![m_Remote] = "closed"]
      BY <1>1, <1>2
         DEF RendererHasConnection, Looping, Ending, DisconnectFromRemoteServer, IsRunning,
             ThreadRunning
    <2>2. RendererHasConnection'
      BY <1>1, <1>2, <2>1 DEF RendererHasConnection, Looping, Ending
    <2>3. NoConnectionLeaks'
      BY <1>1, <2>1 DEF NoConnectionLeaks
    <2>4. QED
      BY <1>1, <2>2, <2>3
  <1>3. CASE IsRunning /\ replay.pc \in Looping /\ UIAt' = "closing"
    <2>1. /\ link' = link
          /\ m_OrphanedRemote' = IF m_Remote = NoConnection THEN m_OrphanedRemote ELSE m_Remote
      BY <1>3 DEF DisconnectFromRemoteServer
    <2>2. RendererHasConnection'
      BY <1>1, <1>3, <2>1 DEF RendererHasConnection, Looping, Ending
    <2>3. \A c : c \in {m_Remote, m_OrphanedRemote} /\ c # NoConnection =>
            c \in {m_Remote', m_OrphanedRemote'}
      BY <1>1, <1>3, <2>1 DEF RendererHasConnection, Looping
    <2>4. NoConnectionLeaks'
      BY <1>1, <2>1, <2>3 DEF NoConnectionLeaks
    <2>5. QED
      BY <1>1, <2>2, <2>4
  <1>4. QED
    BY <1>2, <1>3

LEMMA UIKeepsConnections ==
    ASSUME KeptInv, WhileOpen = {}, UIStep \/ UserStep
    PROVE  (RendererHasConnection /\ NoConnectionLeaks)'
  <1>1. /\ RendererHasConnection /\ NoConnectionLeaks /\ NobodyInterferes /\ ThreadFollowsUI
        /\ ui \in [pc : UIPC, then : UIPC]
        /\ talk \in [Talkers -> Connections \cup {NoConnection}] /\ {"ui", "replay"} \subseteq Talkers
        /\ link \in [Connections -> {"unused", "up", "lost", "closed"}]
        /\ m_OrphanedRemote # NoConnection => UIAt = "closing"
    BY DEF KeptInv, Kept, SafeInv, Control, ControlTypes, Talks, TalkTypes, Talkers,
           RendererHasConnection
  <1>2. ASSUME m_Remote' = m_Remote, m_OrphanedRemote' = m_OrphanedRemote, link' = link,
               opened' = opened, replay' = replay, talk'["replay"] = talk["replay"],
               UIAt' = UIAt \/ UIAt # "closing" \/ replay.pc = "off"
        PROVE  (RendererHasConnection /\ NoConnectionLeaks)'
    <2>1. m_OrphanedRemote # NoConnection => UIAt' = UIAt
      BY <1>1, <1>2 DEF RendererHasConnection, Looping, Ending
    <2>2. Leaves
      BY <1>2, <2>1 DEF Leaves
    <2>3. QED
      BY <1>1, <2>2, LeavesKeeps
  <1>3. CASE UIOpened \/ UIFetched \/ UIInvoked \/ UIHelped \/ UICloseCapture \/ UIInvoke \/ UIHelp
    <2>1. /\ m_Remote' = m_Remote /\ m_OrphanedRemote' = m_OrphanedRemote /\ link' = link
          /\ opened' = opened /\ replay' = replay /\ talk'["replay"] = talk["replay"]
          /\ ui.pc \in {"loading", "fetching", "waiting", "helped", "idle"}
      BY <1>3 DEF UIOpened, UIFetched, UIInvoked, UIHelped, UICloseCapture, UIInvoke, UIHelp,
                  remoteVars, linkVars, talkVars
    <2>2. QED
      BY <1>2, <2>1 DEF UIAt, Away
  <1>4. CASE UIClosed \/ CheckLoaded
    <2>1. /\ m_Remote' = m_Remote /\ m_OrphanedRemote' = m_OrphanedRemote /\ link' = link
          /\ opened' = opened /\ replay' = replay /\ talk'["replay"] = talk["replay"]
          /\ ui' = ui \/ replay.pc = "off"
      BY <1>4 DEF UIClosed, CheckLoaded, ThreadRunning, remoteVars, linkVars, talkVars
    <2>2. QED
      BY <1>2, <2>1 DEF UIAt
  <1>5. CASE UIRequested \/ UIPinged
    <2>1. /\ m_Remote' = m_Remote /\ m_OrphanedRemote' = m_OrphanedRemote /\ link' = link
          /\ opened' = opened /\ replay' = replay /\ Hang("ui") /\ ui.pc \in {"request", "ping"}
      BY <1>5 DEF UIRequested, UIPinged, UnlockAndHang, remoteVars, linkVars
    <2>2. talk'["replay"] = talk["replay"]
      BY <1>1, <2>1 DEF Hang
    <2>3. UIAt \in {"idle", "helped"}
      BY <1>1, <2>1 DEF ThreadFollowsUI, Away
    <2>4. QED
      BY <1>2, <2>1, <2>2, <2>3
  <1>6. CASE UIRequest \/ CheckUnloaded
    <2>1. /\ m_Remote' = m_Remote /\ m_OrphanedRemote' = m_OrphanedRemote /\ link' = link
          /\ opened' = opened /\ replay' = replay
          /\ talk' = talk \/ LockAndTalk("ui")
          /\ ui.pc \in {"idle", "helped", "waiting"}
      BY <1>6 DEF UIRequest, CheckUnloaded, HandlesEvents, remoteVars, linkVars, talkVars
    <2>2. talk'["replay"] = talk["replay"]
      BY <1>1, <2>1 DEF LockAndTalk, Talk, talkVars
    <2>3. UIAt # "closing"
      BY <2>1 DEF UIAt, Away
    <2>4. QED
      BY <1>2, <2>1, <2>2, <2>3
  <1>7. CASE UILoadCapture
    <2>1. /\ m_Remote' = m_Remote /\ m_OrphanedRemote' = m_OrphanedRemote /\ link' = link
          /\ opened' = opened /\ replay.pc = "off"
          /\ replay' = [pc |-> "create", cmd |-> NoCommand, m_Renderer |-> NoConnection]
      BY <1>7 DEF UILoadCapture, remoteVars, linkVars, Open, ThreadRunning
    <2>2. replay'.pc = "create" /\ replay'.m_Renderer = NoConnection
      BY <2>1
    <2>3. RendererHasConnection'
      BY <1>1, <2>1, <2>2 DEF RendererHasConnection, Looping, Ending
    <2>4. QED
      BY <1>1, <2>1, <2>3 DEF NoConnectionLeaks
  <1>8. CASE UIOrphan
    <2>1. /\ DisconnectFromRemoteServer /\ replay' = replay /\ opened' = opened /\ talk' = talk
          /\ ui.pc = "orphan" /\ ui' = [ui EXCEPT !.pc = "closing"]
      BY <1>8 DEF UIOrphan, CloseThread, UIGoto, talkVars
    <2>2. UIAt = "orphan" /\ UIAt' = "closing"
      BY <1>1, <2>1 DEF UIAt, Away
    <2>3. IsRunning /\ replay.pc \in Looping
      BY <1>1, <2>2 DEF ThreadFollowsUI, IsRunning,
             ThreadRunning, Looping
    <2>4. QED
      BY <2>1, <2>2, <2>3, DisconnectKeeps
  <1>9. CASE UIDisconnect \/ SetRemoteHost
    <2>1. /\ DisconnectFromRemoteServer /\ replay' = replay /\ opened' = opened /\ talk' = talk
          /\ replay.pc = "off"
      BY <1>1, <1>9 DEF UIDisconnect, SetRemoteHost, talkVars, Open, ThreadRunning, ThreadFollowsUI,
                        UIAt, Away
    <2>2. UIAt' = UIAt
      BY <1>1, <1>9 DEF UIDisconnect, SetRemoteHost, UIReturn, UIAt, Away, ThreadFollowsUI
    <2>3. QED
      BY <2>1, <2>2, DisconnectKeeps
  <1>10. CASE ShutdownServer
    <2>1. /\ replay.pc = "off" /\ replay' = replay /\ opened' = opened /\ talk' = talk /\ ui' = ui
          /\ m_Remote' = NoConnection /\ m_OrphanedRemote' = m_OrphanedRemote
          /\ link' = [link EXCEPT ![m_Remote] = "closed"]
      BY <1>10 DEF ShutdownServer, May, Open, ThreadRunning, talkVars
    <2>2. replay.m_Renderer = NoConnection /\ m_OrphanedRemote = NoConnection
      BY <1>1, <2>1 DEF RendererHasConnection, Looping, Ending
    <2>3. RendererHasConnection'
      BY <1>1, <2>1, <2>2 DEF RendererHasConnection, Looping, Ending
    <2>4. NoConnectionLeaks'
      BY <1>1, <2>1, <2>2, ConnectionsAssumption DEF NoConnectionLeaks
    <2>5. QED
      BY <2>3, <2>4
  <1>11. QED
    BY <1>3, <1>4, <1>5, <1>6, <1>7, <1>8, <1>9, <1>10 DEF UIStep, UserStep

LEMMA OthersKeepConnections ==
    ASSUME KeptInv,
           \/ HelperStep \/ UNCHANGED vars
           \/ \E w \in Workers : WorkerInvoke(w) \/ WorkerPush(w)
           \/ \E c \in Connections : ConnectToRemoteServer(c) \/ ServerLost(c)
    PROVE  (RendererHasConnection /\ NoConnectionLeaks)'
  <1>1. /\ RendererHasConnection /\ NoConnectionLeaks /\ NobodyInterferes
        /\ talk \in [Talkers -> Connections \cup {NoConnection}]
        /\ {"helper", "replay"} \subseteq Talkers
        /\ link \in [Connections -> {"unused", "up", "lost", "closed"}]
    BY DEF KeptInv, Kept, SafeInv, Talks, TalkTypes, Talkers
  <1>2. ASSUME m_Remote' = m_Remote, m_OrphanedRemote' = m_OrphanedRemote, link' = link,
               opened' = opened, replay' = replay, talk'["replay"] = talk["replay"], ui' = ui
        PROVE  (RendererHasConnection /\ NoConnectionLeaks)'
    <2>1. Leaves
      BY <1>2 DEF Leaves, UIAt
    <2>2. QED
      BY <1>1, <2>1, LeavesKeeps
  <1>3. CASE HelperStep
    <2>1. /\ m_Remote' = m_Remote /\ m_OrphanedRemote' = m_OrphanedRemote /\ link' = link
          /\ opened' = opened /\ replay' = replay /\ ui' = ui
          /\ LockAndTalk("helper") \/ UnlockAndHang("helper")
      BY <1>3 DEF HelperStep, HelperLock, HelperTalked, remoteVars, linkVars
    <2>2. talk'["replay"] = talk["replay"]
      BY <1>1, <2>1 DEF LockAndTalk, UnlockAndHang, Talk, Hang, talkVars
    <2>3. QED
      BY <1>2, <2>1, <2>2
  <1>4. CASE UNCHANGED vars
    BY <1>2, <1>4 DEF vars, remoteVars, linkVars, talkVars
  <1>5. ASSUME NEW w \in Workers, WorkerInvoke(w) \/ WorkerPush(w)
        PROVE  (RendererHasConnection /\ NoConnectionLeaks)'
    BY <1>2, <1>5 DEF WorkerInvoke, WorkerPush, remoteVars, linkVars, talkVars
  <1>6. ASSUME NEW c \in Connections, ConnectToRemoteServer(c)
        PROVE  (RendererHasConnection /\ NoConnectionLeaks)'
    <2>1. /\ replay.pc = "off" /\ m_Remote = NoConnection
          /\ m_OrphanedRemote' = m_OrphanedRemote /\ opened' = opened /\ replay' = replay
          /\ talk' = talk /\ ui' = ui /\ link[c] = "unused"
          /\ \/ m_Remote' = c /\ link' = [link EXCEPT ![c] = "up"]
             \/ m_Remote' = m_Remote /\ link' = link
      BY <1>1, <1>6 DEF NobodyInterferes, ConnectToRemoteServer, talkVars
    <2>2. replay.m_Renderer = NoConnection /\ m_OrphanedRemote = NoConnection
      BY <1>1, <2>1 DEF RendererHasConnection, Looping, Ending
    <2>3. RendererHasConnection'
      BY <1>1, <2>1, <2>2 DEF RendererHasConnection, Looping, Ending
    <2>4. NoConnectionLeaks'
      BY <1>1, <2>1, <2>2, ConnectionsAssumption DEF NoConnectionLeaks
    <2>5. QED
      BY <2>3, <2>4
  <1>7. ASSUME NEW c \in Connections, ServerLost(c)
        PROVE  (RendererHasConnection /\ NoConnectionLeaks)'
    <2>1. /\ m_Remote' = m_Remote /\ m_OrphanedRemote' = m_OrphanedRemote /\ opened' = opened
          /\ replay' = replay /\ talk' = talk /\ ui' = ui
          /\ link[c] = "up" /\ link' = [link EXCEPT ![c] = "lost"]
      BY <1>7 DEF ServerLost, remoteVars, talkVars
    <2>2. RendererHasConnection'
      <3>1. replay.m_Renderer \in Connections \cup {NoConnection}
        BY DEF KeptInv, SafeInv, Control, ControlTypes, ReplayThread
      <3>2. QED
        BY <1>1, <2>1, <3>1 DEF RendererHasConnection, UIAt
    <2>3. NoConnectionLeaks'
      BY <1>1, <2>1 DEF NoConnectionLeaks
    <2>4. QED
      BY <2>2, <2>3
  <1>8. QED
    BY <1>3, <1>4, <1>5, <1>6, <1>7

\* Steps that leave alone who connects to a server, and are not in the way of it.
LeavesConnecting ==
    /\ connecting' = connecting /\ contextChooser' = contextChooser
    /\ m_Remote' \in {m_Remote, NoConnection}
    /\ connecting > 0 => replay'.pc = "off" /\ UIAt' \in {"idle", "helped"}
    /\ ui'.pc = "request" => ~m_CaptureLoaded'

LEMMA UIInterferesNot ==
    ASSUME KeptInv, WhileOpen = {}, UIStep \/ UserStep
    PROVE  NobodyInterferes'
  <1>1. /\ NobodyInterferes /\ ThreadFollowsUI /\ connecting \in Nat
        /\ ui \in [pc : UIPC, then : UIPC]
    BY DEF KeptInv, Kept, SafeInv, Control, ControlTypes
  <1>2. ASSUME LeavesConnecting
        PROVE  NobodyInterferes'
    BY <1>1, <1>2 DEF LeavesConnecting, NobodyInterferes
  <1>3. ASSUME connecting = 0, connecting' = connecting, ui'.pc # "request"
        PROVE  NobodyInterferes'
    BY <1>3 DEF NobodyInterferes
  <1>4. CASE UIOpened \/ UIFetched \/ UIOrphan \/ UIClosed \/ UIInvoked \/ UIInvoke \/ UICloseCapture
    <2>1. /\ connecting' = connecting
          /\ \/ ui.pc \in {"loading", "fetching", "orphan", "closing", "waiting"}
             \/ ui.pc = "idle" /\ m_CaptureLoaded
          /\ ui'.pc \in {"idle", "fetching", "closing", "waiting", "orphan"}
      BY <1>1, <1>4
         DEF UIOpened, UIFetched, UIOrphan, UIClosed, UIInvoked, UIInvoke, UICloseCapture, CloseThread,
             UIGoto, connectVars
    <2>2. connecting = 0
      <3>1. UIAt \notin {"idle", "helped"} \/ replay.pc # "off"
        BY <1>1, <2>1 DEF UIAt, Away, ThreadFollowsUI, Looping
      <3>2. QED
        BY <1>1, <3>1 DEF NobodyInterferes
    <2>3. QED
      BY <1>3, <2>1, <2>2
  <1>5. CASE UIRequested \/ UIHelped \/ UIPinged \/ UIDisconnect
    <2>1. /\ connecting' = connecting /\ contextChooser' = contextChooser
          /\ replay' = replay /\ m_Remote' \in {m_Remote, NoConnection}
      BY <1>5 DEF UIRequested, UIHelped, UIPinged, UIDisconnect, DisconnectFromRemoteServer,
                  remoteVars, connectVars
    <2>2. UIAt' \in {"idle", "helped"} /\ ui'.pc # "request"
      BY <1>1, <1>5
         DEF UIRequested, UIHelped, UIPinged, UIDisconnect, UIReturn, UIGoto, UIAt, Away,
             ThreadFollowsUI
    <2>3. connecting > 0 => replay.pc = "off"
      BY <1>1 DEF NobodyInterferes
    <2>4. LeavesConnecting
      BY <2>1, <2>2, <2>3 DEF LeavesConnecting
    <2>5. QED
      BY <1>2, <2>4
  <1>6. CASE UIRequest \/ UIHelp \/ CheckUnloaded \/ CheckLoaded \/ ShutdownServer
    <2>1. /\ connecting' = connecting /\ contextChooser' = contextChooser
          /\ replay' = replay /\ m_Remote' \in {m_Remote, NoConnection}
          /\ m_CaptureLoaded' = m_CaptureLoaded
      BY <1>6 DEF UIRequest, UIHelp, CheckUnloaded, CheckLoaded, ShutdownServer, remoteVars,
                  connectVars, loadVars
    <2>2. \/ UIAt' = UIAt
          \/ UIAt' = "helped"
      BY <1>1, <1>6
         DEF UIRequest, UIHelp, CheckUnloaded, CheckLoaded, ShutdownServer, UICall, UIGoto, UIAt,
             Away, HandlesEvents
    <2>3. ui'.pc = "request" => ~m_CaptureLoaded
      BY <1>1, <1>6
         DEF UIRequest, UIHelp, CheckUnloaded, CheckLoaded, ShutdownServer, UICall, UIGoto,
             May, Open, NobodyInterferes
    <2>4. connecting > 0 => replay.pc = "off" /\ UIAt' \in {"idle", "helped"}
      BY <1>1, <2>2 DEF NobodyInterferes
    <2>5. LeavesConnecting
      BY <2>1, <2>3, <2>4 DEF LeavesConnecting
    <2>6. QED
      BY <1>2, <2>5
  <1>7. CASE UILoadCapture
    <2>1. connecting' = connecting /\ ~(connecting > 0) /\ ui'.pc = "loading"
      BY <1>1, <1>7 DEF UILoadCapture, UIGoto, connectVars
    <2>2. QED
      BY <1>1, <1>3, <2>1
  <1>8. CASE SetRemoteHost
    <2>1. /\ contextChooser /\ replay.pc = "off" /\ replay' = replay /\ ui' = ui /\ ui.pc = "idle"
          /\ m_Remote' = NoConnection
          /\ \/ connecting' = connecting + 1 /\ contextChooser' = FALSE
             \/ connecting' = connecting
      BY <1>8 DEF SetRemoteHost, DisconnectFromRemoteServer, Open, ThreadRunning, connectVars
    <2>2. connecting = 0
      BY <1>1, <2>1 DEF NobodyInterferes
    <2>3. connecting' = 0 \/ (connecting' = 1 /\ contextChooser' = FALSE)
      BY <2>1, <2>2
    <2>4. UIAt' = "idle"
      BY <2>1 DEF UIAt, Away
    <2>5. QED
      BY <2>1, <2>3, <2>4 DEF NobodyInterferes
  <1>9. QED
    BY <1>4, <1>5, <1>6, <1>7, <1>8 DEF UIStep, UserStep

LEMMA OthersInterfereNot ==
    ASSUME KeptInv,
           \/ ReplayStep \/ HelperStep \/ UNCHANGED vars
           \/ \E w \in Workers : WorkerInvoke(w) \/ WorkerPush(w)
           \/ \E c \in Connections : ConnectToRemoteServer(c) \/ ServerLost(c)
    PROVE  NobodyInterferes'
  <1>1. NobodyInterferes /\ connecting \in Nat
    BY DEF KeptInv, Kept, SafeInv, Control, ControlTypes
  <1>2. ASSUME connecting' = connecting, contextChooser' = contextChooser, m_Remote' = m_Remote,
               ui' = ui, m_CaptureLoaded' = m_CaptureLoaded,
               replay' = replay \/ replay.pc # "off"
        PROVE  NobodyInterferes'
    BY <1>1, <1>2 DEF NobodyInterferes, UIAt
  <1>3. CASE ReplayStep
    BY <1>2, <1>3
       DEF ReplayStep, ReplayCreate, ReplayCreated, ReplayLoop, ReplayTake, ReplayExecute, ReplayLock,
           ReplayTalked, ReplayCleanup, ReplayClose, ReplayClosed, remoteVars, connectVars, loadVars
  <1>4. CASE HelperStep \/ UNCHANGED vars
    BY <1>2, <1>4 DEF HelperStep, HelperLock, HelperTalked, vars, remoteVars, connectVars, loadVars
  <1>5. ASSUME NEW w \in Workers, WorkerInvoke(w) \/ WorkerPush(w)
        PROVE  NobodyInterferes'
    BY <1>2, <1>5 DEF WorkerInvoke, WorkerPush, remoteVars, connectVars, loadVars
  <1>6. ASSUME NEW c \in Connections, ServerLost(c)
        PROVE  NobodyInterferes'
    BY <1>2, <1>6 DEF ServerLost, remoteVars, connectVars, loadVars
  <1>7. ASSUME NEW c \in Connections, ConnectToRemoteServer(c)
        PROVE  NobodyInterferes'
    <2>1. /\ connecting > 0 /\ connecting' = connecting - 1 /\ ui' = ui
          /\ m_CaptureLoaded' = m_CaptureLoaded
      BY <1>7 DEF ConnectToRemoteServer, loadVars
    <2>2. connecting = 1
      BY <1>1, <2>1 DEF NobodyInterferes
    <2>3. connecting' = 0
      BY <2>1, <2>2
    <2>4. QED
      BY <1>1, <2>1, <2>3 DEF NobodyInterferes
  <1>8. QED
    BY <1>3, <1>4, <1>5, <1>6, <1>7

LEMMA KeptHolds ==
    ASSUME WhileOpen = {}
    PROVE  Spec => []KeptInv
  <1>1. Init => KeptInv
    <2> SUFFICES ASSUME Init
                 PROVE  Kept
      BY InitSafe DEF KeptInv
    <2>1. /\ replay.pc = "off" /\ replay.m_Renderer = NoConnection
          /\ m_OrphanedRemote = NoConnection /\ ui.pc = "idle" /\ connecting = 0
          /\ opened = [c \in Connections |-> FALSE]
          /\ link = [c \in Connections |-> "unused"]
      BY DEF Init
    <2>2. RendererHasConnection /\ NoConnectionLeaks
      BY <2>1, ConnectionsAssumption
         DEF RendererHasConnection, NoConnectionLeaks, Looping, Ending
    <2>3. NobodyInterferes
      BY <2>1 DEF NobodyInterferes
    <2>4. QED
      BY <2>2, <2>3 DEF Kept
  <1>2. KeptInv /\ [Next]_vars => KeptInv'
    <2> SUFFICES ASSUME KeptInv, [Next]_vars
                 PROVE  KeptInv'
      OBVIOUS
    <2>1. SafeInv'
      BY StepSafe DEF KeptInv
    <2>2. (RendererHasConnection /\ NoConnectionLeaks)'
      BY ReplayKeepsConnections, UIKeepsConnections, OthersKeepConnections DEF Next
    <2>3. NobodyInterferes'
      BY UIInterferesNot, OthersInterfereNot DEF Next
    <2>4. QED
      BY <2>1, <2>2, <2>3 DEF KeptInv, Kept
  <1>3. QED
    BY <1>1, <1>2, PTL DEF Spec

\* If the user does nothing to the server while a capture is open, a connection
\* has one user at a time although the replay thread does without the lock, is
\* not shut down while a capture is open over it, and never leaks.
THEOREM ConnectionsLast ==
    ASSUME WhileOpen = {}
    PROVE  Spec => []ConnectionsKept
  <1>1. KeptInv => ConnectionsKept
    <2> SUFFICES ASSUME KeptInv
                 PROVE  ConnectionsKept
      OBVIOUS
    <2>1. /\ RendererHasConnection /\ NobodyInterferes /\ NoConnectionLeaks /\ ThreadFollowsUI
          /\ TalkersHaveTime /\ LockIsForTalk
          /\ replay.m_Renderer \in Connections \cup {NoConnection}
      BY DEF KeptInv, Kept, SafeInv, Control, ControlTypes, Talks, ReplayThread
    <2>2. talk["replay"] # NoConnection => talk["ui"] = NoConnection /\ talk["helper"] = NoConnection
      <3>1. SUFFICES ASSUME replay.pc \in {"creating", "talking", "closing"}
                     PROVE  ui.pc \notin {"request", "ping"} /\ helper = "none"
        BY <2>1 DEF TalkersHaveTime
      <3>2. m_CaptureLoaded \/ UIAt \notin {"idle", "helped"}
        BY <2>1, <3>1 DEF ThreadFollowsUI
      <3>3. UIAt # "helped"
        BY <2>1, <3>2 DEF ThreadFollowsUI
      <3>4. ui.pc \notin {"request", "ping"}
        BY <2>1, <3>2 DEF ThreadFollowsUI, NobodyInterferes, Away
      <3>5. QED
        BY <2>1, <3>3, <3>4 DEF ThreadFollowsUI
    <2>3. talk["ui"] # NoConnection => talk["helper"] = NoConnection
      BY <2>1 DEF LockIsForTalk
    <2>4. OneConversation
      BY <2>2, <2>3 DEF OneConversation, Talkers
    <2>5. OpenCaptureKeepsConnection
      <3>1. ASSUME NEW c \in Connections, opened[c]
            PROVE  link[c] # "closed" /\ c \in {m_Remote, m_OrphanedRemote}
        <4>1. c = replay.m_Renderer /\ c # NoConnection
          BY <2>1, <3>1, ConnectionsAssumption DEF RendererHasConnection
        <4>2. QED
          BY <2>1, <4>1 DEF RendererHasConnection
      <3>2. QED
        BY <3>1 DEF OpenCaptureKeepsConnection
    <2>6. QED
      BY <2>1, <2>4, <2>5 DEF ConnectionsKept
  <1>2. QED
    BY <1>1, KeptHolds, PTL

=============================================================================
