----------------------------- MODULE RemoteServer -----------------------------
(***************************************************************************)
(* The remote server (renderdoc/core/remote_server.cpp) and the            *)
(* RemoteServer objects that talk to it: any number of machines connect,   *)
(* one at a time has a session, in which it copies captures to the server, *)
(* opens one and replays it.                                               *)
(*                                                                         *)
(* Threads: the server thread (BecomeRemoteServer) accepts connections and *)
(* reaps threads that have ended; one thread per connection shakes hands   *)
(* (HandleHandshakeClient) and may go on to serve a session                *)
(* (ActiveRemoteClientThread), with a ticker that reports progress on the  *)
(* same socket.  They share ActiveClient, which has a lock, and the fields *)
(* of ClientThread, which have none.  A member of Clients is a connection, *)
(* from both ends, and the ClientThread made for it.                       *)
(*                                                                         *)
(* A chunk on a socket is a record with a type; requests that are answered *)
(* at once from the state of the machine are of type "Query".              *)
(***************************************************************************)
EXTENDS Naturals, FiniteSets, Sequences, SequencesExt

CONSTANTS
    Clients,          \* connections
    NoClient,         \* NULL
    Kinds,            \* what connections ask for in their handshake
    Scenarios,        \* sets of what may happen; a behaviour is one of one of them
    AppCapture,       \* a capture that an application left on the server
    MaxCopies,        \* bound on the captures copied to the server in a session
    MaxQueue          \* chunks a socket buffers before a send blocks

ASSUME ClientsAssumption == NoClient \notin Clients
ASSUME KindsAssumption == Kinds \subseteq {"active", "check", "old", "bad", "foreign"}

Requests == {"Query", "Copy", "TakeOwnership", "Open", "Close", "InitResolver", "Shutdown"}

\* killReplay() returns true, the network breaks, accept() fails, captures have
\* callstacks of another platform.
Events == {"killReplay", "Break", "acceptFails", "foreignCallstacks"}

ASSUME ScenariosAssumption == Scenarios \subseteq SUBSET (Requests \cup Events)
ASSUME BoundsAssumption == MaxCopies \in Nat /\ MaxQueue \in Nat \ {0}
ASSUME AppCaptureAssumption == AppCapture \notin Nat /\ AppCapture \notin Clients \cup {NoClient}

VARIABLES
    \* BecomeRemoteServer
    serverPC, client, clients,
    kill,                     \* killReplay() has begun to return true
    \* ActiveClient and ClientThread
    active, killThread, killServer, thread,
    \* locals of ActiveRemoteClientThread
    rdc, tempFiles, captureNum,
    disk,                     \* who wrote the file at each path
    \* sockets
    backlog, link, toServer, toUI,
    \* RemoteServer objects
    ui, asked, opened,
    scenario

serverVars  == <<serverPC, client, clients, kill>>
flagVars    == <<active, killThread, killServer>>
sessionVars == <<rdc, tempFiles, captureNum>>
socketVars  == <<backlog, link, toServer, toUI>>
uiVars      == <<ui, asked, opened, scenario>>
vars == <<serverVars, flagVars, thread, sessionVars, disk, socketVars, uiVars>>

\* The paths of copies are numbered from zero in every session; two sessions
\* of one process that begin in the same minute use the same ones.
Paths == 0 .. MaxCopies - 1 \cup {AppCapture}

\* The thread of c is inside ActiveRemoteClientThread, up to its clean-up.
InSession(c) ==
    thread[c] \in {"read", "opening", "opened", "resolving", "resolved", "stuck", "cleanup"}

Init ==
    /\ serverPC = "accept" /\ client = NoClient /\ clients = <<>> /\ kill = FALSE
    /\ active = NoClient /\ killThread = {} /\ killServer = {}
    /\ thread = [c \in Clients |-> "none"]
    /\ rdc = [c \in Clients |-> "none"] /\ tempFiles = [c \in Clients |-> {}]
    /\ captureNum = [c \in Clients |-> 0]
    /\ disk = [p \in Paths |-> IF p = AppCapture THEN AppCapture ELSE NoClient]
    /\ backlog = {} /\ link = [c \in Clients |-> "none"]
    /\ toServer = [c \in Clients |-> <<>>] /\ toUI = [c \in Clients |-> <<>>]
    /\ ui = [c \in Clients |-> "idle"] /\ asked = [c \in Clients |-> "nothing"]
    /\ opened = [c \in Clients |-> FALSE] /\ scenario \in Scenarios

-----------------------------------------------------------------------------
(* Sockets.  Once a link is down, writes vanish; what was in flight arrives *)
(* or not.                                                                  *)

CanSend(c) == link[c] # "up" \/ Len(toUI[c]) < MaxQueue

Send(c, type) ==
    /\ CanSend(c)
    /\ toUI' = IF link[c] = "up" THEN [toUI EXCEPT ![c] = Append(@, type)] ELSE toUI
    /\ UNCHANGED <<backlog, link>>

Receive(c) == toServer' = [toServer EXCEPT ![c] = Tail(@)]

\* SAFE_DELETE(socket), on the server's end.
CloseServerEnd(cs) ==
    /\ link' = [c \in Clients |-> IF c \in cs THEN "down" ELSE link[c]]
    /\ toServer' = [c \in Clients |-> IF c \in cs THEN <<>> ELSE toServer[c]]
    /\ UNCHANGED <<backlog, toUI>>

CloseUIEnd(c) ==
    /\ link' = [link EXCEPT ![c] = "down"]
    /\ toUI' = [toUI EXCEPT ![c] = <<>>]
    /\ UNCHANGED <<backlog, toServer>>


\* The network fails, or one end waits longer than its timeout for the other.
Break(c) ==
    /\ "Break" \in scenario /\ link[c] = "up"
    /\ link' = [link EXCEPT ![c] = "down"]
    /\ UNCHANGED <<serverVars, flagVars, thread, sessionVars, disk>>
    /\ UNCHANGED <<backlog, toServer, toUI, uiVars>>

-----------------------------------------------------------------------------
(* The server thread.                                                      *)

Indices(s) == 1 .. Len(s)

\* killReplay() is consulted, one connection is accepted if there is one, and
\* the loop ends if the active client has asked for a shutdown: a connection
\* just accepted is then forgotten, with its socket open.
ServerAccept ==
    /\ serverPC = "accept"
    /\ \/ /\ kill /\ serverPC' = "stop"
          /\ UNCHANGED <<client, backlog>>
       \/ /\ ~kill
          /\ serverPC' = IF active # NoClient /\ active \in killServer THEN "stop" ELSE "reap"
          /\ \/ backlog = {} /\ client' = NoClient /\ UNCHANGED backlog
             \/ \E c \in backlog : client' = c /\ backlog' = backlog \ {c}
    /\ UNCHANGED <<clients, kill, flagVars, thread, sessionVars, disk>>
    /\ UNCHANGED <<link, toServer, toUI, uiVars>>

\* As Dead, for threads that have left their loop.
DeadEarly(c) == thread[c] \in {"cleanup", "close", "closed"}

\* A thread has deleted its socket.
Dead(c) == thread[c] = "closed"

Foreign(c) == toServer[c] # <<>> /\ Head(toServer[c]) = "foreign"

\* As Reap, only in rounds that have accepted a connection.
ReapOnConnection ==
    LET dead == {i \in Indices(clients) : client # NoClient /\ Dead(clients[i])} IN
    IF dead = {} THEN [clients |-> clients, gone |-> NoClient]
    ELSE LET first == CHOOSE i \in dead : \A j \in dead : i <= j
         IN [clients |-> RemoveAt(clients, first), gone |-> clients[first]]

\* The first dead thread is joined and its ClientThread deleted, which is then
\* no longer active.
Reap ==
    LET dead == {i \in Indices(clients) : Dead(clients[i])} IN
    IF dead = {} THEN [clients |-> clients, gone |-> NoClient]
    ELSE LET first == CHOOSE i \in dead : \A j \in dead : i <= j
         IN [clients |-> RemoveAt(clients, first), gone |-> clients[first]]

\* As StillActive, with the active client given up when any thread is reaped.
StillActiveUntilReap == IF Reap.gone # NoClient THEN NoClient ELSE active

\* The active client is given up with its ClientThread.
StillActive == IF active = Reap.gone THEN NoClient ELSE active

\* After that the connection is turned away for its address, or gets a thread.
ServerReap ==
    /\ serverPC = "reap" /\ serverPC' = "accept" /\ client' = NoClient
    /\ active' = StillActive
    /\ killThread' = killThread \ {Reap.gone} /\ killServer' = killServer \ {Reap.gone}
    /\ \/ /\ client = NoClient /\ clients' = Reap.clients
          /\ UNCHANGED <<thread, socketVars>>
       \/ /\ client # NoClient /\ Foreign(client) /\ clients' = Reap.clients
          /\ CloseServerEnd({client}) /\ UNCHANGED thread
       \/ /\ client # NoClient /\ ~Foreign(client)
          /\ clients' = Append(Reap.clients, client)
          /\ thread' = [thread EXCEPT ![client] = "handshake"]
          /\ UNCHANGED socketVars
    /\ UNCHANGED <<kill, sessionVars, disk, uiVars>>

\* accept() fails for good: the function returns, whatever threads there are.
ServerAcceptFails ==
    /\ "acceptFails" \in scenario /\ serverPC = "reap" /\ client = NoClient
    /\ serverPC' = "failed"
    /\ link' = [c \in Clients |-> IF c \in backlog THEN "down" ELSE link[c]]
    /\ backlog' = {}
    /\ UNCHANGED <<client, clients, kill, flagVars, thread, sessionVars, disk>>
    /\ UNCHANGED <<toServer, toUI, uiVars>>

\* After the loop: the active thread is told to end, and nobody is active.
ServerStop ==
    /\ serverPC = "stop" /\ serverPC' = "join"
    /\ killThread' = killThread \cup ({active} \ {NoClient})
    /\ active' = NoClient
    /\ UNCHANGED <<client, clients, kill, killServer, thread, sessionVars, disk>>
    /\ UNCHANGED <<socketVars, uiVars>>

\* Every thread has been joined; the listening socket goes, with its backlog.
ServerJoin ==
    /\ serverPC = "join" /\ \A i \in Indices(clients) : Dead(clients[i])
    /\ serverPC' = "returned" /\ clients' = <<>>
    /\ link' = [c \in Clients |-> IF c \in backlog THEN "down" ELSE link[c]]
    /\ backlog' = {}
    /\ UNCHANGED <<client, kill, flagVars, thread, sessionVars, disk>>
    /\ UNCHANGED <<toServer, toUI, uiVars>>

ServerStep ==
    ServerAccept \/ ServerReap \/ ServerStop \/ ServerJoin

KillReplay ==
    /\ "killReplay" \in scenario /\ ~kill /\ kill' = TRUE
    /\ UNCHANGED <<serverPC, client, clients, flagVars, thread, sessionVars, disk>>
    /\ UNCHANGED <<socketVars, uiVars>>

-----------------------------------------------------------------------------
(* The thread of a connection.                                             *)

\* The connection asks for a session and can have it.
Promoted(c) == toServer[c] # <<>> /\ Head(toServer[c]) = "active" /\ active = NoClient

Reply(c) ==
    CASE toServer[c] = <<>> \/ Head(toServer[c]) = "bad" -> <<>>
      [] Head(toServer[c]) = "old" -> <<"VersionMismatch">>
      [] OTHER -> IF active = NoClient THEN <<"Handshake">> ELSE <<"Busy">>

\* HandleHandshakeClient: the decision is taken under the lock, and told.  If
\* there is to be no session the socket is deleted.
ThreadHandshake(c) ==
    /\ thread[c] = "handshake" /\ (toServer[c] # <<>> \/ link[c] = "down")
    /\ toServer' = [toServer EXCEPT ![c] = <<>>]
    /\ toUI' = IF link[c] = "up" THEN [toUI EXCEPT ![c] = @ \o Reply(c)] ELSE toUI
    /\ \/ /\ Promoted(c)
          /\ active' = c /\ thread' = [thread EXCEPT ![c] = "read"]
          /\ UNCHANGED link
       \/ /\ ~Promoted(c)
          /\ thread' = [thread EXCEPT ![c] = "closed"]
          /\ link' = [link EXCEPT ![c] = "down"]
          /\ UNCHANGED active
    /\ UNCHANGED <<serverVars, killThread, killServer, sessionVars, disk, backlog, uiVars>>

\* The end of a handler and the top of the loop: killThread is tested, then
\* the thread blocks in the next read.
Loop(c) == thread' = [thread EXCEPT ![c] = IF c \in killThread THEN "cleanup" ELSE "read"]

Packet(c, type) == thread[c] = "read" /\ toServer[c] # <<>> /\ Head(toServer[c]) = type

\* Ping, the lists and queries, writing a section, starting a program, copies
\* of files to the UI, calls of the proxy.
ThreadQuery(c) ==
    /\ Packet(c, "Query") /\ Receive(c) /\ Send(c, "Query")
    /\ Loop(c)
    /\ UNCHANGED <<serverVars, flagVars, sessionVars, disk, uiVars>>

\* As ThreadCopy, with the incomplete file left where it is.
ThreadCopyKeepsPart(c) ==
    /\ Packet(c, "Copy") /\ Receive(c)
    /\ captureNum' = [captureNum EXCEPT ![c] = @ + 1]
    /\ disk' = [disk EXCEPT ![captureNum[c]] = c]
    /\ \/ /\ Send(c, "Copy") /\ Loop(c)
          /\ tempFiles' = [tempFiles EXCEPT ![c] = @ \cup {captureNum[c]}]
       \/ /\ link[c] = "down"
          /\ thread' = [thread EXCEPT ![c] = "cleanup"]
          /\ UNCHANGED <<tempFiles, backlog, link, toUI>>
    /\ UNCHANGED <<serverVars, flagVars, rdc, uiVars>>

\* CopyCaptureToRemote; if the network fails inside the file, it is deleted.
ThreadCopy(c) ==
    /\ Packet(c, "Copy") /\ Receive(c)
    /\ captureNum' = [captureNum EXCEPT ![c] = @ + 1]
    /\ \/ /\ Send(c, "Copy") /\ Loop(c)
          /\ disk' = [disk EXCEPT ![captureNum[c]] = c]
          /\ tempFiles' = [tempFiles EXCEPT ![c] = @ \cup {captureNum[c]}]
       \/ /\ link[c] = "down"
          /\ thread' = [thread EXCEPT ![c] = "cleanup"]
          /\ disk' = [disk EXCEPT ![captureNum[c]] = NoClient]
          /\ UNCHANGED <<tempFiles, backlog, link, toUI>>
    /\ UNCHANGED <<serverVars, flagVars, rdc, uiVars>>

ThreadTakeOwnership(c) ==
    /\ Packet(c, "TakeOwnership") /\ Receive(c) /\ Loop(c)
    /\ tempFiles' = [tempFiles EXCEPT ![c] = @ \cup {AppCapture}]
    /\ UNCHANGED <<serverVars, flagVars, rdc, captureNum, disk, backlog, link, toUI, uiVars>>

\* As ThreadShutdown, with the thread itself going on.
ThreadShutdownLater(c) ==
    /\ Packet(c, "Shutdown") /\ Receive(c) /\ Send(c, "Shutdown")
    /\ killServer' = killServer \cup {c}
    /\ Loop(c)
    /\ UNCHANGED <<serverVars, active, killThread, sessionVars, disk, uiVars>>

ThreadShutdown(c) ==
    /\ Packet(c, "Shutdown") /\ Receive(c) /\ Send(c, "Shutdown")
    /\ killServer' = killServer \cup {c} /\ killThread' = killThread \cup {c}
    /\ thread' = [thread EXCEPT ![c] = "cleanup"]
    /\ UNCHANGED <<serverVars, active, sessionVars, disk, uiVars>>

\* OpenLog: the file is opened, then a driver, while a ticker reports.
ThreadOpen(c) ==
    /\ Packet(c, "Open") /\ Receive(c)
    /\ thread' = [thread EXCEPT ![c] = "opening"]
    /\ rdc' = [rdc EXCEPT ![c] = "failed"]
    /\ UNCHANGED <<serverVars, flagVars, tempFiles, captureNum, disk>>
    /\ UNCHANGED <<backlog, link, toUI, uiVars>>

\* ... the driver is there or not, and the ticker has been joined ...
ThreadOpened(c) ==
    /\ thread[c] = "opening" /\ thread' = [thread EXCEPT ![c] = "opened"]
    /\ rdc' \in {rdc, [rdc EXCEPT ![c] = "open"]}
    /\ UNCHANGED <<serverVars, flagVars, tempFiles, captureNum, disk, socketVars, uiVars>>

\* ... and the result is told.
ThreadTellOpened(c) ==
    /\ thread[c] = "opened" /\ Loop(c)
    /\ Send(c, IF rdc[c] = "open" THEN "LogOpened" ELSE "LogFailed")
    /\ UNCHANGED <<serverVars, flagVars, sessionVars, disk, toServer, uiVars>>

ThreadClose(c) ==
    /\ Packet(c, "Close") /\ Receive(c) /\ Loop(c)
    /\ rdc' = [rdc EXCEPT ![c] = "none"]
    /\ UNCHANGED <<serverVars, flagVars, tempFiles, captureNum, disk>>
    /\ UNCHANGED <<backlog, link, toUI, uiVars>>

\* As ThreadInitResolver, with a ticker that waits for a resolver even if the
\* capture has no callstacks.
ThreadInitResolverTicks(c) ==
    /\ Packet(c, "InitResolver") /\ Receive(c)
    /\ thread' \in {[thread EXCEPT ![c] = "resolving"], [thread EXCEPT ![c] = "stuck"]}
    /\ UNCHANGED <<serverVars, flagVars, sessionVars, disk, backlog, link, toUI, uiVars>>

\* InitResolver: a capture with callstacks is resolved while a ticker reports
\* until there is a resolver, which for callstacks of another platform is never.
ThreadInitResolver(c) ==
    /\ Packet(c, "InitResolver") /\ Receive(c)
    /\ \/ /\ thread' = [thread EXCEPT ![c] = "resolved"]
       \/ /\ rdc[c] = "open" /\ thread' = [thread EXCEPT ![c] = "resolving"]
       \/ /\ rdc[c] = "open" /\ "foreignCallstacks" \in scenario
          /\ thread' = [thread EXCEPT ![c] = "stuck"]
    /\ UNCHANGED <<serverVars, flagVars, sessionVars, disk, backlog, link, toUI, uiVars>>

ThreadResolved(c) ==
    /\ thread[c] = "resolving" /\ thread' = [thread EXCEPT ![c] = "resolved"]
    /\ UNCHANGED <<serverVars, flagVars, sessionVars, disk, socketVars, uiVars>>

ThreadTellResolved(c) ==
    /\ thread[c] = "resolved" /\ Loop(c) /\ Send(c, "InitResolver")
    /\ UNCHANGED <<serverVars, flagVars, sessionVars, disk, toServer, uiVars>>

\* As Tick, with the ticker of OpenLog not joined.
TickUnjoined(c) ==
    /\ thread[c] \in {"opening", "read"} /\ rdc[c] # "none" /\ Send(c, "LogOpenProgress")
    /\ UNCHANGED <<serverVars, flagVars, thread, sessionVars, disk, toServer, uiVars>>

\* The ticker threads of OpenLog and InitResolver.
Tick(c) ==
    /\ \/ thread[c] = "opening" /\ Send(c, "LogOpenProgress")
       \/ thread[c] \in {"resolving", "stuck"} /\ Send(c, "ResolverProgress")
    /\ UNCHANGED <<serverVars, flagVars, thread, sessionVars, disk, toServer, uiVars>>

\* The read fails; what was in flight is lost.
ThreadReadFails(c) ==
    /\ thread[c] = "read" /\ link[c] = "down"
    /\ thread' = [thread EXCEPT ![c] = "cleanup"]
    /\ UNCHANGED <<serverVars, flagVars, sessionVars, disk, socketVars, uiVars>>

\* The other end is silent for RemoteServer_TimeoutMS: the socket shuts down.
ThreadTimeout(c) ==
    /\ thread[c] \in {"handshake", "read"} /\ toServer[c] = <<>> /\ link[c] = "up"
    /\ CloseServerEnd({c})
    /\ UNCHANGED <<serverVars, flagVars, thread, sessionVars, disk, uiVars>>

\* After the loop: what was open is closed and the files are deleted ...
ThreadCleanup(c) ==
    /\ thread[c] = "cleanup" /\ thread' = [thread EXCEPT ![c] = "close"]
    /\ rdc' = [rdc EXCEPT ![c] = "none"]
    /\ disk' = [p \in Paths |-> IF p \in tempFiles[c] THEN NoClient ELSE disk[p]]
    /\ UNCHANGED <<serverVars, flagVars, tempFiles, captureNum, socketVars, uiVars>>

\* ... and the socket is deleted, which tells the server thread.
ThreadCloses(c) ==
    /\ thread[c] = "close" /\ thread' = [thread EXCEPT ![c] = "closed"]
    /\ CloseServerEnd({c})
    /\ tempFiles' = [tempFiles EXCEPT ![c] = {}] /\ captureNum' = [captureNum EXCEPT ![c] = 0]
    /\ UNCHANGED <<serverVars, flagVars, rdc, disk, uiVars>>

ThreadStep(c) ==
    \/ ThreadHandshake(c) \/ ThreadQuery(c) \/ ThreadCopy(c) \/ ThreadTakeOwnership(c)
    \/ ThreadShutdown(c) \/ ThreadOpen(c) \/ ThreadOpened(c) \/ ThreadTellOpened(c)
    \/ ThreadClose(c) \/ ThreadInitResolver(c) \/ ThreadResolved(c) \/ ThreadTellResolved(c)
    \/ ThreadReadFails(c) \/ ThreadCleanup(c) \/ ThreadCloses(c)

-----------------------------------------------------------------------------
(* RemoteServer objects.                                                   *)

remoteVars == <<serverVars, flagVars, thread, sessionVars, disk>>

\* RENDERDOC_CreateRemoteServerConnection, as far as its handshake.
UIConnect(c, kind) ==
    /\ ui[c] = "idle" /\ serverPC \notin {"returned", "failed"}
    /\ ui' = [ui EXCEPT ![c] = "connecting"]
    /\ backlog' = backlog \cup {c} /\ link' = [link EXCEPT ![c] = "up"]
    /\ toServer' = [toServer EXCEPT ![c] = <<kind>>]
    /\ asked' = [asked EXCEPT ![c] = kind]
    /\ UNCHANGED <<remoteVars, toUI, opened, scenario>>

\* The object, or the attempt to make it, is gone.
Closed(c) ==
    /\ ui' = [ui EXCEPT ![c] = "closed"] /\ CloseUIEnd(c)
    /\ asked' = [asked EXCEPT ![c] = "nothing"] /\ opened' = [opened EXCEPT ![c] = FALSE]

\* The answer: an object is made of an active connection only.
UIHandshake(c) ==
    /\ ui[c] = "connecting" /\ toUI[c] # <<>>
    /\ \/ /\ Head(toUI[c]) = "Handshake" /\ asked[c] = "active"
          /\ ui' = [ui EXCEPT ![c] = "ready"] /\ asked' = [asked EXCEPT ![c] = "nothing"]
          /\ toUI' = [toUI EXCEPT ![c] = Tail(@)]
          /\ UNCHANGED <<backlog, link, toServer, opened>>
       \/ /\ Head(toUI[c]) = "Handshake" => asked[c] # "active"
          /\ Closed(c)
    /\ UNCHANGED <<remoteVars, scenario>>

Answered(type) == type \notin {"TakeOwnership", "Close"}

\* Copies that the server has not begun.
CopiesAsked(c) == {i \in Indices(toServer[c]) : toServer[c][i] = "Copy"}

\* A call of the object: the request is sent, and if there is an answer to it
\* the caller waits for that.
UIRequest(c, type) ==
    /\ ui[c] = "ready" /\ Len(toServer[c]) < MaxQueue
    /\ type = "Copy" => captureNum[c] + Cardinality(CopiesAsked(c)) < MaxCopies
    /\ type = "Open" => ~opened[c]
    /\ type \in {"Close", "InitResolver"} => opened[c]
    /\ toServer' = IF link[c] = "up" THEN [toServer EXCEPT ![c] = Append(@, type)] ELSE toServer
    /\ opened' = IF type = "Close" THEN [opened EXCEPT ![c] = FALSE] ELSE opened
    /\ \/ /\ Answered(type)
          /\ ui' = [ui EXCEPT ![c] = "asking"] /\ asked' = [asked EXCEPT ![c] = type]
       \/ /\ ~Answered(type) /\ UNCHANGED <<ui, asked>>
    /\ UNCHANGED <<remoteVars, backlog, link, toUI, scenario>>

\* The next chunk: progress is reported and the wait goes on; anything else is
\* the answer.  After the answer to a shutdown the object deletes itself; a
\* capture that was opened may still fail to get a proxy here.
UIReceive(c) ==
    /\ ui[c] = "asking" /\ toUI[c] # <<>>
    /\ LET type == Head(toUI[c]) IN
         \/ /\ <<asked[c], type>> \in
                   {<<"Open", "LogOpenProgress">>, <<"InitResolver", "ResolverProgress">>}
            /\ toUI' = [toUI EXCEPT ![c] = Tail(@)]
            /\ UNCHANGED <<ui, asked, opened, backlog, link, toServer>>
         \/ /\ asked[c] = "Shutdown" /\ type = "Shutdown"
            /\ Closed(c)
         \/ /\ asked[c] # "Shutdown" /\ type \notin {"LogOpenProgress", "ResolverProgress"}
            /\ ui' = [ui EXCEPT ![c] = "ready"] /\ asked' = [asked EXCEPT ![c] = "nothing"]
            /\ \/ UNCHANGED opened
               \/ type = "LogOpened" /\ opened' = [opened EXCEPT ![c] = TRUE]
            /\ toUI' = [toUI EXCEPT ![c] = Tail(@)]
            /\ UNCHANGED <<backlog, link, toServer>>
    /\ UNCHANGED <<remoteVars, scenario>>

\* The connection is lost, or nothing came in RemoteServer_TimeoutMS.
UILost(c) ==
    /\ ui[c] \in {"connecting", "asking", "ready"} /\ link[c] = "down"
    /\ Closed(c)
    /\ UNCHANGED <<remoteVars, scenario>>

\* ShutdownConnection, or the UI ends.
UIShutdown(c) ==
    /\ ui[c] = "ready"
    /\ Closed(c)
    /\ UNCHANGED <<remoteVars, scenario>>

UIReads(c) == UIHandshake(c) \/ UIReceive(c) \/ UILost(c)

UIStep(c) ==
    \/ UIReads(c) \/ UIShutdown(c)
    \/ \E kind \in Kinds : UIConnect(c, kind)
    \/ \E type \in Requests \cap scenario : UIRequest(c, type)

Next ==
    \/ ServerStep \/ ServerAcceptFails \/ KillReplay
    \/ \E c \in Clients : ThreadStep(c) \/ Tick(c) \/ ThreadTimeout(c) \/ UIStep(c) \/ Break(c)

Spec == Init /\ [][Next]_vars

\* Threads run, a socket that stays silent times out, and a caller reads.
Fairness ==
    /\ WF_vars(ServerStep)
    /\ \A c \in Clients : WF_vars(ThreadStep(c)) /\ WF_vars(ThreadTimeout(c)) /\ WF_vars(UIReads(c))

FairSpec == Spec /\ Fairness

-----------------------------------------------------------------------------
(* Types.                                                                  *)

RemoteServerTypeOK ==
    /\ serverPC \in {"accept", "reap", "stop", "join", "returned", "failed"}
    /\ {client, active} \subseteq Clients \cup {NoClient} /\ clients \in Seq(Clients)
    /\ kill \in BOOLEAN
    /\ killServer \subseteq killThread /\ killThread \subseteq Clients
    /\ thread \in [Clients -> {"none", "handshake", "read", "opening", "opened", "resolving",
                               "resolved", "stuck", "cleanup", "close", "closed"}]
    /\ rdc \in [Clients -> {"none", "failed", "open"}] /\ tempFiles \in [Clients -> SUBSET Paths]
    /\ captureNum \in [Clients -> 0 .. MaxCopies]
    /\ disk \in [Paths -> Clients \cup {NoClient, AppCapture}]
    /\ backlog \subseteq Clients /\ link \in [Clients -> {"none", "up", "down"}]
    /\ ui \in [Clients -> {"idle", "connecting", "ready", "asking", "closed"}]
    /\ \A c \in Clients : Len(toUI[c]) <= MaxQueue /\ Len(toServer[c]) <= MaxQueue

-----------------------------------------------------------------------------
(* Safety.                                                                 *)

Serving == serverPC \in {"accept", "reap", "stop"}

\* No two sessions overlap while the server is on, although a session ends
\* by itself and the server thread notices later.
OneSession == Serving => \A c \in Clients : InSession(c) => active = c

\* The active client has not been deleted: the server thread reads its
\* killServer in every round.
ActiveIsAlive == Serving /\ active # NoClient => active \in ToSet(clients)

\* A thread is joined before its data is deleted, and no thread is left when
\* the server has returned in good order.
NoThreadIsForgotten ==
    serverPC # "failed" =>
        \A c \in Clients : thread[c] \in {"none", "closed"} \/ c \in ToSet(clients)

\* The server thread knows every thread that runs, the active one above all,
\* although threads end by themselves and are noticed by a field they clear.
ThreadsAreKnown == ActiveIsAlive /\ NoThreadIsForgotten

\* A capture that was copied to the server stays there, as it was sent, until
\* its session ends, although the next session uses the same paths.
CopiesIntact ==
    Serving => \A c \in Clients : InSession(c) =>
        \A p \in tempFiles[c] \ {AppCapture} : disk[p] = c

\* When a session is over nothing that it copied, or took over, is left.
NoLeftovers ==
    \A c \in Clients : thread[c] \in {"close", "closed"} =>
        /\ \A p \in Paths : disk[p] # c
        /\ AppCapture \in tempFiles[c] => disk[AppCapture] = NoClient

\* Files live exactly as long as the session that owns them.
FilesFollowSessions == CopiesIntact /\ NoLeftovers

\* What a caller is sent is the answer to what it asked, with the progress of
\* that in front: two threads of the server write to one socket, and some
\* requests have no answer.
AnswersMatch ==
    \A c \in Clients : \A i \in Indices(toUI[c]) : ui[c] \in {"ready", "asking"} =>
        /\ ui[c] = "asking"
        /\ i < Len(toUI[c]) => toUI[c][i] \in {"LogOpenProgress", "ResolverProgress"}
        /\ \/ toUI[c][i] = asked[c]
           \/ asked[c] = "Open" /\ toUI[c][i] \in {"LogOpenProgress", "LogOpened", "LogFailed"}
           \/ asked[c] = "InitResolver" /\ toUI[c][i] = "ResolverProgress"

\* The threads implement the abstract service.
Service == INSTANCE SessionService WITH
    serving <- Serving,
    holder  <- active,
    working <- {c \in Clients : InSession(c)}

ServiceSpec == Service!Spec

-----------------------------------------------------------------------------
(* Liveness, under FairSpec.                                               *)

Over == serverPC \in {"join", "returned", "failed"}

\* A connection gets an answer, or is closed, whoever has a session: the
\* handshakes have threads of their own.
HandshakeAnswered == \A c \in Clients : c \in backlog ~> (ui[c] # "connecting" \/ Over)

\* When the active client is gone, the next one can have a session.
ServerIsFreed == \A c \in Clients : (active = c /\ ui[c] = "closed") ~> (active # c \/ Over)

\* A caller gets an answer, or learns that the connection is lost.
CallerAnswered == \A c \in Clients : ui[c] = "asking" ~> ui[c] # "asking"

\* A server that is to stop returns, if no handshake was going on that could
\* make another connection the active one, unnoticed.
ServerReturns ==
    (serverPC = "stop" /\ \A c \in Clients : thread[c] # "handshake") ~> serverPC = "returned"

\* Whoever sends something that has an answer does not wait for ever, and the server
\* gets over every session, and over its own end.
ServerGoesOn == HandshakeAnswered /\ CallerAnswered /\ ServerIsFreed /\ ServerReturns

-----------------------------------------------------------------------------
(* What the documentation says, and the code does not do.                  *)

\* renderdoc_replay.h:1944: the function blocks "until a remote connection
\* tells the server to shut down".
ShutdownIsObeyed == \A c \in Clients : c \in killServer ~> Over

\* renderdoc_replay.h:1442: a file that was passed on "will be kept around for
\* future use until the server closes".
OwnedCapturesAreKept ==
    \A c \in Clients : Serving /\ AppCapture \in tempFiles[c] => disk[AppCapture] # NoClient

=============================================================================
