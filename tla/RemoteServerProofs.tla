-------------------------- MODULE RemoteServerProofs --------------------------
(***************************************************************************)
(* For any number of connections, whatever they ask for and whatever       *)
(* fails: the server thread knows every thread that runs, the active one   *)
(* included, and the threads implement the service of SessionService.      *)
(*                                                                         *)
(* Neither is inductive alone.  Promotion in a handshake needs the thread  *)
(* to be in the list of the server thread, whoever reaps needs to know     *)
(* that the dead thread has no session, and both need that a connection    *)
(* gets one thread only (ConnectionIsNew) and that a session that has      *)
(* ended is still the active one's until its socket is deleted             *)
(* (SessionIsActive).                                                      *)
(*                                                                         *)
(* The last part is about what a session leaves in files and on its        *)
(* socket, from an invariant of their own (Traffic).  A path is taken for  *)
(* every copy, so the copies asked for but not made yet have to be counted *)
(* in the stream (CopyRequests, Fits); a file belongs to the session that  *)
(* wrote it until its thread cleans up, whatever the paths are that        *)
(* sessions share (FilesOwned).  A conversation (Talk) is unread, being    *)
(* worked on, or told, for as long as its link is up; when the link is     *)
(* down, either end keeps what it has and nobody adds to it.               *)
(***************************************************************************)
EXTENDS RemoteServer, SequenceTheorems, FiniteSetTheorems, WellFoundedInduction, TLAPS

\* What the proofs are about; every other variable is payload.
core == <<serverPC, client, clients, active, thread, backlog, ui>>

ThreadPC == {"none", "handshake", "read", "opening", "opened", "resolving", "resolved", "stuck",
             "cleanup", "close", "closed"}

UIPC == {"idle", "connecting", "ready", "asking", "closed"}

CoreTypes ==
    /\ serverPC \in {"accept", "reap", "stop", "join", "returned", "failed"}
    /\ client \in Clients \cup {NoClient} /\ active \in Clients \cup {NoClient}
    /\ clients \in Seq(Clients)
    /\ thread \in [Clients -> ThreadPC]
    /\ backlog \subseteq Clients
    /\ ui \in [Clients -> UIPC]

ConnectionIsNew ==
    /\ \A c \in Clients : ui[c] = "idle" => thread[c] = "none" /\ c \notin backlog /\ client # c
    /\ \A c \in backlog : thread[c] = "none"
    /\ client # NoClient => thread[client] = "none" /\ client \notin backlog

SessionIsActive ==
    Serving => \A c \in Clients : InSession(c) \/ thread[c] = "close" => active = c

IInv == CoreTypes /\ ConnectionIsNew /\ SessionIsActive /\ ThreadsAreKnown

USE ClientsAssumption

-----------------------------------------------------------------------------
(* Lists of threads.                                                       *)

LEMMA LeastIndex ==
    ASSUME NEW T \in SUBSET Nat, T # {}
    PROVE  \E i \in T : \A j \in T : i <= j
  <1>1. PICK i \in T : \A j \in T : <<j, i>> \notin OpToRel(<, Nat)
    BY WFMin, NatLessThanWellFounded
  <1>2. ASSUME NEW j \in T
        PROVE  i <= j
    <2>1. j \in Nat /\ i \in Nat /\ ~(j < i)
      BY <1>1 DEF OpToRel
    <2>2. QED
      BY <2>1
  <1>3. QED
    BY <1>2

LEMMA RemoveKeeps ==
    ASSUME NEW S, NEW s \in Seq(S), NEW i \in 1 .. Len(s)
    PROVE  /\ RemoveAt(s, i) \in Seq(S)
           /\ \A k \in 1 .. Len(s) : k # i => s[k] \in ToSet(RemoveAt(s, i))
  <1> DEFINE a == SubSeq(s, 1, i - 1)
             b == SubSeq(s, i + 1, Len(s))
             r == a \o b
  <1>1. a \in Seq(S) /\ Len(a) = i - 1 /\ \A k \in 1 .. i - 1 : a[k] = s[k]
    BY SubSeqProperties
  <1>2. b \in Seq(S) /\ Len(b) = Len(s) - i /\ \A k \in 1 .. Len(s) - i : b[k] = s[i + k]
    BY SubSeqProperties
  <1>3. RemoveAt(s, i) = r
    BY DEF RemoveAt
  <1> HIDE DEF a, b
  <1>4. /\ r \in Seq(S) /\ Len(r) = Len(s) - 1
        /\ \A k \in 1 .. Len(s) - 1 : r[k] = IF k <= i - 1 THEN a[k] ELSE b[k - (i - 1)]
    <2>1. /\ r \in Seq(S) /\ Len(r) = Len(a) + Len(b)
          /\ \A k \in 1 .. Len(a) + Len(b) : r[k] = IF k <= Len(a) THEN a[k] ELSE b[k - Len(a)]
      BY <1>1, <1>2, ConcatProperties
    <2> HIDE DEF r
    <2>2. QED
      BY <1>1, <1>2, <2>1
  <1> HIDE DEF r
  <1>5. \A k \in 1 .. Len(s) - 1 : r[k] \in ToSet(r)
    BY <1>4 DEF ToSet
  <1>6. ASSUME NEW k \in 1 .. Len(s), k # i
        PROVE  s[k] \in ToSet(r)
    <2>1. CASE k < i
      <3>1. k \in 1 .. Len(s) - 1 /\ r[k] = s[k]
        BY <1>1, <1>4, <2>1
      <3>2. QED
        BY <1>5, <3>1
    <2>2. CASE k > i
      <3>1. k - 1 \in 1 .. Len(s) - 1 /\ k - i \in 1 .. Len(s) - i /\ r[k - 1] = b[k - i]
        BY <1>4, <2>2
      <3>2. r[k - 1] = s[k]
        BY <1>2, <3>1
      <3>3. QED
        BY <1>5, <3>1, <3>2
    <2>3. QED
      BY <1>6, <2>1, <2>2
  <1>7. QED
    BY <1>3, <1>4, <1>6

LEMMA AppendKeeps ==
    ASSUME NEW S, NEW s \in Seq(S), NEW e \in S
    PROVE  /\ Append(s, e) \in Seq(S)
           /\ e \in ToSet(Append(s, e))
           /\ ToSet(s) \subseteq ToSet(Append(s, e))
  <1>1. PICK r : r = Append(s, e)
    OBVIOUS
  <1>2. /\ r \in Seq(S) /\ Len(r) = Len(s) + 1 /\ r[Len(s) + 1] = e
        /\ \A k \in 1 .. Len(s) : r[k] = s[k]
    BY <1>1
  <1>3. \A k \in 1 .. Len(s) + 1 : r[k] \in ToSet(r)
    BY <1>2 DEF ToSet
  <1>4. e \in ToSet(r)
    BY <1>2, <1>3
  <1>5. ToSet(s) \subseteq ToSet(r)
    <2> SUFFICES ASSUME NEW x \in ToSet(s)
                 PROVE  x \in ToSet(r)
      OBVIOUS
    <2>1. PICK k \in 1 .. Len(s) : x = s[k]
      BY DEF ToSet
    <2>2. QED
      BY <1>2, <1>3, <2>1
  <1>6. QED
    BY <1>1, <1>2, <1>4, <1>5

\* What is reaped is dead, and nothing else leaves the list.
LEMMA ReapProperties ==
    ASSUME clients \in Seq(Clients)
    PROVE  /\ Reap.clients \in Seq(Clients)
           /\ Reap.gone # NoClient => Reap.gone \in Clients /\ thread[Reap.gone] = "closed"
           /\ \A c \in ToSet(clients) : c # Reap.gone => c \in ToSet(Reap.clients)
  <1> DEFINE dead == {i \in Indices(clients) : Dead(clients[i])}
             first == CHOOSE i \in dead : \A j \in dead : i <= j
  <1>1. CASE dead = {}
    BY <1>1 DEF Reap
  <1>2. CASE dead # {}
    <2>1. first \in dead
      <3>1. dead \subseteq Nat
        BY DEF Indices
      <3>2. PICK i \in dead : \A j \in dead : i <= j
        BY <1>2, <3>1, LeastIndex
      <3>3. QED
        BY <3>2
    <2>2. first \in 1 .. Len(clients) /\ thread[clients[first]] = "closed"
      BY <2>1 DEF Indices, Dead
    <2>3. Reap.clients = RemoveAt(clients, first) /\ Reap.gone = clients[first]
      BY <1>2 DEF Reap
    <2>4. clients[first] \in Clients
      BY <2>2
    <2>5. ASSUME NEW c \in ToSet(clients), c # clients[first]
          PROVE  c \in ToSet(RemoveAt(clients, first))
      <3>1. PICK k \in 1 .. Len(clients) : c = clients[k]
        BY <2>5 DEF ToSet
      <3>2. QED
        BY <2>2, <2>5, <3>1, RemoveKeeps
    <2>6. QED
      BY <2>2, <2>3, <2>4, <2>5, RemoveKeeps
  <1>3. QED
    BY <1>1, <1>2

-----------------------------------------------------------------------------

THEOREM InitEstablishes == Init => IInv
  BY DEF Init, IInv, CoreTypes, ConnectionIsNew, SessionIsActive, ThreadsAreKnown, ActiveIsAlive,
         NoThreadIsForgotten, InSession, ThreadPC, UIPC, Serving

LEMMA CoreUnchanged ==
    ASSUME IInv, UNCHANGED core
    PROVE  IInv'
  BY DEF core, IInv, CoreTypes, ConnectionIsNew, SessionIsActive, ThreadsAreKnown, ActiveIsAlive,
         NoThreadIsForgotten, InSession, Serving

-----------------------------------------------------------------------------
(* The server thread.                                                      *)

\* The loop goes on with a connection taken from the backlog, or ends.
LEMMA AcceptPreserves ==
    ASSUME IInv, ServerAccept
    PROVE  IInv'
  <1>1. /\ serverPC = "accept" /\ serverPC' \in {"stop", "reap"}
        /\ backlog' \subseteq backlog
        /\ client' \in {client, NoClient} \cup backlog
        /\ client' # client => client' \notin backlog'
        /\ UNCHANGED <<clients, active, thread, ui>>
    BY DEF ServerAccept, flagVars, uiVars
  <1>2. CoreTypes' /\ ConnectionIsNew'
    BY <1>1 DEF IInv, CoreTypes, ConnectionIsNew
  <1>3. SessionIsActive' /\ ThreadsAreKnown'
    BY <1>1 DEF IInv, SessionIsActive, ThreadsAreKnown, ActiveIsAlive, NoThreadIsForgotten,
                InSession, Serving
  <1>4. QED
    BY <1>2, <1>3 DEF IInv

\* The reaped thread had no session, so the active client goes with it only if
\* it is done; every other thread stays in the list, and the new one is put there.
LEMMA ReapPreserves ==
    ASSUME IInv, ServerReap
    PROVE  IInv'
  <1>1. /\ serverPC = "reap" /\ serverPC' = "accept" /\ client' = NoClient
        /\ active' = IF active = Reap.gone THEN NoClient ELSE active
        /\ UNCHANGED ui
        /\ backlog' = backlog
    BY DEF ServerReap, StillActive, uiVars, socketVars, CloseServerEnd
  <1>2. \/ clients' = Reap.clients /\ thread' = thread
        \/ /\ client # NoClient /\ clients' = Append(Reap.clients, client)
           /\ thread' = [thread EXCEPT ![client] = "handshake"]
    BY DEF ServerReap
  <1>3. /\ Reap.clients \in Seq(Clients)
        /\ Reap.gone # NoClient => Reap.gone \in Clients /\ thread[Reap.gone] = "closed"
        /\ \A c \in ToSet(clients) : c # Reap.gone => c \in ToSet(Reap.clients)
    BY ReapProperties DEF IInv, CoreTypes
  <1>4. client # NoClient => client \in Clients /\ thread[client] = "none" /\ ui[client] # "idle"
    BY DEF IInv, CoreTypes, ConnectionIsNew
  <1>5. \A c \in Clients : thread'[c] = IF thread' # thread /\ c = client THEN "handshake" ELSE thread[c]
    BY <1>2, <1>4 DEF IInv, CoreTypes
  <1>6. CoreTypes' /\ ToSet(Reap.clients) \subseteq ToSet(clients')
    <2>1. CASE clients' = Reap.clients /\ thread' = thread
      BY <1>1, <1>3, <2>1 DEF IInv, CoreTypes
    <2>2. CASE /\ client # NoClient /\ clients' = Append(Reap.clients, client)
               /\ thread' = [thread EXCEPT ![client] = "handshake"]
      <3>1. clients' \in Seq(Clients) /\ ToSet(Reap.clients) \subseteq ToSet(clients')
        BY <1>3, <1>4, <2>2, AppendKeeps
      <3>2. QED
        BY <1>1, <1>4, <2>2, <3>1 DEF IInv, CoreTypes, ThreadPC
    <2>3. QED
      BY <1>2, <2>1, <2>2
  <1>7. ConnectionIsNew'
    BY <1>1, <1>2, <1>4, <1>5 DEF IInv, CoreTypes, ConnectionIsNew
  <1>8. SessionIsActive'
    <2>1. \A c \in Clients : InSession(c)' \/ thread'[c] = "close" => InSession(c) \/ thread[c] = "close"
      BY <1>5 DEF InSession
    <2>2. \A c \in Clients : InSession(c) \/ thread[c] = "close" => c # Reap.gone
      BY <1>3 DEF InSession
    <2>3. QED
      BY <1>1, <2>1, <2>2 DEF IInv, SessionIsActive, Serving
  <1>9. ActiveIsAlive'
    BY <1>1, <1>3, <1>6 DEF IInv, ThreadsAreKnown, ActiveIsAlive, Serving
  <1>10. NoThreadIsForgotten'
    <2>1. ASSUME NEW c \in Clients, thread'[c] \notin {"none", "closed"}
          PROVE  c \in ToSet(clients')
      <3>1. CASE thread' # thread /\ c = client
        BY <1>2, <1>3, <1>4, <3>1, AppendKeeps
      <3>2. CASE thread'[c] = thread[c]
        <4>1. c \in ToSet(clients) /\ c # Reap.gone
          BY <1>1, <1>3, <2>1, <3>2 DEF IInv, ThreadsAreKnown, NoThreadIsForgotten
        <4>2. QED
          BY <1>3, <1>6, <4>1
      <3>3. QED
        BY <1>5, <3>1, <3>2
    <2>2. QED
      BY <2>1 DEF NoThreadIsForgotten
  <1>11. QED
    BY <1>6, <1>7, <1>8, <1>9, <1>10 DEF IInv, ThreadsAreKnown

\* The end: nothing is claimed of sessions any more, and the threads are in the
\* list until all of them are dead.
LEMMA EndPreserves ==
    ASSUME IInv, ServerAcceptFails \/ ServerStop \/ ServerJoin
    PROVE  IInv'
  <1>1. CASE ServerAcceptFails
    <2>1. /\ serverPC' = "failed" /\ backlog' = {}
          /\ UNCHANGED <<client, clients, active, thread, ui>>
      BY <1>1 DEF ServerAcceptFails, flagVars, uiVars
    <2>2. QED
      BY <2>1 DEF IInv, CoreTypes, ConnectionIsNew, SessionIsActive, ThreadsAreKnown,
                  ActiveIsAlive, NoThreadIsForgotten, Serving
  <1>2. CASE ServerStop
    <2>1. /\ serverPC = "stop" /\ serverPC' = "join" /\ active' = NoClient
          /\ UNCHANGED <<client, clients, thread, backlog, ui>>
      BY <1>2 DEF ServerStop, socketVars, uiVars
    <2>2. QED
      BY <2>1 DEF IInv, CoreTypes, ConnectionIsNew, SessionIsActive, ThreadsAreKnown,
                  ActiveIsAlive, NoThreadIsForgotten, Serving
  <1>3. CASE ServerJoin
    <2>1. /\ serverPC = "join" /\ serverPC' = "returned" /\ clients' = <<>> /\ backlog' = {}
          /\ \A i \in 1 .. Len(clients) : thread[clients[i]] = "closed"
          /\ UNCHANGED <<client, active, thread, ui>>
      BY <1>3 DEF ServerJoin, Indices, Dead, flagVars, uiVars
    <2>2. \A c \in ToSet(clients) : thread[c] = "closed"
      BY <2>1 DEF ToSet, IInv, CoreTypes
    <2>3. \A c \in Clients : thread[c] \in {"none", "closed"}
      BY <2>1, <2>2 DEF IInv, ThreadsAreKnown, NoThreadIsForgotten
    <2>4. QED
      BY <2>1, <2>3 DEF IInv, CoreTypes, ConnectionIsNew, SessionIsActive, ThreadsAreKnown,
                        ActiveIsAlive, NoThreadIsForgotten, Serving
  <1>4. QED
    BY <1>1, <1>2, <1>3

-----------------------------------------------------------------------------
(* The threads of connections.                                             *)

SessionPC == {"read", "opening", "opened", "resolving", "resolved", "stuck", "cleanup"}

\* What the pc of a thread may become, unless its connection is promoted.
MayMove(from, to) ==
    \/ from \in SessionPC /\ to \in SessionPC
    \/ from = "cleanup" /\ to = "close"
    \/ from \in {"handshake", "close"} /\ to = "closed"

\* A thread moves on without a session to begin.
LEMMA MovingPreserves ==
    ASSUME IInv, NEW c \in Clients, NEW pc \in ThreadPC, MayMove(thread[c], pc),
           thread' = [thread EXCEPT ![c] = pc],
           UNCHANGED <<serverPC, client, clients, active, backlog, ui>>
    PROVE  IInv'
  <1>1. \A d \in Clients : thread'[d] = IF d = c THEN pc ELSE thread[d]
    BY DEF IInv, CoreTypes
  <1>2. CoreTypes'
    BY DEF IInv, CoreTypes
  <1>3. ConnectionIsNew'
    BY <1>1 DEF IInv, CoreTypes, ConnectionIsNew, MayMove, SessionPC
  <1>4. SessionIsActive'
    BY <1>1 DEF IInv, SessionIsActive, InSession, MayMove, SessionPC, Serving
  <1>5. ThreadsAreKnown'
    BY <1>1 DEF IInv, ThreadsAreKnown, ActiveIsAlive, NoThreadIsForgotten, MayMove, SessionPC,
                Serving
  <1>6. QED
    BY <1>2, <1>3, <1>4, <1>5 DEF IInv

\* Nobody has a session when a connection is promoted, and its thread is known.
LEMMA PromotionPreserves ==
    ASSUME IInv, NEW c \in Clients, thread[c] = "handshake", active = NoClient, active' = c,
           thread' = [thread EXCEPT ![c] = "read"],
           UNCHANGED <<serverPC, client, clients, backlog, ui>>
    PROVE  IInv'
  <1>1. \A d \in Clients : thread'[d] = IF d = c THEN "read" ELSE thread[d]
    BY DEF IInv, CoreTypes
  <1>2. CoreTypes'
    BY DEF IInv, CoreTypes, ThreadPC
  <1>3. ConnectionIsNew'
    BY <1>1 DEF IInv, CoreTypes, ConnectionIsNew
  <1>4. SessionIsActive'
    BY <1>1 DEF IInv, SessionIsActive, InSession, Serving
  <1>5. ThreadsAreKnown'
    BY <1>1 DEF IInv, ThreadsAreKnown, ActiveIsAlive, NoThreadIsForgotten, Serving
  <1>6. QED
    BY <1>2, <1>3, <1>4, <1>5 DEF IInv

\* What a step of a thread other than a promotion does to the core.
Moves(c) ==
    \E pc \in ThreadPC : MayMove(thread[c], pc) /\ thread' = [thread EXCEPT ![c] = pc]

LEMMA StepsMove ==
    ASSUME NEW c \in Clients, ThreadStep(c), ~(ThreadHandshake(c) /\ Promoted(c))
    PROVE  Moves(c) /\ UNCHANGED <<serverPC, client, clients, active, backlog, ui>>
  <1>1. CASE ThreadHandshake(c)
    BY <1>1 DEF ThreadHandshake, Moves, MayMove, ThreadPC, SessionPC, serverVars, uiVars
  <1>2. CASE ThreadQuery(c) \/ ThreadCopy(c) \/ ThreadTakeOwnership(c) \/ ThreadShutdown(c)
    <2>1. thread[c] = "read" /\ UNCHANGED <<serverPC, client, clients, active, backlog, ui>>
      BY <1>2 DEF ThreadQuery, ThreadCopy, ThreadTakeOwnership, ThreadShutdown, Packet, Send,
                  serverVars, flagVars, uiVars
    <2>2. \E pc \in {"read", "cleanup"} : thread' = [thread EXCEPT ![c] = pc]
      BY <1>2 DEF ThreadQuery, ThreadCopy, ThreadTakeOwnership, ThreadShutdown, Loop
    <2>3. QED
      BY <2>1, <2>2 DEF Moves, MayMove, ThreadPC, SessionPC
  <1>3. CASE ThreadOpen(c) \/ ThreadClose(c) \/ ThreadInitResolver(c) \/ ThreadReadFails(c)
    <2>1. thread[c] = "read" /\ UNCHANGED <<serverPC, client, clients, active, backlog, ui>>
      BY <1>3 DEF ThreadOpen, ThreadClose, ThreadInitResolver, ThreadReadFails, Packet,
                  serverVars, flagVars, socketVars, uiVars
    <2>2. \E pc \in {"read", "cleanup", "opening", "resolved", "resolving", "stuck"} :
              thread' = [thread EXCEPT ![c] = pc]
      BY <1>3 DEF ThreadOpen, ThreadClose, ThreadInitResolver, ThreadReadFails, Loop
    <2>3. QED
      BY <2>1, <2>2 DEF Moves, MayMove, ThreadPC, SessionPC
  <1>4. CASE ThreadOpened(c) \/ ThreadTellOpened(c) \/ ThreadResolved(c) \/ ThreadTellResolved(c)
    <2>1. /\ thread[c] \in {"opening", "opened", "resolving", "resolved"}
          /\ UNCHANGED <<serverPC, client, clients, active, backlog, ui>>
      BY <1>4 DEF ThreadOpened, ThreadTellOpened, ThreadResolved, ThreadTellResolved, Send,
                  serverVars, flagVars, socketVars, uiVars
    <2>2. \E pc \in {"read", "cleanup", "opened", "resolved"} : thread' = [thread EXCEPT ![c] = pc]
      BY <1>4 DEF ThreadOpened, ThreadTellOpened, ThreadResolved, ThreadTellResolved, Loop
    <2>3. QED
      BY <2>1, <2>2 DEF Moves, MayMove, ThreadPC, SessionPC
  <1>5. CASE ThreadCleanup(c) \/ ThreadCloses(c)
    BY <1>5 DEF ThreadCleanup, ThreadCloses, CloseServerEnd, Moves, MayMove, ThreadPC, SessionPC,
                serverVars, flagVars, socketVars, uiVars
  <1>6. QED
    BY <1>1, <1>2, <1>3, <1>4, <1>5 DEF ThreadStep

LEMMA PromotionStep ==
    ASSUME NEW c \in Clients, ThreadHandshake(c), Promoted(c)
    PROVE  /\ thread[c] = "handshake" /\ active = NoClient /\ active' = c
           /\ thread' = [thread EXCEPT ![c] = "read"]
           /\ UNCHANGED <<serverPC, client, clients, backlog, ui>>
  BY DEF ThreadHandshake, Promoted, serverVars, uiVars

LEMMA ThreadPreserves ==
    ASSUME IInv, NEW c \in Clients, ThreadStep(c)
    PROVE  IInv'
  <1>1. CASE ThreadHandshake(c) /\ Promoted(c)
    BY <1>1, PromotionStep, PromotionPreserves
  <1>2. CASE ~(ThreadHandshake(c) /\ Promoted(c))
    BY <1>2, StepsMove, MovingPreserves DEF Moves
  <1>3. QED
    BY <1>1, <1>2

-----------------------------------------------------------------------------
(* Everything else: a new connection, or nothing the proofs are about.     *)

LEMMA OthersKeepThreads ==
    ASSUME IInv, NEW c \in Clients, UIStep(c) \/ Tick(c) \/ ThreadTimeout(c) \/ Break(c)
    PROVE  /\ UNCHANGED <<serverPC, client, clients, active, thread>>
           /\ ui' \in [Clients -> UIPC]
           /\ \/ UNCHANGED backlog /\ \A d \in Clients : ui'[d] = "idle" => ui[d] = "idle"
              \/ /\ ui[c] = "idle" /\ ui' = [ui EXCEPT ![c] = "connecting"]
                 /\ backlog' = backlog \cup {c}
  <1>1. CASE Tick(c) \/ ThreadTimeout(c) \/ Break(c)
    BY <1>1 DEF Tick, ThreadTimeout, Break, Send, CloseServerEnd, serverVars, flagVars, uiVars,
                IInv, CoreTypes
  <1>2. ASSUME NEW kind \in Kinds, UIConnect(c, kind)
        PROVE  /\ UNCHANGED <<serverPC, client, clients, active, thread>>
               /\ ui' \in [Clients -> UIPC]
               /\ ui[c] = "idle" /\ ui' = [ui EXCEPT ![c] = "connecting"]
               /\ backlog' = backlog \cup {c}
    BY <1>2 DEF UIConnect, remoteVars, serverVars, flagVars, IInv, CoreTypes, UIPC
  <1>3. CASE UIReads(c) \/ UIShutdown(c) \/ \E type \in Requests \cap scenario : UIRequest(c, type)
    <2>1. UNCHANGED <<remoteVars, backlog>>
      BY <1>3 DEF UIReads, UIHandshake, UIReceive, UILost, UIShutdown, UIRequest, Closed, CloseUIEnd
    <2>2. ui' = ui \/ \E new \in {"ready", "asking", "closed"} : ui' = [ui EXCEPT ![c] = new]
      BY <1>3 DEF UIReads, UIHandshake, UIReceive, UILost, UIShutdown, UIRequest, Closed
    <2>3. ui' \in [Clients -> UIPC] /\ \A d \in Clients : ui'[d] = "idle" => ui[d] = "idle"
      BY <2>2 DEF IInv, CoreTypes, UIPC
    <2>4. QED
      BY <2>1, <2>3 DEF remoteVars, serverVars, flagVars
  <1>4. QED
    BY <1>1, <1>2, <1>3 DEF UIStep

LEMMA OthersPreserve ==
    ASSUME IInv, NEW c \in Clients, UIStep(c) \/ Tick(c) \/ ThreadTimeout(c) \/ Break(c)
    PROVE  IInv'
  <1>1. /\ UNCHANGED <<serverPC, client, clients, active, thread>>
        /\ ui' \in [Clients -> UIPC]
    BY OthersKeepThreads
  <1>2. CoreTypes' /\ ConnectionIsNew'
    <2>1. CASE UNCHANGED backlog /\ \A d \in Clients : ui'[d] = "idle" => ui[d] = "idle"
      BY <1>1, <2>1 DEF IInv, CoreTypes, ConnectionIsNew
    <2>2. CASE ui[c] = "idle" /\ ui' = [ui EXCEPT ![c] = "connecting"] /\ backlog' = backlog \cup {c}
      <3>1. \A d \in Clients : ui'[d] = IF d = c THEN "connecting" ELSE ui[d]
        BY <2>2 DEF IInv, CoreTypes
      <3>2. QED
        BY <1>1, <2>2, <3>1 DEF IInv, CoreTypes, ConnectionIsNew
    <2>3. QED
      BY <2>1, <2>2, OthersKeepThreads
  <1>3. SessionIsActive' /\ ThreadsAreKnown'
    BY <1>1 DEF IInv, SessionIsActive, ThreadsAreKnown, ActiveIsAlive, NoThreadIsForgotten,
                InSession, Serving
  <1>4. QED
    BY <1>2, <1>3 DEF IInv

-----------------------------------------------------------------------------
(* The theorems.                                                           *)

THEOREM StepPreserves == IInv /\ [Next]_vars => IInv'
  <1> SUFFICES ASSUME IInv, [Next]_vars
               PROVE  IInv'
    OBVIOUS
  <1>1. CASE ServerStep \/ ServerAcceptFails
    BY <1>1, AcceptPreserves, ReapPreserves, EndPreserves DEF ServerStep
  <1>2. CASE KillReplay
    BY <1>2, CoreUnchanged DEF KillReplay, core, flagVars, socketVars, uiVars
  <1>3. ASSUME NEW c \in Clients,
               ThreadStep(c) \/ Tick(c) \/ ThreadTimeout(c) \/ UIStep(c) \/ Break(c)
        PROVE  IInv'
    BY <1>3, ThreadPreserves, OthersPreserve
  <1>4. CASE UNCHANGED vars
    BY <1>4, CoreUnchanged DEF vars, core, serverVars, flagVars, socketVars, uiVars
  <1>5. QED
    BY <1>1, <1>2, <1>3, <1>4 DEF Next

LEMMA Invariance == Spec => []IInv
  BY InitEstablishes, StepPreserves, PTL DEF Spec

\* For any number of connections the server thread knows every thread that
\* runs, and the active client, whose flag it reads without a lock, has not
\* been deleted.
THEOREM EveryThreadIsKnown == Spec => []ThreadsAreKnown
  <1>1. IInv => ThreadsAreKnown
    BY DEF IInv
  <1>2. QED
    BY <1>1, Invariance, PTL

\* While the server is on, only the active client has a session.
THEOREM NoTwoSessions == Spec => []OneSession
  <1>1. IInv => OneSession
    BY DEF IInv, SessionIsActive, OneSession
  <1>2. QED
    BY <1>1, Invariance, PTL

-----------------------------------------------------------------------------
(* Refinement of SessionService.  A promotion begins a session, the        *)
(* clean-up ends it, reaping gives up the place, and the service stops     *)
(* when the loop ends or accept fails.                                     *)

Working == {c \in Clients : InSession(c)}

serviceVars == <<Serving, active, Working>>

LEMMA ServerRefines ==
    ASSUME IInv, ServerStep \/ ServerAcceptFails
    PROVE  Service!Next \/ UNCHANGED serviceVars
  <1>1. CASE ServerAccept
    <2>1. /\ serverPC = "accept" /\ serverPC' \in {"stop", "reap"} /\ UNCHANGED <<active, thread>>
      BY <1>1 DEF ServerAccept, flagVars
    <2>2. QED
      BY <2>1 DEF serviceVars, Serving, Working, InSession
  <1>2. CASE ServerReap
    <2>1. /\ serverPC = "reap" /\ serverPC' = "accept"
          /\ active' = IF active = Reap.gone THEN NoClient ELSE active
          /\ \/ thread' = thread
             \/ client # NoClient /\ thread' = [thread EXCEPT ![client] = "handshake"]
      BY <1>2 DEF ServerReap, StillActive
    <2>2. client # NoClient => client \in Clients /\ thread[client] = "none"
      BY DEF IInv, CoreTypes, ConnectionIsNew
    <2>3. Reap.gone # NoClient => thread[Reap.gone] = "closed"
      BY ReapProperties DEF IInv, CoreTypes
    <2>4. \A c \in Clients : InSession(c)' <=> InSession(c)
      BY <2>1, <2>2 DEF IInv, CoreTypes, InSession
    <2>5. UNCHANGED <<Serving, Working>>
      BY <2>1, <2>4 DEF Serving, Working
    <2>6. CASE active = Reap.gone /\ active # NoClient
      BY <2>1, <2>3, <2>5, <2>6 DEF Service!Next, Service!GiveUp, Working, InSession
    <2>7. CASE active # Reap.gone \/ active = NoClient
      BY <2>1, <2>5, <2>7 DEF serviceVars
    <2>8. QED
      BY <2>6, <2>7
  <1>3. CASE ServerStop \/ ServerAcceptFails
    <2>1. /\ serverPC \in {"stop", "reap"} /\ serverPC' \in {"join", "failed"}
          /\ active' \in {active, NoClient} /\ UNCHANGED thread
      BY <1>3 DEF ServerStop, ServerAcceptFails, flagVars
    <2>2. Serving /\ Serving' = FALSE /\ UNCHANGED Working
      BY <2>1 DEF Serving, Working, InSession
    <2>3. QED
      BY <2>1, <2>2 DEF Service!Next, Service!Stop, Working
  <1>4. CASE ServerJoin
    <2>1. serverPC = "join" /\ serverPC' = "returned" /\ UNCHANGED <<active, thread>>
      BY <1>4 DEF ServerJoin, flagVars
    <2>2. QED
      BY <2>1 DEF serviceVars, Serving, Working, InSession
  <1>5. QED
    BY <1>1, <1>2, <1>3, <1>4 DEF ServerStep

LEMMA ThreadRefines ==
    ASSUME IInv, NEW c \in Clients, ThreadStep(c)
    PROVE  Service!Next \/ UNCHANGED serviceVars
  <1>1. CASE ThreadHandshake(c) /\ Promoted(c)
    <2>1. /\ thread[c] = "handshake" /\ active = NoClient /\ active' = c
          /\ thread' = [thread EXCEPT ![c] = "read"] /\ UNCHANGED serverPC
      BY <1>1, PromotionStep
    <2>2. \A d \in Clients : InSession(d)' <=> InSession(d) \/ d = c
      BY <2>1 DEF IInv, CoreTypes, InSession
    <2>3. c \notin Working /\ Working' = Working \cup {c} /\ UNCHANGED Serving
      BY <2>1, <2>2 DEF Working, InSession, Serving
    <2>4. Serving => Working = {}
      BY <2>1 DEF IInv, SessionIsActive, Working
    <2>5. Service!Begin(c)
      BY <2>1, <2>3, <2>4 DEF Service!Begin, Working
    <2>6. QED
      BY <2>5 DEF Service!Next
  <1>2. CASE ~(ThreadHandshake(c) /\ Promoted(c))
    <2>1. UNCHANGED <<serverPC, active>>
      BY <1>2, StepsMove
    <2>2. PICK pc \in ThreadPC : MayMove(thread[c], pc) /\ thread' = [thread EXCEPT ![c] = pc]
      BY <1>2, StepsMove DEF Moves
    <2>3. \A d \in Clients : thread'[d] = IF d = c THEN pc ELSE thread[d]
      BY <2>2 DEF IInv, CoreTypes
    <2>4. UNCHANGED Serving
      BY <2>1 DEF Serving
    <2>5. CASE pc = "close"
      <3>1. c \in Working /\ Working' = Working \ {c}
        BY <2>2, <2>3, <2>5 DEF Working, InSession, MayMove, SessionPC
      <3>2. Service!End(c)
        BY <2>1, <2>4, <3>1 DEF Service!End, Working
      <3>3. QED
        BY <3>2 DEF Service!Next
    <2>6. CASE pc # "close"
      <3>1. \A d \in Clients : InSession(d)' <=> InSession(d)
        BY <2>2, <2>3, <2>6 DEF InSession, MayMove, SessionPC
      <3>2. QED
        BY <2>1, <2>4, <3>1 DEF serviceVars, Working
    <2>7. QED
      BY <2>5, <2>6
  <1>3. QED
    BY <1>1, <1>2

LEMMA OthersRefine ==
    ASSUME UNCHANGED <<serverPC, active, thread>>
    PROVE  UNCHANGED serviceVars
  BY DEF serviceVars, Serving, Working, InSession

\* Whatever the threads, the machines that connect and the network do, a
\* connection becomes the active one only when there is none, keeps the place
\* until its session is over, and while the server is on no two sessions overlap.
THEOREM ImplementsSessionService == Spec => ServiceSpec
  <1>1. Init => Service!Init
    BY DEF Init, Service!Init, Serving, InSession
  <1>2. IInv /\ [Next]_vars => [Service!Next]_serviceVars
    <2> SUFFICES ASSUME IInv, [Next]_vars
                 PROVE  Service!Next \/ UNCHANGED serviceVars
      OBVIOUS
    <2>1. CASE ServerStep \/ ServerAcceptFails
      BY <2>1, ServerRefines
    <2>2. CASE KillReplay
      BY <2>2, OthersRefine DEF KillReplay, flagVars
    <2>3. ASSUME NEW c \in Clients, ThreadStep(c)
          PROVE  Service!Next \/ UNCHANGED serviceVars
      BY <2>3, ThreadRefines
    <2>4. ASSUME NEW c \in Clients, Tick(c) \/ ThreadTimeout(c) \/ UIStep(c) \/ Break(c)
          PROVE  UNCHANGED serviceVars
      BY <2>4, OthersKeepThreads, OthersRefine
    <2>5. CASE UNCHANGED vars
      BY <2>5, OthersRefine DEF vars, serverVars, flagVars
    <2>6. QED
      BY <2>1, <2>2, <2>3, <2>4, <2>5 DEF Next
  <1>3. QED
    BY <1>1, <1>2, Invariance, PTL DEF Spec, ServiceSpec, Service!Spec, serviceVars, Working

-----------------------------------------------------------------------------
(* What a session leaves in files and on its socket.                       *)

HIDE ClientsAssumption

Progress == {"LogOpenProgress", "ResolverProgress"}

Chunks ==
    Requests \cup Kinds \cup Progress
        \cup {"VersionMismatch", "Handshake", "Busy", "LogOpened", "LogFailed"}

FlagTypes ==
    /\ kill \in BOOLEAN
    /\ killServer \subseteq killThread /\ killThread \subseteq Clients
    /\ rdc \in [Clients -> {"none", "failed", "open"}]

FileTypes ==
    /\ tempFiles \in [Clients -> SUBSET Paths]
    /\ captureNum \in [Clients -> Nat]
    /\ disk \in [Paths -> Clients \cup {NoClient, AppCapture}]

SocketTypes ==
    /\ link \in [Clients -> {"none", "up", "down"}]
    /\ toServer \in [Clients -> Seq(Chunks)]
    /\ toUI \in [Clients -> Seq(Chunks)]
    /\ asked \in [Clients -> Chunks \cup {"nothing"}]

CopyRequests(requests) == {i \in 1 .. Len(requests) : requests[i] = "Copy"}

\* There are paths for the copies in flight, after the first n.
Fits(n, requests) == n + Cardinality(CopyRequests(requests)) <= MaxCopies

FilesOwned ==
    /\ \A c \in Clients : \A p \in tempFiles[c] : p = AppCapture \/ p < captureNum[c]
    /\ \A c \in Clients : thread[c] \in {"none", "handshake"} => tempFiles[c] = {}
    /\ \A c \in Clients, p \in Paths : disk[p] = c => InSession(c) /\ p \in tempFiles[c]
    /\ \A c \in Clients : thread[c] \in {"close", "closed"} /\ AppCapture \in tempFiles[c] =>
         disk[AppCapture] = NoClient
    /\ CopiesIntact

\* A request takes more than one step of the thread.
Busy(pc) == pc \in {"opening", "opened", "resolving", "resolved", "stuck"}

OnlyProgress(packets) == \A i \in 1 .. Len(packets) : packets[i] \in Progress

\* What is on the way to the caller answers its request: progress of it first.
Answers(request, packets) ==
    \A i \in 1 .. Len(packets) :
        /\ i < Len(packets) => packets[i] \in Progress
        /\ \/ packets[i] = request
           \/ request = "Open" /\ packets[i] \in {"LogOpenProgress", "LogOpened", "LogFailed"}
           \/ request = "InitResolver" /\ packets[i] = "ResolverProgress"

\* On a link that is up a request that has an answer is not yet read, ...
Unread(request, pc, requests, packets) ==
    /\ ~Busy(pc) /\ packets = <<>>
    /\ requests # <<>> /\ requests[Len(requests)] = request
    /\ \A i \in 1 .. Len(requests) : i < Len(requests) => ~Answered(requests[i])

\* ... or it is worked on, ...
Worked(request, pc, requests, packets) ==
    /\ requests = <<>> /\ OnlyProgress(packets)
    /\ \/ request = "Open" /\ pc \in {"opening", "opened"}
       \/ request = "InitResolver" /\ pc \in {"resolving", "resolved", "stuck"}

\* ... or its answer is on the way.
Told(request, pc, requests, packets) ==
    /\ ~Busy(pc) /\ requests = <<>> /\ packets # <<>>
    /\ packets[Len(packets)] \notin Progress

\* The caller, its thread and the socket between them.
Talk(state, request, wire, pc, requests, packets) ==
    /\ Len(packets) <= MaxQueue /\ Len(requests) <= MaxQueue
    /\ pc \in {"none", "handshake"} => packets = <<>> /\ state \in {"idle", "connecting", "closed"}
    /\ state = "idle" => requests = <<>> /\ packets = <<>>
    /\ state = "connecting" /\ pc \notin {"none", "handshake"} =>
         ~Busy(pc) /\ requests = <<>> /\ Len(packets) <= 1
    /\ state = "ready" => packets = <<>>
    /\ state = "ready" /\ wire = "up" =>
         ~Busy(pc) /\ \A i \in 1 .. Len(requests) : ~Answered(requests[i])
    /\ state = "asking" =>
         request \in Requests /\ Answered(request) /\ Answers(request, packets)
    /\ state = "asking" /\ wire = "up" =>
         \/ Unread(request, pc, requests, packets)
         \/ Worked(request, pc, requests, packets)
         \/ Told(request, pc, requests, packets)

TalkOf(c) == Talk(ui[c], asked[c], link[c], thread[c], toServer[c], toUI[c])

\* ... which also says how many copies may come.
Orderly(c) == TalkOf(c) /\ Fits(captureNum[c], toServer[c])

Traffic ==
    /\ IInv /\ FlagTypes /\ FileTypes /\ FilesOwned
    /\ SocketTypes /\ \A c \in Clients : Orderly(c)

-----------------------------------------------------------------------------
(* Copies in flight.                                                       *)

LEMMA CopiesCounted ==
    ASSUME NEW requests \in Seq(Chunks)
    PROVE  /\ IsFiniteSet(CopyRequests(requests))
           /\ Cardinality(CopyRequests(requests)) \in Nat
  <1>1. CopyRequests(requests) \subseteq 1 .. Len(requests)
    BY DEF CopyRequests
  <1>2. IsFiniteSet(1 .. Len(requests))
    BY FS_Interval
  <1>3. IsFiniteSet(CopyRequests(requests))
    BY <1>1, <1>2, FS_Subset
  <1>4. QED
    BY <1>3, FS_CardinalityType

\* A socket is emptied, or opened with a handshake.
LEMMA CopiesLost ==
    ASSUME NEW n \in Nat, NEW requests \in Seq(Chunks), Fits(n, requests),
           NEW m \in {0, n}, NEW later \in Seq(Chunks),
           \A i \in 1 .. Len(later) : later[i] # "Copy"
    PROVE  Fits(m, later)
  <1>1. CopyRequests(later) = {}
    BY DEF CopyRequests
  <1>2. Cardinality(CopyRequests(later)) = 0
    BY <1>1, FS_EmptySet
  <1>3. PICK k \in Nat : k = Cardinality(CopyRequests(requests))
    BY CopiesCounted
  <1>4. QED
    BY <1>2, <1>3, BoundsAssumption DEF Fits

LEMMA AllLost ==
    ASSUME NEW n \in Nat, NEW requests \in Seq(Chunks), Fits(n, requests), NEW m \in {0, n}
    PROVE  Fits(m, <<>>)
  <1>1. <<>> \in Seq(Chunks) /\ \A i \in 1 .. Len(<<>>) : FALSE
    OBVIOUS
  <1>2. QED
    BY <1>1, CopiesLost

\* The server takes a request; a copy takes the next path.
LEMMA CopyTaken ==
    ASSUME NEW n \in Nat, NEW requests \in Seq(Chunks), Fits(n, requests), requests # <<>>
    PROVE  /\ Fits(n, Tail(requests))
           /\ Head(requests) = "Copy" => n < MaxCopies /\ Fits(n + 1, Tail(requests))
  <1> DEFINE S == CopyRequests(Tail(requests))
             T == CopyRequests(requests) \ {1}
             f == [i \in S |-> i + 1]
  <1>1. /\ Len(Tail(requests)) = Len(requests) - 1 /\ Len(requests) \in Nat /\ Len(requests) >= 1
        /\ \A i \in 1 .. Len(requests) - 1 : Tail(requests)[i] = requests[i + 1]
        /\ Head(requests) = requests[1]
    OBVIOUS
  <1>2. \A i \in S : i \in Nat /\ i + 1 \in T
    BY <1>1 DEF CopyRequests
  <1>3. f \in Injection(S, T)
    BY <1>2 DEF Injection, IsInjective
  <1>4. /\ IsFiniteSet(T)
        /\ Cardinality(T) = IF 1 \in CopyRequests(requests)
                              THEN Cardinality(CopyRequests(requests)) - 1
                              ELSE Cardinality(CopyRequests(requests))
    BY CopiesCounted, FS_RemoveElement
  <1>5. Cardinality(S) <= Cardinality(T)
    <2> HIDE DEF f, S, T
    <2>1. QED
      BY <1>3, <1>4, FS_Injection
  <1>6. Head(requests) = "Copy" => 1 \in CopyRequests(requests)
    BY <1>1 DEF CopyRequests
  <1>7. PICK k \in Nat : k = Cardinality(CopyRequests(requests))
    BY CopiesCounted
  <1>8. Tail(requests) \in Seq(Chunks)
    OBVIOUS
  <1>9. PICK l \in Nat : l = Cardinality(S)
    BY <1>8, CopiesCounted
  <1>10. n + k <= MaxCopies
    BY <1>7 DEF Fits
  <1>11. l <= k /\ (Head(requests) = "Copy" => l <= k - 1 /\ k >= 1)
    <2> HIDE DEF S, T
    <2>1. CASE 1 \in CopyRequests(requests)
      <3>1. l <= k - 1
        BY <1>4, <1>5, <1>7, <1>9, <2>1
      <3>2. QED
        BY <3>1, <1>7, <1>9
    <2>2. CASE 1 \notin CopyRequests(requests)
      BY <1>4, <1>5, <1>6, <1>7, <1>9, <2>2
    <2>3. QED
      BY <2>1, <2>2
  <1>12. /\ n + l <= MaxCopies
         /\ Head(requests) = "Copy" => n < MaxCopies /\ (n + 1) + l <= MaxCopies
    BY <1>10, <1>11, BoundsAssumption
  <1>13. QED
    BY <1>9, <1>12 DEF Fits

\* The caller sends one more, and counts a copy before it does.
LEMMA RequestPut ==
    ASSUME NEW n \in Nat, NEW requests \in Seq(Chunks), Fits(n, requests), NEW type \in Chunks,
           type = "Copy" => n + Cardinality(CopyRequests(requests)) < MaxCopies
    PROVE  Fits(n, Append(requests, type))
  <1> DEFINE more == Append(requests, type)
             new == Len(requests) + 1
  <1>1. /\ Len(more) = new /\ Len(requests) \in Nat
        /\ \A i \in 1 .. Len(requests) : more[i] = requests[i]
        /\ more[new] = type /\ more \in Seq(Chunks)
    OBVIOUS
  <1>2. PICK k \in Nat : k = Cardinality(CopyRequests(requests))
    BY CopiesCounted
  <1>3. CASE type = "Copy"
    <2>1. CopyRequests(more) = CopyRequests(requests) \cup {new} /\ new \notin CopyRequests(requests)
      BY <1>1, <1>3 DEF CopyRequests
    <2>2. Cardinality(CopyRequests(more)) = Cardinality(CopyRequests(requests)) + 1
      <3> HIDE DEF more, new
      <3>1. QED
        BY <2>1, CopiesCounted, FS_AddElement
    <2>3. n + (k + 1) <= MaxCopies
      BY <1>2, <1>3, BoundsAssumption
    <2>4. QED
      BY <1>2, <2>2, <2>3 DEF Fits
  <1>4. CASE type # "Copy"
    <2>1. CopyRequests(more) = CopyRequests(requests)
      BY <1>1, <1>4 DEF CopyRequests
    <2>2. QED
      BY <2>1 DEF Fits
  <1>5. QED
    BY <1>3, <1>4

-----------------------------------------------------------------------------
(* What each kind of step does to a conversation.                          *)

Early == {"none", "handshake"}

\* Steps of the thread that neither read nor write.
Silent(from, to) ==
    \/ from = to
    \/ from = "none" /\ to = "handshake"
    \/ {from, to} \cap Early = {} /\ ~Busy(from) /\ ~Busy(to)
    \/ from = "opening" /\ to = "opened"
    \/ from = "resolving" /\ to = "resolved"

Posted(wire, packets, packet) == IF wire = "up" THEN Append(packets, packet) ELSE packets

MayPost(wire, packets) == wire = "up" => Len(packets) < MaxQueue

LEMMA TalkKept ==
    ASSUME NEW state, NEW request, NEW wire, NEW pc, NEW requests, NEW packets,
           Talk(state, request, wire, pc, requests, packets),
           NEW wire2 \in {wire, "down"}, NEW pc2, Silent(pc, pc2)
    PROVE  Talk(state, request, wire2, pc2, requests, packets)
  BY DEF Talk, Silent, Early, Busy, Unread, Worked, Told

\* The socket is deleted, or the connection turned away.
LEMMA TalkCut ==
    ASSUME NEW state, NEW request, NEW wire, NEW pc, NEW requests, NEW packets,
           Talk(state, request, wire, pc, requests, packets),
           NEW pc2, Silent(pc, pc2)
    PROVE  Talk(state, request, "down", pc2, <<>>, packets)
  <1>1. Len(<<>>) = 0 /\ 0 <= MaxQueue
    BY BoundsAssumption
  <1>2. pc2 \in Early => pc \in Early
    BY DEF Silent, Early
  <1>3. Busy(pc2) => Busy(pc)
    BY DEF Silent, Early, Busy
  <1>4. state = "connecting" /\ pc2 \notin Early => pc \notin Early
    BY DEF Silent, Early
  <1>5. QED
    BY <1>1, <1>2, <1>3, <1>4 DEF Talk, Early

\* The handshake is answered with one chunk at most.
LEMMA TalkBegins ==
    ASSUME NEW state, NEW request, NEW wire, NEW requests, NEW packets \in Seq(Chunks),
           Talk(state, request, wire, "handshake", requests, packets), state # "idle",
           NEW reply \in Seq(Chunks), Len(reply) <= 1,
           NEW later, later = IF wire = "up" THEN packets \o reply ELSE packets,
           NEW wire2, NEW pc2 \in {"read", "closed"}
    PROVE  Talk(state, request, wire2, pc2, <<>>, later)
  <1>1. packets = <<>> /\ state \in {"connecting", "closed"}
    BY DEF Talk
  <1>2. Len(later) <= 1
    BY <1>1
  <1>3. Len(later) <= MaxQueue
    BY <1>1, <1>2, BoundsAssumption
  <1>4. QED
    BY <1>1, <1>2, <1>3, BoundsAssumption DEF Talk, Busy

\* A request without an answer is taken.
LEMMA TalkTakes ==
    ASSUME NEW state, NEW request, NEW wire, NEW requests \in Seq(Chunks), NEW packets,
           Talk(state, request, wire, "read", requests, packets),
           requests # <<>>, NEW rest, rest = Tail(requests), ~Answered(Head(requests)),
           NEW pc2 \in {"read", "cleanup"}
    PROVE  Talk(state, request, wire, pc2, rest, packets)
  <1>1. /\ Len(rest) = Len(requests) - 1 /\ Len(requests) \in Nat /\ Len(requests) >= 1
        /\ \A i \in 1 .. Len(rest) : i + 1 \in 1 .. Len(requests) /\ rest[i] = requests[i + 1]
        /\ Head(requests) = requests[1] /\ rest \in Seq(Chunks)
    OBVIOUS
  <1>2. state \notin {"connecting", "idle"}
    BY DEF Talk
  <1>3. CASE state = "asking" /\ wire = "up"
    <2>1. Unread(request, "read", requests, packets) /\ Answered(request)
      BY <1>3 DEF Talk, Worked, Told
    <2>2. Len(requests) # 1
      BY <1>1, <2>1 DEF Unread
    <2>3. rest # <<>> /\ rest[Len(rest)] = request
      <3>1. Len(rest) \in 1 .. Len(rest) /\ Len(rest) + 1 = Len(requests)
        BY <1>1, <2>2
      <3>2. rest[Len(rest)] = requests[Len(requests)]
        BY <1>1, <3>1
      <3>3. requests[Len(requests)] = request
        BY <2>1 DEF Unread
      <3>4. rest # <<>>
        <4>1. Len(<<>>) = 0 /\ 0 \notin 1 .. 0
          OBVIOUS
        <4>2. QED
          BY <3>1, <4>1
      <3>5. QED
        BY <3>2, <3>3, <3>4
    <2>4. \A i \in 1 .. Len(rest) : i < Len(rest) => ~Answered(rest[i])
      BY <1>1, <2>1 DEF Unread
    <2>5. Unread(request, pc2, rest, packets)
      BY <2>1, <2>3, <2>4 DEF Unread, Busy
    <2>6. Len(rest) <= MaxQueue
      BY <1>1, BoundsAssumption DEF Talk
    <2>7. QED
      BY <1>3, <2>5, <2>6 DEF Talk
  <1>4. CASE state = "ready" /\ wire = "up"
    <2>1. \A i \in 1 .. Len(rest) : ~Answered(rest[i])
      BY <1>1, <1>4 DEF Talk
    <2>2. Len(rest) <= MaxQueue
      BY <1>1, BoundsAssumption DEF Talk
    <2>3. QED
      BY <1>4, <2>1, <2>2 DEF Talk, Busy
  <1>5. CASE wire # "up" \/ state \notin {"asking", "ready"}
    <2>1. Len(rest) <= MaxQueue
      BY <1>1, BoundsAssumption DEF Talk
    <2>2. QED
      BY <1>2, <1>5, <2>1 DEF Talk
  <1>6. QED
    BY <1>3, <1>4, <1>5

\* The last request is taken: the one that has an answer.
LEMMA LastRequest ==
    ASSUME NEW state, NEW request, NEW wire, NEW requests \in Seq(Chunks), NEW packets,
           Talk(state, request, wire, "read", requests, packets),
           requests # <<>>, NEW rest, rest = Tail(requests), Answered(Head(requests))
    PROVE  /\ state \notin {"connecting", "idle"}
           /\ state = "ready" => wire # "up"
           /\ state = "asking" /\ wire = "up" =>
                request = Head(requests) /\ rest = <<>> /\ packets = <<>>
           /\ Len(rest) <= MaxQueue
  <1>1. /\ Len(requests) \in Nat /\ Len(requests) >= 1 /\ Head(requests) = requests[1]
        /\ Len(rest) = Len(requests) - 1 /\ rest \in Seq(Chunks)
        /\ Len(requests) = 1 => rest = <<>>
    OBVIOUS
  <1>2. state \notin {"connecting", "idle"}
    BY DEF Talk
  <1>3. ASSUME state = "ready"
        PROVE  wire # "up"
    BY <1>1, <1>3 DEF Talk
  <1>4. ASSUME state = "asking", wire = "up"
        PROVE  request = Head(requests) /\ rest = <<>> /\ packets = <<>>
    <2>1. Unread(request, "read", requests, packets)
      BY <1>4 DEF Talk, Worked, Told
    <2>2. Len(requests) = 1
      BY <1>1, <2>1 DEF Unread
    <2>3. QED
      BY <1>1, <2>1, <2>2 DEF Unread
  <1>5. Len(rest) <= MaxQueue
    BY <1>1, BoundsAssumption DEF Talk
  <1>6. QED
    BY <1>2, <1>3, <1>4, <1>5

\* Taking the first request leaves the rest.
Pops(requests, type, rest) ==
    requests # <<>> /\ type = Head(requests) /\ rest = Tail(requests)

\* A request is answered at once, ...
LEMMA TalkAnswers ==
    ASSUME NEW state, NEW request, NEW wire,
           NEW requests \in Seq(Chunks), NEW packets \in Seq(Chunks),
           Talk(state, request, wire, "read", requests, packets),
           NEW answer, NEW rest, Pops(requests, answer, rest),
           Answered(answer), answer \notin Progress, MayPost(wire, packets),
           NEW more, more = Posted(wire, packets, answer),
           NEW pc2 \in {"read", "cleanup"}
    PROVE  Talk(state, request, wire, pc2, rest, more)
  <1>1. /\ state \notin {"connecting", "idle"}
        /\ state = "ready" => wire # "up"
        /\ state = "asking" /\ wire = "up" => request = answer /\ rest = <<>> /\ packets = <<>>
        /\ Len(rest) <= MaxQueue
    BY LastRequest DEF Pops
  <1>2. Len(more) <= MaxQueue
    BY BoundsAssumption DEF Posted, MayPost, Talk
  <1>3. wire # "up" => more = packets
    BY DEF Posted
  <1>4. state = "asking" /\ wire = "up" => Len(more) = 1 /\ more[1] = answer
    BY <1>1 DEF Posted
  <1>5. CASE state = "asking" /\ wire = "up"
    <2>1. Answers(request, more)
      <3>1. request = answer /\ Len(more) = 1 /\ more[1] = answer
        BY <1>1, <1>4, <1>5
      <3>2. \A i \in 1 .. 1 : i = 1 /\ ~(i < 1)
        OBVIOUS
      <3>3. QED
        BY <3>1, <3>2 DEF Answers
    <2>2. Told(request, pc2, rest, more)
      BY <1>1, <1>4, <1>5 DEF Told, Busy
    <2>3. request \in Requests /\ Answered(request)
      BY <1>5 DEF Talk
    <2>4. QED
      BY <1>1, <1>2, <1>5, <2>1, <2>2, <2>3 DEF Talk
  <1>6. CASE ~(state = "asking" /\ wire = "up")
    BY <1>1, <1>2, <1>3, <1>6 DEF Talk
  <1>7. QED
    BY <1>5, <1>6

\* ... or is lost with the link, ...
LEMMA TalkFails ==
    ASSUME NEW state, NEW request, NEW wire, NEW requests \in Seq(Chunks), NEW packets,
           Talk(state, request, wire, "read", requests, packets),
           requests # <<>>, NEW rest, rest = Tail(requests), Answered(Head(requests)), wire # "up"
    PROVE  Talk(state, request, wire, "cleanup", rest, packets)
  BY LastRequest DEF Talk

\* ... or is worked on, ...
LEMMA TalkWorks ==
    ASSUME NEW state, NEW request, NEW wire, NEW requests \in Seq(Chunks), NEW packets,
           Talk(state, request, wire, "read", requests, packets), requests # <<>>,
           NEW rest, rest = Tail(requests), NEW pc2,
           \/ Head(requests) = "Open" /\ pc2 = "opening"
           \/ Head(requests) = "InitResolver" /\ pc2 \in {"resolving", "resolved", "stuck"}
    PROVE  Talk(state, request, wire, pc2, rest, packets)
  <1>1. Answered(Head(requests))
    BY DEF Answered
  <1>2. /\ state \notin {"connecting", "idle"}
        /\ state = "ready" => wire # "up"
        /\ state = "asking" /\ wire = "up" =>
             request = Head(requests) /\ rest = <<>> /\ packets = <<>>
        /\ Len(rest) <= MaxQueue
    BY <1>1, LastRequest
  <1>3. CASE state = "asking" /\ wire = "up"
    <2>1. Worked(request, pc2, rest, packets)
      BY <1>2, <1>3 DEF Worked, OnlyProgress
    <2>2. QED
      BY <1>2, <1>3, <2>1 DEF Talk
  <1>4. CASE ~(state = "asking" /\ wire = "up")
    BY <1>2, <1>4 DEF Talk
  <1>5. QED
    BY <1>3, <1>4

\* ... with reports of progress ...
LEMMA TalkReports ==
    ASSUME NEW state, NEW request, NEW wire, NEW pc, NEW requests, NEW packets \in Seq(Chunks),
           Talk(state, request, wire, pc, requests, packets), state # "idle", MayPost(wire, packets),
           NEW packet,
           \/ pc = "opening" /\ packet = "LogOpenProgress"
           \/ pc \in {"resolving", "stuck"} /\ packet = "ResolverProgress",
           NEW more, more = Posted(wire, packets, packet)
    PROVE  Talk(state, request, wire, pc, requests, more)
  <1>1. Len(more) <= MaxQueue
    BY BoundsAssumption DEF Posted, MayPost, Talk
  <1>2. wire # "up" => more = packets
    BY DEF Posted
  <1>3. wire = "up" => /\ Len(more) = Len(packets) + 1 /\ Len(packets) \in Nat
                       /\ \A i \in 1 .. Len(packets) : more[i] = packets[i]
                       /\ more[Len(packets) + 1] = packet
    BY DEF Posted
  <1>4. state \notin {"connecting", "idle"} /\ (state = "ready" => wire # "up")
    BY DEF Talk, Busy
  <1>5. CASE state = "asking" /\ wire = "up"
    <2>1. Worked(request, pc, requests, packets)
      BY <1>5 DEF Talk, Unread, Told, Busy
    <2>2. packet \in Progress
      BY DEF Progress
    <2>3. Worked(request, pc, requests, more)
      BY <1>3, <1>5, <2>1, <2>2 DEF Worked, OnlyProgress
    <2>4. ASSUME NEW i \in 1 .. Len(more)
          PROVE  \/ request = "Open" /\ more[i] \in {"LogOpenProgress", "LogOpened", "LogFailed"}
                 \/ request = "InitResolver" /\ more[i] = "ResolverProgress"
      <3>1. CASE i = Len(packets) + 1
        BY <1>3, <1>5, <2>1, <3>1 DEF Worked
      <3>2. CASE i # Len(packets) + 1
        <4>1. i \in 1 .. Len(packets) /\ more[i] = packets[i]
          BY <1>3, <1>5, <3>2
        <4>2. Answers(request, packets) /\ packets[i] \in Progress
          BY <1>5, <2>1, <4>1 DEF Talk, Worked, OnlyProgress
        <4>3. QED
          BY <2>1, <4>1, <4>2 DEF Answers, Worked, Progress
      <3>3. QED
        BY <3>1, <3>2
    <2>5. Answers(request, more)
      BY <2>3, <2>4 DEF Answers, Worked, OnlyProgress
    <2>6. request \in Requests /\ Answered(request)
      BY <1>5 DEF Talk
    <2>7. Len(requests) <= MaxQueue
      BY DEF Talk
    <2>8. QED
      BY <1>1, <1>5, <2>3, <2>5, <2>6, <2>7 DEF Talk
  <1>6. CASE ~(state = "asking" /\ wire = "up")
    BY <1>1, <1>2, <1>4, <1>6 DEF Talk
  <1>7. QED
    BY <1>5, <1>6

\* ... until the result is told.
LEMMA TalkTells ==
    ASSUME NEW state, NEW request, NEW wire, NEW pc, NEW requests, NEW packets \in Seq(Chunks),
           Talk(state, request, wire, pc, requests, packets), state # "idle", MayPost(wire, packets),
           NEW packet,
           \/ pc = "opened" /\ packet \in {"LogOpened", "LogFailed"}
           \/ pc = "resolved" /\ packet = "InitResolver",
           NEW more, more = Posted(wire, packets, packet), NEW pc2 \in {"read", "cleanup"}
    PROVE  Talk(state, request, wire, pc2, requests, more)
  <1>1. Len(more) <= MaxQueue
    BY BoundsAssumption DEF Posted, MayPost, Talk
  <1>2. wire # "up" => more = packets
    BY DEF Posted
  <1>3. wire = "up" => /\ Len(more) = Len(packets) + 1 /\ Len(packets) \in Nat
                       /\ \A i \in 1 .. Len(packets) : more[i] = packets[i]
                       /\ more[Len(packets) + 1] = packet
    BY DEF Posted
  <1>4. state \notin {"connecting", "idle"} /\ (state = "ready" => wire # "up")
    BY DEF Talk, Busy
  <1>5. CASE state = "asking" /\ wire = "up"
    <2>1. Worked(request, pc, requests, packets)
      BY <1>5 DEF Talk, Unread, Told, Busy
    <2>2. more # <<>> /\ more[Len(more)] \notin Progress
      BY <1>3, <1>5 DEF Progress
    <2>3. Told(request, pc2, requests, more)
      BY <2>1, <2>2 DEF Told, Worked, Busy
    <2>4. ASSUME NEW i \in 1 .. Len(more)
          PROVE  /\ i < Len(more) => more[i] \in Progress
                 /\ \/ more[i] = request
                    \/ request = "Open" /\ more[i] \in {"LogOpenProgress", "LogOpened", "LogFailed"}
                    \/ request = "InitResolver" /\ more[i] = "ResolverProgress"
      <3>1. CASE i = Len(packets) + 1
        BY <1>3, <1>5, <2>1, <3>1 DEF Worked
      <3>2. CASE i # Len(packets) + 1
        <4>1. i \in 1 .. Len(packets) /\ more[i] = packets[i]
          BY <1>3, <1>5, <3>2
        <4>2. Answers(request, packets) /\ packets[i] \in Progress
          BY <1>5, <2>1, <4>1 DEF Talk, Worked, OnlyProgress
        <4>3. QED
          BY <2>1, <4>1, <4>2 DEF Answers, Worked, Progress
      <3>3. QED
        BY <3>1, <3>2
    <2>5. Answers(request, more)
      BY <2>4 DEF Answers
    <2>6. request \in Requests /\ Answered(request)
      BY <1>5 DEF Talk
    <2>7. Len(requests) <= MaxQueue
      BY DEF Talk
    <2>8. QED
      BY <1>1, <1>5, <2>3, <2>5, <2>6, <2>7 DEF Talk
  <1>6. CASE ~(state = "asking" /\ wire = "up")
    BY <1>1, <1>2, <1>4, <1>6 DEF Talk, Busy
  <1>7. QED
    BY <1>5, <1>6

\* A machine connects.
LEMMA TalkConnects ==
    ASSUME NEW request, NEW wire, NEW requests, NEW packets,
           Talk("idle", request, wire, "none", requests, packets), NEW kind
    PROVE  Talk("connecting", kind, "up", "none", <<kind>>, packets)
  <1>1. Len(<<kind>>) = 1 /\ 1 <= MaxQueue
    BY BoundsAssumption
  <1>2. QED
    BY <1>1 DEF Talk

\* The object is gone, with what it was sent.
LEMMA TalkEnds ==
    ASSUME NEW state, NEW request, NEW wire, NEW pc, NEW requests, NEW packets,
           Talk(state, request, wire, pc, requests, packets), NEW later
    PROVE  Talk("closed", later, "down", pc, requests, <<>>)
  <1>1. Len(<<>>) = 0 /\ 0 <= MaxQueue
    BY BoundsAssumption
  <1>2. QED
    BY <1>1 DEF Talk

\* The object is made of the answer to the handshake.
LEMMA TalkReady ==
    ASSUME NEW request, NEW wire, NEW pc, NEW requests, NEW packets \in Seq(Chunks),
           Talk("connecting", request, wire, pc, requests, packets), packets # <<>>, NEW later
    PROVE  Talk("ready", later, wire, pc, requests, Tail(packets))
  <1>1. pc \notin Early /\ ~Busy(pc) /\ requests = <<>> /\ Len(packets) <= 1
    BY DEF Talk, Early
  <1>2. Tail(packets) = <<>>
    BY <1>1
  <1>3. Len(<<>>) = 0 /\ 0 <= MaxQueue
    BY BoundsAssumption
  <1>4. QED
    BY <1>1, <1>2, <1>3 DEF Talk, Early

\* A call of the object.
LEMMA TalkAsks ==
    ASSUME NEW request, NEW wire, NEW pc, NEW requests \in Seq(Chunks), NEW packets,
           Talk("ready", request, wire, pc, requests, packets), Len(requests) < MaxQueue,
           NEW type \in Requests, NEW more, more = Posted(wire, requests, type)
    PROVE  /\ Answered(type) => Talk("asking", type, wire, pc, more, packets)
           /\ ~Answered(type) => Talk("ready", request, wire, pc, more, packets)
  <1>1. packets = <<>> /\ pc \notin Early /\ Len(packets) <= MaxQueue
    BY DEF Talk, Early
  <1>2. type \in Chunks
    BY DEF Chunks
  <1>3. Len(more) <= MaxQueue
    BY <1>2, BoundsAssumption DEF Posted
  <1>4. wire = "up" => /\ Len(more) = Len(requests) + 1 /\ Len(requests) \in Nat
                       /\ \A i \in 1 .. Len(requests) : more[i] = requests[i]
                       /\ more[Len(requests) + 1] = type
    BY <1>2 DEF Posted
  <1>5. wire = "up" => ~Busy(pc) /\ \A i \in 1 .. Len(requests) : ~Answered(requests[i])
    BY DEF Talk
  <1>6. ASSUME Answered(type)
        PROVE  Talk("asking", type, wire, pc, more, packets)
    <2>1. Answers(type, packets)
      BY <1>1 DEF Answers
    <2>2. wire = "up" => Unread(type, pc, more, packets)
      <3>1. wire = "up" => more # <<>> /\ more[Len(more)] = type
        BY <1>4
      <3>2. wire = "up" => \A i \in 1 .. Len(more) : i < Len(more) => ~Answered(more[i])
        BY <1>4, <1>5
      <3>3. QED
        BY <1>1, <1>5, <3>1, <3>2 DEF Unread
    <2>3. QED
      BY <1>1, <1>3, <1>6, <2>1, <2>2 DEF Talk, Early
  <1>7. ASSUME ~Answered(type)
        PROVE  Talk("ready", request, wire, pc, more, packets)
    <2>1. wire = "up" => \A i \in 1 .. Len(more) : ~Answered(more[i])
      BY <1>4, <1>5, <1>7
    <2>2. QED
      BY <1>1, <1>3, <1>5, <2>1 DEF Talk, Early
  <1>8. QED
    BY <1>6, <1>7

\* The caller reads: progress, or the answer, which is the last there is.
LEMMA TalkReads ==
    ASSUME NEW request, NEW wire, NEW pc, NEW requests, NEW packets \in Seq(Chunks),
           Talk("asking", request, wire, pc, requests, packets), packets # <<>>,
           NEW rest, rest = Tail(packets), NEW later
    PROVE  /\ Head(packets) \in Progress => Talk("asking", request, wire, pc, requests, rest)
           /\ Head(packets) \notin Progress => Talk("ready", later, wire, pc, requests, rest)
  <1>1. /\ Len(rest) = Len(packets) - 1 /\ Len(packets) \in Nat /\ Len(packets) >= 1
        /\ \A i \in 1 .. Len(rest) : i + 1 \in 1 .. Len(packets) /\ rest[i] = packets[i + 1]
        /\ Head(packets) = packets[1] /\ rest \in Seq(Chunks)
        /\ Len(packets) = 1 => rest = <<>>
    OBVIOUS
  <1>2. /\ request \in Requests /\ Answered(request) /\ Answers(request, packets)
        /\ pc \notin Early /\ Len(packets) <= MaxQueue /\ Len(requests) <= MaxQueue
        /\ wire = "up" => Worked(request, pc, requests, packets) \/ Told(request, pc, requests, packets)
    BY DEF Talk, Early, Unread
  <1>3. Len(rest) <= MaxQueue
    BY <1>1, <1>2, BoundsAssumption
  <1>4. ASSUME Head(packets) \in Progress
        PROVE  Talk("asking", request, wire, pc, requests, rest)
    <2>1. Answers(request, rest)
      BY <1>1, <1>2 DEF Answers
    <2>2. Worked(request, pc, requests, packets) => Worked(request, pc, requests, rest)
      BY <1>1 DEF Worked, OnlyProgress
    <2>3. Told(request, pc, requests, packets) => Told(request, pc, requests, rest)
      <3>1. packets[Len(packets)] \notin Progress => Len(packets) # 1
        BY <1>1, <1>4
      <3>2. ASSUME Len(packets) # 1
            PROVE  rest # <<>> /\ rest[Len(rest)] = packets[Len(packets)]
        <4>1. Len(rest) \in 1 .. Len(rest) /\ Len(rest) + 1 = Len(packets)
          BY <1>1, <3>2
        <4>2. rest[Len(rest)] = packets[Len(rest) + 1]
          BY <1>1, <4>1
        <4>3. Len(<<>>) = 0
          OBVIOUS
        <4>4. Len(rest) # 0
          BY <1>1, <3>2
        <4>5. QED
          BY <4>1, <4>2, <4>3, <4>4
      <3>3. QED
        BY <3>1, <3>2 DEF Told
    <2>4. QED
      BY <1>2, <1>3, <2>1, <2>2, <2>3 DEF Talk, Early
  <1>5. ASSUME Head(packets) \notin Progress
        PROVE  Talk("ready", later, wire, pc, requests, rest)
    <2>1. Len(packets) = 1
      BY <1>1, <1>2, <1>5 DEF Answers
    <2>2. ~Worked(request, pc, requests, packets)
      BY <1>1, <1>5 DEF Worked, OnlyProgress
    <2>3. wire = "up" => requests = <<>> /\ ~Busy(pc)
      BY <1>2, <2>2 DEF Told
    <2>4. QED
      BY <1>1, <1>2, <1>3, <2>1, <2>3 DEF Talk, Early
  <1>6. QED
    BY <1>4, <1>5

-----------------------------------------------------------------------------
(* The conversations go on, whoever moves.                                 *)

\* Nothing happens to the connection of c but the loss of its link.
Still(c) ==
    /\ ui'[c] = ui[c] /\ asked'[c] = asked[c] /\ thread'[c] = thread[c]
    /\ toServer'[c] = toServer[c] /\ toUI'[c] = toUI[c] /\ link'[c] \in {link[c], "down"}
    /\ captureNum'[c] = captureNum[c]

OnlyMine(c) == SocketTypes' /\ \A d \in Clients \ {c} : Still(d)

AllOrderly == SocketTypes' /\ \A c \in Clients : Orderly(c)'

LEMMA StillOrderly ==
    ASSUME Traffic, NEW c \in Clients, Still(c)
    PROVE  Orderly(c)'
  <1>1. TalkOf(c) /\ Fits(captureNum[c], toServer[c])
    BY DEF Traffic, Orderly
  <1>2. Silent(thread[c], thread[c])
    BY DEF Silent
  <1>3. Talk(ui[c], asked[c], link'[c], thread[c], toServer[c], toUI[c])
    BY <1>1, <1>2, TalkKept DEF TalkOf, Still
  <1>4. QED
    BY <1>1, <1>3 DEF Still, Orderly, TalkOf

LEMMA OthersOrderly ==
    ASSUME Traffic, NEW c \in Clients, OnlyMine(c), TalkOf(c)', Fits(captureNum'[c], toServer'[c])
    PROVE  AllOrderly
  BY StillOrderly DEF OnlyMine, AllOrderly, Orderly

LEMMA FieldsTyped ==
    ASSUME Traffic, NEW c \in Clients
    PROVE  /\ link[c] \in {"none", "up", "down"} /\ toServer[c] \in Seq(Chunks)
           /\ toUI[c] \in Seq(Chunks) /\ asked[c] \in Chunks \cup {"nothing"}
           /\ captureNum[c] \in Nat /\ thread[c] \in ThreadPC /\ ui[c] \in UIPC
           /\ TalkOf(c) /\ Fits(captureNum[c], toServer[c])
           /\ Talk(ui[c], asked[c], link[c], thread[c], toServer[c], toUI[c])
  BY DEF Traffic, SocketTypes, FileTypes, IInv, CoreTypes, Orderly, TalkOf

\* What Send does for a chunk the server may send.
LEMMA SendPosts ==
    ASSUME Traffic, NEW c \in Clients, NEW type \in Chunks, Send(c, type)
    PROVE  /\ MayPost(link[c], toUI[c]) /\ toUI'[c] = Posted(link[c], toUI[c], type)
           /\ \A d \in Clients \ {c} : toUI'[d] = toUI[d]
           /\ link' = link /\ toUI' \in [Clients -> Seq(Chunks)]
  <1>1. toUI \in [Clients -> Seq(Chunks)]
    BY DEF Traffic, SocketTypes
  <1>2. QED
    BY <1>1 DEF Send, CanSend, MayPost, Posted

LEMMA ReceiveTakes ==
    ASSUME Traffic, NEW c \in Clients, Receive(c), toServer[c] # <<>>
    PROVE  /\ toServer'[c] = Tail(toServer[c])
           /\ \A d \in Clients \ {c} : toServer'[d] = toServer[d]
           /\ toServer' \in [Clients -> Seq(Chunks)]
  <1>1. toServer \in [Clients -> Seq(Chunks)]
    BY DEF Traffic, SocketTypes
  <1>2. QED
    BY <1>1 DEF Receive

LEMMA PCMoves ==
    ASSUME Traffic, NEW c \in Clients, NEW pc, thread' = [thread EXCEPT ![c] = pc]
    PROVE  thread'[c] = pc /\ \A d \in Clients \ {c} : thread'[d] = thread[d]
  BY DEF Traffic, IInv, CoreTypes

LEMMA LoopMoves ==
    ASSUME Traffic, NEW c \in Clients, Loop(c)
    PROVE  thread'[c] \in {"read", "cleanup"} /\ \A d \in Clients \ {c} : thread'[d] = thread[d]
  BY DEF Traffic, IInv, CoreTypes, Loop

LEMMA ServerTalks ==
    ASSUME Traffic, ServerStep \/ ServerAcceptFails
    PROVE  AllOrderly
  <1>1. ASSUME UNCHANGED <<ui, asked, thread, toServer, toUI, captureNum>>,
               \/ UNCHANGED link
               \/ link' = [c \in Clients |-> IF c \in backlog THEN "down" ELSE link[c]]
        PROVE  AllOrderly
    <2>1. /\ link' \in [Clients -> {"none", "up", "down"}]
          /\ \A c \in Clients : link'[c] \in {link[c], "down"}
      BY <1>1 DEF Traffic, SocketTypes
    <2>2. \A c \in Clients : Still(c)
      BY <1>1, <2>1 DEF Still
    <2>3. SocketTypes'
      BY <1>1, <2>1 DEF Traffic, SocketTypes
    <2>4. QED
      BY <2>2, <2>3, StillOrderly DEF AllOrderly
  <1>2. CASE ServerAccept \/ ServerStop \/ ServerAcceptFails \/ ServerJoin
    BY <1>1, <1>2 DEF ServerAccept, ServerStop, ServerAcceptFails, ServerJoin, flagVars, sessionVars,
                      socketVars, uiVars
  <1>3. CASE ServerReap
    <2>1. UNCHANGED <<ui, asked, captureNum>>
      BY <1>3 DEF ServerReap, sessionVars, uiVars
    <2>2. CASE UNCHANGED <<thread, socketVars>>
      BY <1>1, <2>1, <2>2 DEF socketVars
    <2>3. ASSUME NEW c \in Clients, CloseServerEnd({c}), UNCHANGED thread
          PROVE  AllOrderly
      <3>1. /\ link'[c] = "down" /\ toServer'[c] = <<>> /\ toUI' = toUI
            /\ OnlyMine(c)
        BY <2>1, <2>3 DEF CloseServerEnd, OnlyMine, Still, Traffic, SocketTypes
      <3>2. Silent(thread[c], thread[c])
        BY DEF Silent
      <3>3. TalkOf(c)'
        BY <2>1, <2>3, <3>1, <3>2, FieldsTyped, TalkCut DEF TalkOf
      <3>4. Fits(captureNum'[c], toServer'[c])
        BY <2>1, <3>1, FieldsTyped, AllLost
      <3>5. QED
        BY <3>1, <3>3, <3>4, OthersOrderly
    <2>4. ASSUME NEW c \in Clients, thread[c] = "none",
                 thread' = [thread EXCEPT ![c] = "handshake"], UNCHANGED socketVars
          PROVE  AllOrderly
      <3>1. /\ thread'[c] = "handshake" /\ OnlyMine(c)
            /\ UNCHANGED <<link, toServer, toUI>>
        BY <2>1, <2>4, PCMoves DEF OnlyMine, Still, Traffic, SocketTypes, socketVars
      <3>2. Silent("none", "handshake")
        BY DEF Silent
      <3>3. TalkOf(c)'
        BY <2>1, <2>4, <3>1, <3>2, FieldsTyped, TalkKept DEF TalkOf
      <3>4. Fits(captureNum'[c], toServer'[c])
        BY <2>1, <3>1, FieldsTyped
      <3>5. QED
        BY <3>1, <3>3, <3>4, OthersOrderly
    <2>5. client # NoClient => client \in Clients /\ thread[client] = "none"
      BY DEF Traffic, IInv, CoreTypes, ConnectionIsNew
    <2>6. QED
      BY <1>3, <2>2, <2>3, <2>4, <2>5 DEF ServerReap
  <1>4. QED
    BY <1>2, <1>3 DEF ServerStep

LEMMA ReplyIsShort ==
    ASSUME NEW c \in Clients
    PROVE  Reply(c) \in Seq(Chunks) /\ Len(Reply(c)) <= 1
  <1>1. /\ <<>> \in Seq(Chunks) /\ <<"VersionMismatch">> \in Seq(Chunks)
        /\ <<"Handshake">> \in Seq(Chunks) /\ <<"Busy">> \in Seq(Chunks)
    BY DEF Chunks
  <1>2. QED
    BY <1>1 DEF Reply

\* A request is taken by the thread.
Taken(c, type) ==
    /\ thread[c] = "read" /\ toServer[c] # <<>> /\ Head(toServer[c]) = type
    /\ toServer'[c] = Tail(toServer[c]) /\ toServer' \in [Clients -> Seq(Chunks)]
    /\ \A d \in Clients \ {c} : toServer'[d] = toServer[d]

LEMMA PacketTaken ==
    ASSUME Traffic, NEW c \in Clients, NEW type, Packet(c, type), Receive(c)
    PROVE  Taken(c, type) /\ type \in Chunks
  <1>1. toServer[c] # <<>> /\ thread[c] = "read" /\ Head(toServer[c]) = type
    BY DEF Packet
  <1>2. Head(toServer[c]) \in Chunks
    BY <1>1, FieldsTyped
  <1>3. QED
    BY <1>1, <1>2, ReceiveTakes DEF Taken

LEMMA AnswersTalk ==
    ASSUME Traffic, NEW c \in Clients,
           ThreadQuery(c) \/ ThreadShutdown(c) \/ (ThreadCopy(c) /\ Loop(c) /\ Send(c, "Copy"))
    PROVE  AllOrderly
  <1>1. PICK type \in {"Query", "Copy", "Shutdown"} :
          /\ Packet(c, type) /\ Receive(c) /\ Send(c, type)
          /\ Loop(c) \/ thread' = [thread EXCEPT ![c] = "cleanup"]
          /\ captureNum' = IF type = "Copy" THEN [captureNum EXCEPT ![c] = @ + 1] ELSE captureNum
          /\ UNCHANGED <<ui, asked>>
    BY DEF ThreadQuery, ThreadShutdown, ThreadCopy, sessionVars, uiVars
  <1>2. Taken(c, type) /\ type \in Chunks
    BY <1>1, PacketTaken
  <1>3. /\ MayPost(link[c], toUI[c]) /\ toUI'[c] = Posted(link[c], toUI[c], type)
        /\ \A d \in Clients \ {c} : toUI'[d] = toUI[d]
        /\ link' = link /\ toUI' \in [Clients -> Seq(Chunks)]
    BY <1>1, <1>2, SendPosts
  <1>4. thread'[c] \in {"read", "cleanup"} /\ \A d \in Clients \ {c} : thread'[d] = thread[d]
    BY <1>1, LoopMoves, PCMoves
  <1>5. /\ captureNum'[c] = IF type = "Copy" THEN captureNum[c] + 1 ELSE captureNum[c]
        /\ \A d \in Clients \ {c} : captureNum'[d] = captureNum[d]
    BY <1>1 DEF Traffic, FileTypes
  <1>6. OnlyMine(c)
    BY <1>1, <1>2, <1>3, <1>4, <1>5 DEF OnlyMine, Still, Taken, Traffic, SocketTypes
  <1>7. TalkOf(c)'
    <2>1. Answered(type) /\ type \notin Progress
      BY DEF Answered, Progress
    <2>2. /\ Talk(ui[c], asked[c], link[c], "read", toServer[c], toUI[c])
          /\ toServer[c] \in Seq(Chunks) /\ toUI[c] \in Seq(Chunks)
          /\ toServer[c] # <<>> /\ type = Head(toServer[c]) /\ toServer'[c] = Tail(toServer[c])
      BY <1>2, FieldsTyped DEF Taken
    <2>3. ASSUME NEW requests, requests = toServer[c], NEW packets, packets = toUI[c],
                 NEW rest, rest = Tail(requests), NEW more, more = Posted(link[c], packets, type),
                 NEW pc2 \in {"read", "cleanup"}
          PROVE  Talk(ui[c], asked[c], link[c], pc2, rest, more)
      <3>1. /\ Talk(ui[c], asked[c], link[c], "read", requests, packets)
            /\ requests \in Seq(Chunks) /\ packets \in Seq(Chunks)
            /\ Pops(requests, type, rest)
        BY <2>2, <2>3 DEF Pops
      <3>2. Answered(type) /\ type \notin Progress /\ MayPost(link[c], packets)
        BY <1>3, <2>1, <2>3
      <3>3. QED
        BY <2>3, <3>1, <3>2, TalkAnswers, Zenon
    <2>4. Talk(ui[c], asked[c], link[c], thread'[c], toServer'[c], toUI'[c])
      BY <1>3, <1>4, <2>2, <2>3
    <2>5. QED
      BY <1>1, <1>3, <2>4 DEF TalkOf
  <1>8. Fits(captureNum'[c], toServer'[c])
    BY <1>2, <1>5, FieldsTyped, CopyTaken DEF Taken
  <1>9. QED
    BY <1>6, <1>7, <1>8, OthersOrderly

\* The rest of what a session does between its requests and its answers.
LEMMA RequestsTalk ==
    ASSUME Traffic, NEW c \in Clients,
           \/ ThreadCopy(c) /\ link[c] = "down" /\ thread' = [thread EXCEPT ![c] = "cleanup"]
                /\ UNCHANGED toUI /\ UNCHANGED link
           \/ ThreadTakeOwnership(c) \/ ThreadClose(c)
           \/ ThreadOpen(c) \/ ThreadInitResolver(c)
    PROVE  AllOrderly
  <1>1. PICK type \in {"Copy", "TakeOwnership", "Close", "Open", "InitResolver"} :
          /\ Packet(c, type) /\ Receive(c)
          /\ captureNum' = IF type = "Copy" THEN [captureNum EXCEPT ![c] = @ + 1] ELSE captureNum
          /\ type = "Copy" => link[c] = "down" /\ thread' = [thread EXCEPT ![c] = "cleanup"]
          /\ type \in {"TakeOwnership", "Close"} => Loop(c)
          /\ type = "Open" => thread' = [thread EXCEPT ![c] = "opening"]
          /\ type = "InitResolver" =>
               \E pc \in {"resolved", "resolving", "stuck"} : thread' = [thread EXCEPT ![c] = pc]
          /\ UNCHANGED <<link, toUI, ui, asked>>
    <2>1. CASE ThreadCopy(c) /\ link[c] = "down" /\ thread' = [thread EXCEPT ![c] = "cleanup"]
                /\ UNCHANGED toUI /\ UNCHANGED link
      BY <2>1 DEF ThreadCopy, uiVars
    <2>2. CASE ThreadTakeOwnership(c)
      BY <2>2 DEF ThreadTakeOwnership, uiVars
    <2>3. CASE ThreadClose(c)
      BY <2>3 DEF ThreadClose, uiVars
    <2>4. CASE ThreadOpen(c)
      BY <2>4 DEF ThreadOpen, uiVars
    <2>5. CASE ThreadInitResolver(c)
      BY <2>5 DEF ThreadInitResolver, sessionVars, uiVars
    <2>6. QED
      BY <2>1, <2>2, <2>3, <2>4, <2>5
  <1>2. Taken(c, type)
    BY <1>1, PacketTaken
  <1>3. \A d \in Clients \ {c} : thread'[d] = thread[d]
    BY <1>1, LoopMoves, PCMoves
  <1>4. /\ captureNum'[c] = IF type = "Copy" THEN captureNum[c] + 1 ELSE captureNum[c]
        /\ \A d \in Clients \ {c} : captureNum'[d] = captureNum[d]
    BY <1>1 DEF Traffic, FileTypes
  <1>5. OnlyMine(c)
    BY <1>1, <1>2, <1>3, <1>4 DEF OnlyMine, Still, Taken, Traffic, SocketTypes
  <1>6. Talk(ui[c], asked[c], link[c], thread'[c], toServer'[c], toUI[c])
    <2>1. CASE type = "Copy"
      <3>1. Answered("Copy") /\ thread'[c] = "cleanup" /\ link[c] # "up"
        BY <1>1, <2>1, PCMoves DEF Answered
      <3>2. QED
        BY <1>2, <2>1, <3>1, FieldsTyped, TalkFails DEF Taken
    <2>2. CASE type \in {"TakeOwnership", "Close"}
      <3>1. ~Answered(type) /\ thread'[c] \in {"read", "cleanup"}
        BY <1>1, <2>2, LoopMoves DEF Answered
      <3>2. QED
        BY <1>2, <2>2, <3>1, FieldsTyped, TalkTakes DEF Taken
    <2>3. CASE type \in {"Open", "InitResolver"}
      <3>1. \/ type = "Open" /\ thread'[c] = "opening"
            \/ type = "InitResolver" /\ thread'[c] \in {"resolving", "resolved", "stuck"}
        BY <1>1, <2>3, PCMoves
      <3>2. QED
        BY <1>2, <2>3, <3>1, FieldsTyped, TalkWorks DEF Taken
    <2>4. QED
      BY <2>1, <2>2, <2>3
  <1>7. TalkOf(c)'
    BY <1>1, <1>6 DEF TalkOf
  <1>8. Fits(captureNum'[c], toServer'[c])
    BY <1>2, <1>4, FieldsTyped, CopyTaken DEF Taken
  <1>9. QED
    BY <1>5, <1>7, <1>8, OthersOrderly

LEMMA WorkTalks ==
    ASSUME Traffic, NEW c \in Clients, ThreadTellOpened(c) \/ ThreadTellResolved(c) \/ Tick(c)
    PROVE  AllOrderly
  <1>1. thread[c] # "none" /\ ui[c] # "idle"
    BY DEF ThreadTellOpened, ThreadTellResolved, Tick, Traffic, IInv, ConnectionIsNew
  <1>2. UNCHANGED <<ui, asked, toServer, captureNum>>
    BY DEF ThreadTellOpened, ThreadTellResolved, Tick, sessionVars, uiVars
  <1>3. PICK type \in {"LogOpened", "LogFailed", "InitResolver", "LogOpenProgress", "ResolverProgress"} :
          /\ Send(c, type)
          /\ \/ /\ \/ thread[c] = "opened" /\ type \in {"LogOpened", "LogFailed"}
                   \/ thread[c] = "resolved" /\ type = "InitResolver"
                /\ Loop(c)
             \/ /\ \/ thread[c] = "opening" /\ type = "LogOpenProgress"
                   \/ thread[c] \in {"resolving", "stuck"} /\ type = "ResolverProgress"
                /\ UNCHANGED thread
    BY DEF ThreadTellOpened, ThreadTellResolved, Tick
  <1>4. type \in Chunks
    BY DEF Chunks, Progress, Requests
  <1>5. /\ MayPost(link[c], toUI[c]) /\ toUI'[c] = Posted(link[c], toUI[c], type)
        /\ \A d \in Clients \ {c} : toUI'[d] = toUI[d]
        /\ link' = link /\ toUI' \in [Clients -> Seq(Chunks)]
    BY <1>3, <1>4, SendPosts
  <1>6. \A d \in Clients \ {c} : thread'[d] = thread[d]
    BY <1>3, LoopMoves
  <1>7. OnlyMine(c)
    BY <1>2, <1>5, <1>6 DEF OnlyMine, Still, Traffic, SocketTypes
  <1>8. Talk(ui[c], asked[c], link[c], thread'[c], toServer[c], toUI'[c])
    <2>1. CASE UNCHANGED thread
      <3>1. \/ thread[c] = "opening" /\ type = "LogOpenProgress"
            \/ thread[c] \in {"resolving", "stuck"} /\ type = "ResolverProgress"
            \/ thread[c] \in {"opened", "resolved"} /\ Loop(c)
        BY <1>3
      <3>2. ~(thread[c] \in {"opened", "resolved"} /\ Loop(c))
        BY <2>1, LoopMoves
      <3>3. QED
        BY <1>1, <1>5, <2>1, <3>1, <3>2, FieldsTyped, TalkReports
    <2>2. CASE thread' # thread
      <3>1. /\ thread'[c] \in {"read", "cleanup"}
            /\ \/ thread[c] = "opened" /\ type \in {"LogOpened", "LogFailed"}
               \/ thread[c] = "resolved" /\ type = "InitResolver"
        BY <1>3, <2>2, LoopMoves
      <3>2. QED
        BY <1>1, <1>5, <3>1, FieldsTyped, TalkTells
    <2>3. QED
      BY <2>1, <2>2
  <1>9. TalkOf(c)'
    BY <1>2, <1>5, <1>8 DEF TalkOf
  <1>10. Fits(captureNum'[c], toServer'[c])
    BY <1>2, FieldsTyped
  <1>11. QED
    BY <1>7, <1>9, <1>10, OthersOrderly

LEMMA ThreadTalks ==
    ASSUME Traffic, NEW c \in Clients, ThreadStep(c) \/ ThreadTimeout(c)
    PROVE  AllOrderly
  <1>1. CASE ThreadHandshake(c)
    <2>1. /\ thread[c] = "handshake" /\ UNCHANGED <<ui, asked, captureNum>>
          /\ toServer' = [toServer EXCEPT ![c] = <<>>]
          /\ toUI' = IF link[c] = "up" THEN [toUI EXCEPT ![c] = @ \o Reply(c)] ELSE toUI
          /\ link' = link \/ link' = [link EXCEPT ![c] = "down"]
          /\ \E pc \in {"read", "closed"} : thread' = [thread EXCEPT ![c] = pc]
      BY <1>1 DEF ThreadHandshake, sessionVars, uiVars
    <2>2. ui[c] # "idle" /\ Reply(c) \in Seq(Chunks) /\ Len(Reply(c)) <= 1
      BY <2>1, ReplyIsShort DEF Traffic, IInv, ConnectionIsNew
    <2>3. /\ toServer'[c] = <<>> /\ toServer' \in [Clients -> Seq(Chunks)]
          /\ \A d \in Clients \ {c} : toServer'[d] = toServer[d]
      BY <2>1 DEF Traffic, SocketTypes
    <2>4. /\ toUI'[c] = IF link[c] = "up" THEN toUI[c] \o Reply(c) ELSE toUI[c]
          /\ toUI' \in [Clients -> Seq(Chunks)]
          /\ \A d \in Clients \ {c} : toUI'[d] = toUI[d]
      BY <2>1, <2>2 DEF Traffic, SocketTypes
    <2>5. /\ thread'[c] \in {"read", "closed"}
          /\ \A d \in Clients \ {c} : thread'[d] = thread[d]
      BY <2>1, PCMoves
    <2>6. link' \in [Clients -> {"none", "up", "down"}] /\ \A d \in Clients \ {c} : link'[d] = link[d]
      BY <2>1 DEF Traffic, SocketTypes
    <2>7. OnlyMine(c)
      BY <2>1, <2>3, <2>4, <2>5, <2>6 DEF OnlyMine, Still, Traffic, SocketTypes
    <2>8. Talk(ui[c], asked[c], link'[c], thread'[c], <<>>, toUI'[c])
      <3>1. /\ Talk(ui[c], asked[c], link[c], "handshake", toServer[c], toUI[c])
            /\ toUI[c] \in Seq(Chunks)
        BY <2>1, FieldsTyped
      <3>2. QED
        BY <2>2, <2>4, <2>5, <3>1, TalkBegins
    <2>9. TalkOf(c)'
      BY <2>1, <2>3, <2>8 DEF TalkOf
    <2>10. Fits(captureNum'[c], toServer'[c])
      BY <2>1, <2>3, FieldsTyped, AllLost
    <2>11. QED
      BY <2>7, <2>9, <2>10, OthersOrderly
  <1>2. CASE ThreadCopy(c)
    BY <1>2, AnswersTalk, RequestsTalk DEF ThreadCopy
  <1>3. CASE ThreadQuery(c) \/ ThreadShutdown(c)
    BY <1>3, AnswersTalk
  <1>4. CASE ThreadTakeOwnership(c) \/ ThreadClose(c) \/ ThreadOpen(c) \/ ThreadInitResolver(c)
    BY <1>4, RequestsTalk
  <1>5. CASE ThreadTellOpened(c) \/ ThreadTellResolved(c)
    BY <1>5, WorkTalks
  <1>6. CASE ThreadOpened(c) \/ ThreadResolved(c) \/ ThreadReadFails(c) \/ ThreadCleanup(c)
    <2>1. UNCHANGED <<ui, asked, captureNum, link, toServer, toUI>>
      BY <1>6 DEF ThreadOpened, ThreadResolved, ThreadReadFails, ThreadCleanup, sessionVars,
                  socketVars, uiVars
    <2>2. Silent(thread[c], thread'[c]) /\ \A d \in Clients \ {c} : thread'[d] = thread[d]
      BY <1>6, PCMoves DEF ThreadOpened, ThreadResolved, ThreadReadFails, ThreadCleanup, Silent,
                           Early, Busy
    <2>3. OnlyMine(c)
      BY <2>1, <2>2 DEF OnlyMine, Still, Traffic, SocketTypes
    <2>4. TalkOf(c)'
      BY <2>1, <2>2, FieldsTyped, TalkKept DEF TalkOf
    <2>5. QED
      BY <2>1, <2>3, <2>4, FieldsTyped, OthersOrderly
  <1>7. CASE ThreadCloses(c) \/ ThreadTimeout(c)
    <2>1. UNCHANGED <<ui, asked, toUI>> /\ CloseServerEnd({c})
      BY <1>7 DEF ThreadCloses, ThreadTimeout, CloseServerEnd, uiVars
    <2>2. Silent(thread[c], thread'[c]) /\ \A d \in Clients \ {c} : thread'[d] = thread[d]
      <3>1. CASE ThreadCloses(c)
        BY <3>1, PCMoves DEF ThreadCloses, Silent, Early, Busy
      <3>2. CASE ThreadTimeout(c)
        BY <3>2 DEF ThreadTimeout, Silent
      <3>3. QED
        BY <1>7, <3>1, <3>2
    <2>3. /\ captureNum'[c] \in {0, captureNum[c]}
          /\ \A d \in Clients \ {c} : captureNum'[d] = captureNum[d]
      BY <1>7 DEF ThreadCloses, ThreadTimeout, sessionVars, Traffic, FileTypes
    <2>4. /\ link'[c] = "down" /\ toServer'[c] = <<>>
          /\ OnlyMine(c)
      BY <2>1, <2>2, <2>3 DEF CloseServerEnd, OnlyMine, Still, Traffic, SocketTypes
    <2>5. TalkOf(c)'
      BY <2>1, <2>2, <2>4, FieldsTyped, TalkCut DEF TalkOf
    <2>6. Fits(captureNum'[c], toServer'[c])
      BY <2>3, <2>4, FieldsTyped, AllLost
    <2>7. QED
      BY <2>4, <2>5, <2>6, OthersOrderly
  <1>8. QED
    BY <1>1, <1>2, <1>3, <1>4, <1>5, <1>6, <1>7 DEF ThreadStep

LEMMA ConnectTalks ==
    ASSUME Traffic, NEW c \in Clients, NEW kind \in Kinds, UIConnect(c, kind)
    PROVE  AllOrderly
  <1>1. /\ ui[c] = "idle" /\ thread[c] = "none"
        /\ UNCHANGED <<thread, captureNum, toUI>>
    BY DEF UIConnect, remoteVars, sessionVars, Traffic, IInv, ConnectionIsNew
  <1>2. /\ ui' = [ui EXCEPT ![c] = "connecting"] /\ link' = [link EXCEPT ![c] = "up"]
        /\ toServer' = [toServer EXCEPT ![c] = <<kind>>] /\ asked' = [asked EXCEPT ![c] = kind]
    BY DEF UIConnect
  <1>3. kind \in Chunks /\ <<kind>> \in Seq(Chunks) /\ kind # "Copy"
    BY KindsAssumption DEF Chunks
  <1>4. /\ ui'[c] = "connecting" /\ link'[c] = "up" /\ toServer'[c] = <<kind>> /\ asked'[c] = kind
        /\ OnlyMine(c)
    BY <1>1, <1>2, <1>3 DEF OnlyMine, Still, Traffic, SocketTypes, IInv, CoreTypes
  <1>5. Talk("connecting", kind, "up", "none", <<kind>>, toUI[c])
    BY <1>1, FieldsTyped, TalkConnects
  <1>6. TalkOf(c)'
    BY <1>1, <1>4, <1>5 DEF TalkOf
  <1>7. Fits(captureNum'[c], toServer'[c])
    <2>1. \A i \in 1 .. Len(<<kind>>) : <<kind>>[i] # "Copy"
      BY <1>3
    <2>2. QED
      BY <1>1, <1>3, <1>4, <2>1, FieldsTyped, CopiesLost
  <1>8. QED
    BY <1>4, <1>6, <1>7, OthersOrderly

LEMMA ClosedTalks ==
    ASSUME Traffic, NEW c \in Clients, Closed(c), UNCHANGED <<thread, captureNum>>
    PROVE  AllOrderly
  <1>1. /\ ui' = [ui EXCEPT ![c] = "closed"] /\ link' = [link EXCEPT ![c] = "down"]
        /\ toUI' = [toUI EXCEPT ![c] = <<>>] /\ asked' = [asked EXCEPT ![c] = "nothing"]
        /\ UNCHANGED toServer
    BY DEF Closed, CloseUIEnd
  <1>2. <<>> \in Seq(Chunks)
    OBVIOUS
  <1>3. /\ ui'[c] = "closed" /\ link'[c] = "down" /\ toUI'[c] = <<>> /\ asked'[c] = "nothing"
        /\ OnlyMine(c)
    BY <1>1, <1>2 DEF OnlyMine, Still, Traffic, SocketTypes, IInv, CoreTypes
  <1>4. Talk("closed", "nothing", "down", thread[c], toServer[c], <<>>)
    BY FieldsTyped, TalkEnds
  <1>5. TalkOf(c)'
    BY <1>1, <1>3, <1>4 DEF TalkOf
  <1>6. QED
    BY <1>1, <1>3, <1>5, FieldsTyped, OthersOrderly

LEMMA RequestTalks ==
    ASSUME Traffic, NEW c \in Clients, NEW type \in Requests, UIRequest(c, type)
    PROVE  AllOrderly
  <1>1. /\ ui[c] = "ready" /\ Len(toServer[c]) < MaxQueue
        /\ UNCHANGED <<thread, captureNum, toUI, link>>
        /\ type = "Copy" => captureNum[c] + Cardinality(CopiesAsked(c)) < MaxCopies
    BY DEF UIRequest, remoteVars, sessionVars
  <1>2. toServer' = IF link[c] = "up" THEN [toServer EXCEPT ![c] = Append(@, type)] ELSE toServer
    BY DEF UIRequest
  <1>3. type \in Chunks
    BY DEF Chunks
  <1>4. /\ toServer'[c] = Posted(link[c], toServer[c], type)
        /\ toServer' \in [Clients -> Seq(Chunks)]
        /\ \A d \in Clients \ {c} : toServer'[d] = toServer[d]
    BY <1>2, <1>3 DEF Posted, Traffic, SocketTypes
  <1>5. \/ /\ Answered(type)
           /\ ui' = [ui EXCEPT ![c] = "asking"] /\ asked' = [asked EXCEPT ![c] = type]
        \/ ~Answered(type) /\ UNCHANGED <<ui, asked>>
    BY DEF UIRequest
  <1>6. /\ Answered(type) => ui'[c] = "asking" /\ asked'[c] = type
        /\ ~Answered(type) => ui'[c] = "ready" /\ asked'[c] = asked[c]
        /\ asked' \in [Clients -> Chunks \cup {"nothing"}]
        /\ \A d \in Clients \ {c} : ui'[d] = ui[d] /\ asked'[d] = asked[d]
    BY <1>1, <1>3, <1>5 DEF Traffic, SocketTypes, IInv, CoreTypes
  <1>7. OnlyMine(c)
    BY <1>1, <1>4, <1>6 DEF OnlyMine, Still, Traffic, SocketTypes
  <1>8. Talk(ui'[c], asked'[c], link[c], thread[c], toServer'[c], toUI[c])
    <2>1. Talk("ready", asked[c], link[c], thread[c], toServer[c], toUI[c])
      BY <1>1, FieldsTyped
    <2>2. toServer[c] \in Seq(Chunks)
      BY FieldsTyped
    <2>3. /\ Answered(type) => Talk("asking", type, link[c], thread[c], toServer'[c], toUI[c])
          /\ ~Answered(type) => Talk("ready", asked[c], link[c], thread[c], toServer'[c], toUI[c])
      BY <1>1, <1>4, <2>1, <2>2, TalkAsks
    <2>4. QED
      BY <1>6, <2>3
  <1>9. TalkOf(c)'
    BY <1>1, <1>8 DEF TalkOf
  <1>10. Fits(captureNum'[c], toServer'[c])
    <2>1. CASE link[c] = "up"
      <3>1. toServer'[c] = Append(toServer[c], type)
        BY <1>4, <2>1 DEF Posted
      <3>2. type = "Copy" => captureNum[c] + Cardinality(CopyRequests(toServer[c])) < MaxCopies
        BY <1>1 DEF CopiesAsked, CopyRequests, Indices
      <3>3. QED
        BY <1>1, <1>3, <3>1, <3>2, FieldsTyped, RequestPut
    <2>2. CASE link[c] # "up"
      BY <1>1, <1>4, <2>2, FieldsTyped DEF Posted
    <2>3. QED
      BY <2>1, <2>2
  <1>11. QED
    BY <1>7, <1>9, <1>10, OthersOrderly

LEMMA ReadsTalk ==
    ASSUME Traffic, NEW c \in Clients, UIHandshake(c) \/ UIReceive(c)
    PROVE  AllOrderly
  <1>1. UNCHANGED <<thread, captureNum>> /\ toUI[c] # <<>>
    BY DEF UIHandshake, UIReceive, remoteVars, sessionVars
  <1>2. ASSUME NEW state \in UIPC, NEW request \in Chunks \cup {"nothing"},
               Talk(state, request, link[c], thread[c], toServer[c], Tail(toUI[c])),
               toUI' = [toUI EXCEPT ![c] = Tail(@)], UNCHANGED <<link, toServer>>,
               \/ ui' = [ui EXCEPT ![c] = state] /\ asked' = [asked EXCEPT ![c] = request]
               \/ UNCHANGED <<ui, asked>> /\ state = ui[c] /\ request = asked[c]
        PROVE  AllOrderly
    <2>1. /\ toUI'[c] = Tail(toUI[c]) /\ toUI' \in [Clients -> Seq(Chunks)]
          /\ \A d \in Clients \ {c} : toUI'[d] = toUI[d]
      BY <1>1, <1>2 DEF Traffic, SocketTypes
    <2>2. /\ ui'[c] = state /\ asked'[c] = request
          /\ asked' \in [Clients -> Chunks \cup {"nothing"}]
          /\ \A d \in Clients \ {c} : ui'[d] = ui[d] /\ asked'[d] = asked[d]
      BY <1>2 DEF Traffic, SocketTypes, IInv, CoreTypes
    <2>3. OnlyMine(c)
      BY <1>1, <1>2, <2>1, <2>2 DEF OnlyMine, Still, Traffic, SocketTypes
    <2>4. TalkOf(c)'
      BY <1>1, <1>2, <2>1, <2>2 DEF TalkOf
    <2>5. QED
      BY <1>1, <1>2, <2>3, <2>4, FieldsTyped, OthersOrderly
  <1>3. CASE Closed(c)
    BY <1>1, <1>3, ClosedTalks
  <1>4. CASE UIHandshake(c) /\ ~Closed(c)
    <2>1. /\ ui[c] = "connecting" /\ ui' = [ui EXCEPT ![c] = "ready"]
          /\ asked' = [asked EXCEPT ![c] = "nothing"]
          /\ toUI' = [toUI EXCEPT ![c] = Tail(@)] /\ UNCHANGED <<link, toServer>>
      BY <1>4 DEF UIHandshake
    <2>2. /\ Talk("connecting", asked[c], link[c], thread[c], toServer[c], toUI[c])
          /\ toUI[c] \in Seq(Chunks)
      BY <2>1, FieldsTyped
    <2>3. Talk("ready", "nothing", link[c], thread[c], toServer[c], Tail(toUI[c]))
      BY <1>1, <2>2, TalkReady
    <2>4. "ready" \in UIPC /\ "nothing" \in Chunks \cup {"nothing"}
      BY DEF UIPC
    <2>5. QED
      BY <1>2, <2>1, <2>3, <2>4
  <1>5. CASE UIReceive(c) /\ ~Closed(c)
    <2>1. /\ ui[c] = "asking" /\ toUI' = [toUI EXCEPT ![c] = Tail(@)] /\ UNCHANGED <<link, toServer>>
          /\ \/ Head(toUI[c]) \in Progress /\ UNCHANGED <<ui, asked>>
             \/ /\ Head(toUI[c]) \notin Progress
                /\ ui' = [ui EXCEPT ![c] = "ready"] /\ asked' = [asked EXCEPT ![c] = "nothing"]
      BY <1>5 DEF UIReceive, Progress
    <2>2. /\ Talk("asking", asked[c], link[c], thread[c], toServer[c], toUI[c])
          /\ toUI[c] \in Seq(Chunks) /\ asked[c] \in Chunks \cup {"nothing"}
      BY <2>1, FieldsTyped
    <2>3. CASE Head(toUI[c]) \in Progress
      <3>1. Talk("asking", asked[c], link[c], thread[c], toServer[c], Tail(toUI[c]))
        BY <1>1, <2>2, <2>3, TalkReads
      <3>2. "asking" \in UIPC
        BY DEF UIPC
      <3>3. QED
        BY <1>2, <2>1, <2>2, <2>3, <3>1, <3>2
    <2>4. CASE Head(toUI[c]) \notin Progress
      <3>1. Talk("ready", "nothing", link[c], thread[c], toServer[c], Tail(toUI[c]))
        BY <1>1, <2>2, <2>4, TalkReads
      <3>2. "ready" \in UIPC /\ "nothing" \in Chunks \cup {"nothing"}
        BY DEF UIPC
      <3>3. QED
        BY <1>2, <2>1, <2>4, <3>1, <3>2
    <2>5. QED
      BY <2>3, <2>4
  <1>6. QED
    BY <1>3, <1>4, <1>5

\* Every step leaves every conversation in order.
LEMMA StepTalks ==
    ASSUME Traffic, [Next]_vars
    PROVE  AllOrderly
  <1>1. ASSUME UNCHANGED <<ui, asked, thread, toServer, toUI, captureNum>>,
               \/ UNCHANGED link
               \/ \E c \in Clients : link' = [link EXCEPT ![c] = "down"]
        PROVE  AllOrderly
    <2>1. /\ link' \in [Clients -> {"none", "up", "down"}]
          /\ \A c \in Clients : link'[c] \in {link[c], "down"}
      BY <1>1 DEF Traffic, SocketTypes
    <2>2. \A c \in Clients : Still(c)
      BY <1>1, <2>1 DEF Still
    <2>3. QED
      BY <1>1, <2>1, <2>2, StillOrderly DEF AllOrderly, Traffic, SocketTypes
  <1>2. CASE ServerStep \/ ServerAcceptFails
    BY <1>2, ServerTalks
  <1>3. CASE KillReplay
    BY <1>1, <1>3 DEF KillReplay, sessionVars, socketVars, uiVars
  <1>4. CASE UNCHANGED vars
    BY <1>1, <1>4 DEF vars, sessionVars, socketVars, uiVars
  <1>5. ASSUME NEW c \in Clients, ThreadStep(c) \/ ThreadTimeout(c)
        PROVE  AllOrderly
    BY <1>5, ThreadTalks
  <1>6. ASSUME NEW c \in Clients, Tick(c)
        PROVE  AllOrderly
    BY <1>6, WorkTalks
  <1>7. ASSUME NEW c \in Clients, Break(c)
        PROVE  AllOrderly
    BY <1>1, <1>7 DEF Break, sessionVars, uiVars
  <1>8. ASSUME NEW c \in Clients, UIStep(c)
        PROVE  AllOrderly
    <2>1. CASE UILost(c) \/ UIShutdown(c)
      BY <2>1, ClosedTalks DEF UILost, UIShutdown, remoteVars, sessionVars
    <2>2. QED
      BY <1>8, <2>1, ReadsTalk, ConnectTalks, RequestTalks DEF UIStep, UIReads
  <1>9. QED
    BY <1>2, <1>3, <1>4, <1>5, <1>6, <1>7, <1>8 DEF Next

-----------------------------------------------------------------------------
(* Flags, and files.                                                       *)

LEMMA FlagsKept ==
    ASSUME Traffic, [Next]_vars
    PROVE  FlagTypes'
  <1>1. /\ kill \in BOOLEAN /\ killServer \subseteq killThread /\ killThread \subseteq Clients
        /\ rdc \in [Clients -> {"none", "failed", "open"}]
        /\ active \in Clients \cup {NoClient}
    BY DEF Traffic, FlagTypes, IInv, CoreTypes
  <1>2. CASE ServerStep \/ ServerAcceptFails
    <2>1. UNCHANGED <<kill, rdc>>
      BY <1>2 DEF ServerStep, ServerAccept, ServerReap, ServerStop, ServerJoin, ServerAcceptFails,
                  sessionVars
    <2>2. killServer' \subseteq killThread' /\ killThread' \subseteq Clients
      BY <1>1, <1>2 DEF ServerStep, ServerAccept, ServerReap, ServerStop, ServerJoin,
                        ServerAcceptFails, flagVars
    <2>3. QED
      BY <1>1, <2>1, <2>2 DEF FlagTypes
  <1>3. CASE KillReplay
    BY <1>1, <1>3 DEF KillReplay, flagVars, sessionVars, FlagTypes
  <1>4. CASE UNCHANGED vars
    BY <1>1, <1>4 DEF vars, serverVars, flagVars, sessionVars, FlagTypes
  <1>5. ASSUME NEW c \in Clients,
               ThreadStep(c) \/ Tick(c) \/ ThreadTimeout(c) \/ UIStep(c) \/ Break(c)
        PROVE  FlagTypes'
    <2>1. CASE ThreadHandshake(c) \/ ThreadQuery(c) \/ ThreadCopy(c) \/ ThreadTakeOwnership(c)
                 \/ ThreadTellOpened(c) \/ ThreadInitResolver(c) \/ ThreadResolved(c)
                 \/ ThreadTellResolved(c) \/ ThreadReadFails(c)
      <3>1. UNCHANGED <<kill, killServer, killThread, rdc>>
        BY <2>1 DEF ThreadHandshake, ThreadQuery, ThreadCopy, ThreadTakeOwnership,
                    ThreadTellOpened, ThreadInitResolver, ThreadResolved, ThreadTellResolved,
                    ThreadReadFails, serverVars, flagVars, sessionVars
      <3>2. QED
        BY <1>1, <3>1 DEF FlagTypes
    <2>2. CASE ThreadShutdown(c)
      BY <1>1, <2>2 DEF ThreadShutdown, serverVars, sessionVars, FlagTypes
    <2>3. CASE ThreadOpen(c) \/ ThreadOpened(c) \/ ThreadClose(c) \/ ThreadCleanup(c) \/ ThreadCloses(c)
      <3>1. UNCHANGED <<kill, killServer, killThread>>
        BY <2>3 DEF ThreadOpen, ThreadOpened, ThreadClose, ThreadCleanup, ThreadCloses,
                    serverVars, flagVars
      <3>2. \/ rdc' = rdc
            \/ \E new \in {"none", "failed", "open"} : rdc' = [rdc EXCEPT ![c] = new]
        BY <2>3 DEF ThreadOpen, ThreadOpened, ThreadClose, ThreadCleanup, ThreadCloses
      <3>3. QED
        BY <1>1, <3>1, <3>2 DEF FlagTypes
    <2>4. CASE Tick(c) \/ ThreadTimeout(c) \/ Break(c) \/ UIStep(c)
      <3>1. UNCHANGED <<kill, killServer, killThread, rdc>>
        BY <2>4 DEF Tick, ThreadTimeout, Break, UIStep, UIReads, UIHandshake, UIReceive, UILost,
                    UIShutdown, UIConnect, UIRequest, remoteVars, serverVars, flagVars, sessionVars
      <3>2. QED
        BY <1>1, <3>1 DEF FlagTypes
    <2>5. QED
      BY <1>5, <2>1, <2>2, <2>3, <2>4 DEF ThreadStep
  <1>6. QED
    BY <1>2, <1>3, <1>4, <1>5 DEF Next

\* A step that leaves the files alone.
FilesAlone ==
    /\ UNCHANGED <<tempFiles, captureNum, disk>> /\ (Serving' => Serving)
    /\ \A c \in Clients : \/ thread'[c] = thread[c]
                          \/ thread[c] \in Early \cup SessionPC /\ thread'[c] \in SessionPC
                          \/ thread[c] \in Early /\ thread'[c] \in {"handshake", "closed"}

FilesKept == FileTypes' /\ FilesOwned'

LEMMA AloneKept ==
    ASSUME Traffic, FilesAlone
    PROVE  FilesKept
  <1>1. FileTypes'
    BY DEF FilesAlone, Traffic, FileTypes
  <1>2. \A c \in Clients : thread'[c] \in {"none", "handshake"} => thread[c] \in {"none", "handshake"}
    BY DEF FilesAlone, Early, SessionPC
  <1>3. \A c \in Clients : InSession(c) => InSession(c)'
    BY DEF FilesAlone, Early, SessionPC, InSession
  <1>4. \A c \in Clients : InSession(c)' => InSession(c) \/ tempFiles[c] = {}
    BY DEF FilesAlone, Early, SessionPC, InSession, Traffic, FilesOwned
  <1>5. \A c \in Clients : thread'[c] \in {"close", "closed"} =>
          thread[c] \in {"close", "closed"} \/ tempFiles[c] = {}
    BY DEF FilesAlone, Early, SessionPC, Traffic, FilesOwned
  <1>6. CopiesIntact'
    BY <1>4 DEF FilesAlone, Traffic, FilesOwned, CopiesIntact
  <1>7. \A c \in Clients, p \in Paths : disk'[p] = c => InSession(c)' /\ p \in tempFiles'[c]
    BY <1>3 DEF FilesAlone, Traffic, FilesOwned
  <1>8. \A c \in Clients : thread'[c] \in {"close", "closed"} /\ AppCapture \in tempFiles'[c] =>
          disk'[AppCapture] = NoClient
    BY <1>5 DEF FilesAlone, Traffic, FilesOwned
  <1>9. /\ \A c \in Clients : \A p \in tempFiles'[c] : p = AppCapture \/ p < captureNum'[c]
        /\ \A c \in Clients : thread'[c] \in {"none", "handshake"} => tempFiles'[c] = {}
    BY <1>2 DEF FilesAlone, Traffic, FilesOwned
  <1>10. QED
    BY <1>1, <1>6, <1>7, <1>8, <1>9 DEF FilesKept, FilesOwned

\* While the server is on, the files of at most one session matter.
LEMMA OneOwner ==
    ASSUME Traffic, Serving, NEW c \in Clients, InSession(c), NEW d \in Clients, InSession(d)
    PROVE  c = d
  BY DEF Traffic, IInv, SessionIsActive

\* What is known before a step of a session, whoever else has files.
LEMMA OwnersKnown ==
    ASSUME Traffic, NEW c \in Clients
    PROVE  /\ tempFiles[c] \subseteq Paths /\ captureNum[c] \in Nat
           /\ \A p \in tempFiles[c] : p = AppCapture \/ p < captureNum[c]
           /\ thread[c] \in {"none", "handshake"} => tempFiles[c] = {}
           /\ \A p \in Paths : disk[p] = c => InSession(c) /\ p \in tempFiles[c]
           /\ thread[c] \in {"close", "closed"} /\ AppCapture \in tempFiles[c] =>
                disk[AppCapture] = NoClient
           /\ Serving /\ InSession(c) => \A p \in tempFiles[c] \ {AppCapture} : disk[p] = c
           /\ c # AppCapture /\ c # NoClient
  BY ClientsAssumption, AppCaptureAssumption DEF Traffic, FileTypes, FilesOwned, CopiesIntact

\* A copy takes the next path, which belongs to nothing of its session.
LEMMA CopyKept ==
    ASSUME Traffic, NEW c \in Clients, ThreadCopy(c)
    PROVE  FilesKept
  <1>1. PICK n \in Nat : n = captureNum[c]
    BY DEF Traffic, FileTypes
  <1>2. Packet(c, "Copy") /\ UNCHANGED <<serverPC, active>>
    BY DEF ThreadCopy, serverVars, flagVars
  <1>3. /\ thread[c] = "read" /\ thread'[c] \in {"read", "cleanup"}
        /\ \A d \in Clients \ {c} : thread'[d] = thread[d]
    BY LoopMoves, PCMoves DEF ThreadCopy, Packet
  <1>4. n \in Paths /\ n # AppCapture /\ AppCapture \in Paths
    <2>1. n < MaxCopies
      BY <1>1, <1>2, FieldsTyped, CopyTaken DEF Packet
    <2>2. QED
      BY <2>1, BoundsAssumption, AppCaptureAssumption DEF Paths
  <1>5. /\ captureNum'[c] = n + 1 /\ captureNum' \in [Clients -> Nat]
        /\ \A d \in Clients \ {c} : captureNum'[d] = captureNum[d]
    BY <1>1 DEF ThreadCopy, Traffic, FileTypes
  <1>6. /\ disk'[n] \in {c, NoClient} /\ \A p \in Paths \ {n} : disk'[p] = disk[p]
        /\ disk' \in [Paths -> Clients \cup {NoClient, AppCapture}]
        /\ tempFiles' \in [Clients -> SUBSET Paths]
        /\ \A d \in Clients \ {c} : tempFiles'[d] = tempFiles[d]
        /\ tempFiles'[c] = IF disk'[n] = c THEN tempFiles[c] \cup {n} ELSE tempFiles[c]
    <2>1. c # NoClient
      BY ClientsAssumption
    <2>2. CASE disk' = [disk EXCEPT ![n] = c] /\ tempFiles' = [tempFiles EXCEPT ![c] = @ \cup {n}]
      BY <1>4, <2>2 DEF Traffic, FileTypes
    <2>3. CASE disk' = [disk EXCEPT ![n] = NoClient] /\ UNCHANGED tempFiles
      BY <1>4, <2>1, <2>3 DEF Traffic, FileTypes
    <2>4. QED
      BY <1>1, <2>2, <2>3 DEF ThreadCopy
  <1>7. FileTypes'
    BY <1>5, <1>6 DEF FileTypes
  <1>8. /\ \A d \in Clients : InSession(d)' <=> InSession(d)
        /\ Serving' <=> Serving /\ InSession(c)
    BY <1>2, <1>3 DEF InSession, Serving
  <1>9. \A d \in Clients : \A p \in tempFiles'[d] : p = AppCapture \/ p < captureNum'[d]
    <2>1. ASSUME NEW p \in tempFiles'[c], p # AppCapture
          PROVE  p < captureNum'[c]
      <3>1. CASE p = n
        BY <1>5, <3>1
      <3>2. CASE p # n
        <4>1. p \in tempFiles[c]
          BY <1>6, <2>1, <3>2
        <4>2. p \in Nat /\ p < n
          BY <1>1, <2>1, <4>1, OwnersKnown, BoundsAssumption DEF Paths
        <4>3. QED
          BY <1>5, <4>2
      <3>3. QED
        BY <3>1, <3>2
    <2>2. ASSUME NEW d \in Clients \ {c}, NEW p \in tempFiles'[d], p # AppCapture
          PROVE  p < captureNum'[d]
      BY <1>5, <1>6, <2>2, OwnersKnown
    <2>3. QED
      BY <2>1, <2>2
  <1>10. \A d \in Clients : thread'[d] \in {"none", "handshake"} => tempFiles'[d] = {}
    BY <1>3, <1>6, OwnersKnown
  <1>11. \A d \in Clients, p \in Paths : disk'[p] = d => InSession(d)' /\ p \in tempFiles'[d]
    <2>1. InSession(c)'
      BY <1>3, <1>8 DEF InSession
    <2>2. disk'[n] = c => n \in tempFiles'[c]
      BY <1>6
    <2>3. ASSUME NEW d \in Clients, disk'[n] = d
          PROVE  d = c
      BY <1>6, <2>3, ClientsAssumption
    <2>4. ASSUME NEW d \in Clients, NEW p \in Paths \ {n}, disk'[p] = d
          PROVE  InSession(d)' /\ p \in tempFiles'[d]
      <3>1. disk[p] = d
        BY <1>6, <2>4
      <3>2. InSession(d) /\ p \in tempFiles[d]
        BY <3>1, OwnersKnown
      <3>3. InSession(d)'
        BY <1>8, <3>2
      <3>4. p \in tempFiles'[d]
        <4>1. CASE d = c
          BY <1>6, <3>2, <4>1
        <4>2. CASE d # c
          BY <1>6, <3>2, <4>2
        <4>3. QED
          BY <4>1, <4>2
      <3>5. QED
        BY <3>3, <3>4
    <2>5. ASSUME NEW d \in Clients, NEW p \in Paths, disk'[p] = d
          PROVE  InSession(d)' /\ p \in tempFiles'[d]
      <3>1. CASE p = n
        <4>1. d = c
          BY <2>3, <2>5, <3>1
        <4>2. QED
          BY <2>1, <2>2, <2>5, <3>1, <4>1
      <3>2. CASE p # n
        BY <2>4, <2>5, <3>2
      <3>3. QED
        BY <3>1, <3>2
    <2>6. QED
      BY <2>5
  <1>12. \A d \in Clients : thread'[d] \in {"close", "closed"} /\ AppCapture \in tempFiles'[d] =>
           disk'[AppCapture] = NoClient
    BY <1>3, <1>4, <1>6, OwnersKnown
  <1>13. CopiesIntact'
    <2>1. ASSUME Serving', NEW d \in Clients, InSession(d)', NEW p \in tempFiles'[d] \ {AppCapture}
          PROVE  disk'[p] = d
      <3>1. d = c /\ Serving
        BY <1>8, <2>1, OneOwner
      <3>2. CASE p \in tempFiles[c]
        <4>1. p # n /\ p \in Paths
          BY <1>1, <2>1, <3>2, OwnersKnown
        <4>2. disk[p] = c
          BY <1>8, <2>1, <3>1, <3>2, OwnersKnown
        <4>3. QED
          BY <1>6, <3>1, <4>1, <4>2
      <3>3. CASE p \notin tempFiles[c]
        BY <1>6, <2>1, <3>1, <3>3
      <3>4. QED
        BY <3>2, <3>3
    <2>2. QED
      BY <2>1 DEF CopiesIntact
  <1>14. QED
    BY <1>7, <1>9, <1>10, <1>11, <1>12, <1>13 DEF FilesKept, FilesOwned

LEMMA OwnershipKept ==
    ASSUME Traffic, NEW c \in Clients, ThreadTakeOwnership(c)
    PROVE  FilesKept
  <1>1. /\ thread[c] = "read" /\ thread'[c] \in {"read", "cleanup"}
        /\ \A d \in Clients \ {c} : thread'[d] = thread[d]
    BY LoopMoves DEF ThreadTakeOwnership, Packet
  <1>2. UNCHANGED <<serverPC, captureNum, disk>> /\ AppCapture \in Paths
    BY DEF ThreadTakeOwnership, serverVars, Paths
  <1>3. /\ tempFiles' \in [Clients -> SUBSET Paths]
        /\ \A d \in Clients \ {c} : tempFiles'[d] = tempFiles[d]
        /\ tempFiles'[c] = tempFiles[c] \cup {AppCapture}
    BY <1>2 DEF ThreadTakeOwnership, Traffic, FileTypes
  <1>4. \A d \in Clients : (InSession(d)' <=> InSession(d)) /\ (Serving' <=> Serving)
    BY <1>1, <1>2 DEF InSession, Serving
  <1>5. FileTypes'
    BY <1>2, <1>3 DEF Traffic, FileTypes
  <1>6. /\ \A d \in Clients : \A p \in tempFiles'[d] : p = AppCapture \/ p < captureNum'[d]
        /\ \A d \in Clients : thread'[d] \in {"none", "handshake"} => tempFiles'[d] = {}
        /\ \A d \in Clients : thread'[d] \in {"close", "closed"} /\ AppCapture \in tempFiles'[d] =>
             disk'[AppCapture] = NoClient
    BY <1>1, <1>2, <1>3, OwnersKnown
  <1>7. \A d \in Clients, p \in Paths : disk'[p] = d => InSession(d)' /\ p \in tempFiles'[d]
    BY <1>2, <1>3, <1>4, OwnersKnown
  <1>8. CopiesIntact'
    BY <1>2, <1>3, <1>4 DEF CopiesIntact, Traffic, FilesOwned
  <1>9. QED
    BY <1>5, <1>6, <1>7, <1>8 DEF FilesKept, FilesOwned

\* The files of a session are deleted at its end: while the server is on there
\* are no others.
LEMMA CleanupKept ==
    ASSUME Traffic, NEW c \in Clients, ThreadCleanup(c)
    PROVE  FilesKept
  <1>1. /\ thread[c] = "cleanup" /\ thread'[c] = "close"
        /\ \A d \in Clients \ {c} : thread'[d] = thread[d]
    BY PCMoves DEF ThreadCleanup
  <1>2. UNCHANGED <<serverPC, captureNum, tempFiles>>
    BY DEF ThreadCleanup, serverVars
  <1>3. /\ disk' \in [Paths -> Clients \cup {NoClient, AppCapture}]
        /\ \A p \in Paths : disk'[p] = IF p \in tempFiles[c] THEN NoClient ELSE disk[p]
    BY DEF ThreadCleanup, Traffic, FileTypes
  <1>4. /\ \A d \in Clients \ {c} : InSession(d)' <=> InSession(d)
        /\ InSession(c) /\ ~InSession(c)' /\ (Serving' <=> Serving)
    BY <1>1, <1>2 DEF InSession, Serving
  <1>5. FileTypes'
    BY <1>2, <1>3 DEF Traffic, FileTypes
  <1>6. /\ \A d \in Clients : \A p \in tempFiles'[d] : p = AppCapture \/ p < captureNum'[d]
        /\ \A d \in Clients : thread'[d] \in {"none", "handshake"} => tempFiles'[d] = {}
    BY <1>1, <1>2, OwnersKnown
  <1>7. ASSUME NEW d \in Clients, NEW p \in Paths, disk'[p] = d
        PROVE  InSession(d)' /\ p \in tempFiles'[d]
    <2>1. d # NoClient
      BY ClientsAssumption
    <2>2. p \notin tempFiles[c] /\ disk[p] = d
      BY <1>3, <1>7, <2>1
    <2>3. InSession(d) /\ p \in tempFiles[d]
      BY <2>2, OwnersKnown
    <2>4. QED
      BY <1>2, <1>4, <2>2, <2>3
  <1>8. ASSUME NEW d \in Clients, thread'[d] \in {"close", "closed"}, AppCapture \in tempFiles'[d]
        PROVE  disk'[AppCapture] = NoClient
    <2>1. AppCapture \in Paths /\ AppCapture \in tempFiles[d]
      BY <1>2, <1>8 DEF Paths
    <2>2. CASE d = c
      BY <1>3, <2>1, <2>2
    <2>3. CASE d # c
      <3>1. thread[d] \in {"close", "closed"}
        BY <1>1, <1>8, <2>3
      <3>2. disk[AppCapture] = NoClient
        BY <2>1, <3>1, OwnersKnown
      <3>3. QED
        BY <1>3, <2>1, <3>2
    <2>4. QED
      BY <2>2, <2>3
  <1>9. CopiesIntact'
    BY <1>4, OneOwner DEF CopiesIntact
  <1>10. QED
    BY <1>5, <1>6, <1>7, <1>8, <1>9 DEF FilesKept, FilesOwned

LEMMA ClosesKept ==
    ASSUME Traffic, NEW c \in Clients, ThreadCloses(c)
    PROVE  FilesKept
  <1>1. /\ thread[c] = "close" /\ thread'[c] = "closed"
        /\ \A d \in Clients \ {c} : thread'[d] = thread[d]
    BY PCMoves DEF ThreadCloses
  <1>2. UNCHANGED <<serverPC, disk>>
    BY DEF ThreadCloses, serverVars
  <1>3. /\ tempFiles' \in [Clients -> SUBSET Paths] /\ tempFiles'[c] = {}
        /\ captureNum' \in [Clients -> Nat]
        /\ \A d \in Clients \ {c} : tempFiles'[d] = tempFiles[d] /\ captureNum'[d] = captureNum[d]
    BY DEF ThreadCloses, Traffic, FileTypes
  <1>4. /\ \A d \in Clients : InSession(d)' <=> InSession(d)
        /\ ~InSession(c) /\ (Serving' <=> Serving)
    BY <1>1, <1>2 DEF InSession, Serving
  <1>5. FileTypes'
    BY <1>2, <1>3 DEF Traffic, FileTypes
  <1>6. /\ \A d \in Clients : \A p \in tempFiles'[d] : p = AppCapture \/ p < captureNum'[d]
        /\ \A d \in Clients : thread'[d] \in {"none", "handshake"} => tempFiles'[d] = {}
        /\ \A d \in Clients : thread'[d] \in {"close", "closed"} /\ AppCapture \in tempFiles'[d] =>
             disk'[AppCapture] = NoClient
    BY <1>1, <1>2, <1>3, OwnersKnown
  <1>7. \A d \in Clients, p \in Paths : disk'[p] = d => InSession(d)' /\ p \in tempFiles'[d]
    BY <1>2, <1>3, <1>4, OwnersKnown
  <1>8. CopiesIntact'
    BY <1>2, <1>3, <1>4 DEF CopiesIntact, Traffic, FilesOwned
  <1>9. QED
    BY <1>5, <1>6, <1>7, <1>8 DEF FilesKept, FilesOwned

LEMMA StepKeepsFiles ==
    ASSUME Traffic, [Next]_vars
    PROVE  FilesKept
  <1>1. ASSUME UNCHANGED <<thread, sessionVars, disk>>, Serving' => Serving
        PROVE  FilesKept
    BY <1>1, AloneKept DEF FilesAlone, sessionVars
  <1>2. CASE ServerStep \/ ServerAcceptFails
    <2>1. Serving' => Serving
      BY <1>2 DEF ServerStep, ServerAccept, ServerReap, ServerStop, ServerJoin, ServerAcceptFails,
                  Serving
    <2>2. CASE ServerReap
      <3>1. UNCHANGED <<sessionVars, disk>>
        BY <2>2 DEF ServerReap
      <3>2. \/ UNCHANGED thread
            \/ client # NoClient /\ thread' = [thread EXCEPT ![client] = "handshake"]
        BY <2>2 DEF ServerReap
      <3>3. client # NoClient => client \in Clients /\ thread[client] = "none"
        BY DEF Traffic, IInv, CoreTypes, ConnectionIsNew
      <3>4. ASSUME NEW c \in Clients, thread[c] = "none", thread' = [thread EXCEPT ![c] = "handshake"]
            PROVE  FilesKept
        <4>1. FilesAlone
          BY <2>1, <3>1, <3>4, PCMoves DEF FilesAlone, Early, sessionVars
        <4>2. QED
          BY <4>1, AloneKept
      <3>5. QED
        BY <1>1, <2>1, <3>1, <3>2, <3>3, <3>4
    <2>3. CASE ~ServerReap
      BY <1>1, <1>2, <2>1, <2>3 DEF ServerStep, ServerAccept, ServerStop, ServerJoin,
                                    ServerAcceptFails
    <2>4. QED
      BY <2>2, <2>3
  <1>3. CASE KillReplay \/ UNCHANGED vars
    BY <1>1, <1>3 DEF KillReplay, vars, serverVars, Serving
  <1>4. ASSUME NEW c \in Clients, Tick(c) \/ ThreadTimeout(c) \/ UIStep(c) \/ Break(c)
        PROVE  FilesKept
    <2>1. UNCHANGED <<serverVars, thread, sessionVars, disk>>
      BY <1>4 DEF Tick, ThreadTimeout, Break, UIStep, UIReads, UIHandshake, UIReceive, UILost,
                  UIShutdown, UIConnect, UIRequest, remoteVars
    <2>2. QED
      BY <1>1, <2>1 DEF serverVars, Serving
  <1>5. ASSUME NEW c \in Clients, ThreadStep(c)
        PROVE  FilesKept
    <2>1. CASE ThreadCopy(c) \/ ThreadTakeOwnership(c) \/ ThreadCleanup(c) \/ ThreadCloses(c)
      BY <2>1, CopyKept, OwnershipKept, CleanupKept, ClosesKept
    <2>2. CASE ~(ThreadCopy(c) \/ ThreadTakeOwnership(c) \/ ThreadCleanup(c) \/ ThreadCloses(c))
      <3>1. UNCHANGED <<serverVars, tempFiles, captureNum, disk>>
        BY <1>5, <2>2 DEF ThreadStep, ThreadHandshake, ThreadQuery, ThreadShutdown, ThreadOpen,
              ThreadOpened, ThreadTellOpened, ThreadClose, ThreadInitResolver, ThreadResolved,
              ThreadTellResolved, ThreadReadFails, sessionVars
      <3>2. CASE ThreadHandshake(c)
        <4>1. /\ thread[c] = "handshake" /\ thread'[c] \in {"read", "closed"}
              /\ \A d \in Clients \ {c} : thread'[d] = thread[d]
          BY <3>2, PCMoves DEF ThreadHandshake
        <4>2. QED
          BY <3>1, <4>1, AloneKept DEF FilesAlone, Early, SessionPC, serverVars, Serving
      <3>3. CASE ~ThreadHandshake(c)
        <4>1. thread[c] \in SessionPC
          BY <1>5, <2>2, <3>3 DEF ThreadStep, ThreadQuery, ThreadShutdown, ThreadOpen,
                ThreadOpened, ThreadTellOpened, ThreadClose, ThreadInitResolver, ThreadResolved,
                ThreadTellResolved, ThreadReadFails, Packet, SessionPC
        <4>2. PICK pc \in SessionPC : thread' = [thread EXCEPT ![c] = pc]
          BY <1>5, <2>2, <3>3 DEF ThreadStep, ThreadQuery, ThreadShutdown, ThreadOpen,
                ThreadOpened, ThreadTellOpened, ThreadClose, ThreadInitResolver, ThreadResolved,
                ThreadTellResolved, ThreadReadFails, Loop, SessionPC
        <4>3. thread'[c] = pc /\ \A d \in Clients \ {c} : thread'[d] = thread[d]
          BY <4>2, PCMoves
        <4>4. QED
          BY <3>1, <4>1, <4>3, AloneKept DEF FilesAlone, serverVars, Serving
      <3>4. QED
        BY <3>2, <3>3
    <2>3. QED
      BY <2>1, <2>2
  <1>6. QED
    BY <1>2, <1>3, <1>4, <1>5 DEF Next

-----------------------------------------------------------------------------
(* The theorems about files and answers.                                   *)

LEMMA InitTraffic == Init => Traffic
  <1> SUFFICES ASSUME Init
               PROVE  Traffic
    OBVIOUS
  <1>1. IInv
    BY InitEstablishes
  <1>2. FlagTypes
    BY DEF Init, FlagTypes
  <1>3. FileTypes
    BY BoundsAssumption DEF Init, FileTypes
  <1>4. FilesOwned
    BY ClientsAssumption, AppCaptureAssumption DEF Init, FilesOwned, CopiesIntact
  <1>5. SocketTypes
    <2>1. <<>> \in Seq(Chunks)
      OBVIOUS
    <2>2. QED
      BY <2>1 DEF Init, SocketTypes
  <1>6. ASSUME NEW c \in Clients
        PROVE  Orderly(c)
    <2>1. /\ ui[c] = "idle" /\ thread[c] = "none" /\ toServer[c] = <<>> /\ toUI[c] = <<>>
          /\ captureNum[c] = 0
      BY DEF Init
    <2>2. Len(<<>>) = 0 /\ 0 <= MaxQueue
      BY BoundsAssumption
    <2>3. TalkOf(c)
      BY <2>1, <2>2 DEF TalkOf, Talk
    <2>4. CopyRequests(<<>>) = {}
      BY <2>2 DEF CopyRequests
    <2>5. 0 + Cardinality(CopyRequests(<<>>)) <= MaxCopies
      BY <2>4, FS_EmptySet, BoundsAssumption
    <2>6. QED
      BY <2>1, <2>3, <2>5 DEF Orderly, Fits
  <1>7. QED
    BY <1>1, <1>2, <1>3, <1>4, <1>5, <1>6 DEF Traffic

LEMMA TrafficGoesOn == Traffic /\ [Next]_vars => Traffic'
  <1> SUFFICES ASSUME Traffic, [Next]_vars
               PROVE  Traffic'
    OBVIOUS
  <1>1. IInv'
    BY StepPreserves DEF Traffic
  <1>2. SocketTypes' /\ \A c \in Clients : Orderly(c)'
    BY StepTalks DEF AllOrderly
  <1>3. FileTypes' /\ FilesOwned'
    BY StepKeepsFiles DEF FilesKept
  <1>4. FlagTypes'
    BY FlagsKept
  <1>5. QED
    BY <1>1, <1>2, <1>3, <1>4 DEF Traffic

LEMMA TrafficHolds == Spec => []Traffic
  BY InitTraffic, TrafficGoesOn, PTL DEF Spec

\* For any number of connections, copies and chunks on the way: a session never
\* copies more captures than were sent, no flag survives the ClientThread it
\* is in, and no buffer overflows.
THEOREM RemoteServerTypeCorrect == Spec => []RemoteServerTypeOK
  <1>1. ASSUME Traffic
        PROVE  RemoteServerTypeOK
    <2>1. IInv /\ FlagTypes /\ FileTypes /\ SocketTypes
      BY <1>1 DEF Traffic
    <2>2. ASSUME NEW c \in Clients
          PROVE  captureNum[c] \in 0 .. MaxCopies
      <3>1. PICK n \in Nat : n = captureNum[c]
        BY <2>1 DEF FileTypes
      <3>2. toServer[c] \in Seq(Chunks) /\ Fits(n, toServer[c])
        BY <1>1, <3>1, FieldsTyped
      <3>3. PICK k \in Nat : k = Cardinality(CopyRequests(toServer[c]))
        BY <3>2, CopiesCounted
      <3>4. n + k <= MaxCopies
        BY <3>2, <3>3 DEF Fits
      <3>5. QED
        BY <3>1, <3>4, BoundsAssumption
    <2>3. captureNum \in [Clients -> 0 .. MaxCopies]
      BY <2>1, <2>2 DEF FileTypes
    <2>4. \A c \in Clients : Len(toUI[c]) <= MaxQueue /\ Len(toServer[c]) <= MaxQueue
      BY <1>1, FieldsTyped DEF Talk
    <2>5. /\ serverPC \in {"accept", "reap", "stop", "join", "returned", "failed"}
          /\ {client, active} \subseteq Clients \cup {NoClient} /\ clients \in Seq(Clients)
          /\ thread \in [Clients -> {"none", "handshake", "read", "opening", "opened", "resolving",
                                     "resolved", "stuck", "cleanup", "close", "closed"}]
          /\ backlog \subseteq Clients
          /\ ui \in [Clients -> {"idle", "connecting", "ready", "asking", "closed"}]
      BY <2>1 DEF IInv, CoreTypes, ThreadPC, UIPC
    <2>6. QED
      BY <2>1, <2>3, <2>4, <2>5 DEF RemoteServerTypeOK, FlagTypes, FileTypes, SocketTypes
  <1>2. QED
    BY <1>1, TrafficHolds, PTL

\* Copies stay as they were sent while their session lasts, and go with it,
\* although sessions share the paths and none is told of another.
THEOREM FilesAreOwned == Spec => []FilesFollowSessions
  <1>1. ASSUME Traffic
        PROVE  FilesFollowSessions
    <2>1. CopiesIntact
      BY <1>1 DEF Traffic, FilesOwned
    <2>2. ASSUME NEW c \in Clients, thread[c] \in {"close", "closed"}
          PROVE  /\ \A p \in Paths : disk[p] # c
                 /\ AppCapture \in tempFiles[c] => disk[AppCapture] = NoClient
      BY <1>1, <2>2, OwnersKnown DEF InSession
    <2>3. QED
      BY <2>1, <2>2 DEF FilesFollowSessions, NoLeftovers
  <1>2. QED
    BY <1>1, TrafficHolds, PTL

\* Whatever is lost, a caller that reads gets the answer to what it asked, after
\* the progress of it, and a caller that asked nothing has nothing to read.
THEOREM AnswersAreMatched == Spec => []AnswersMatch
  <1>1. ASSUME Traffic
        PROVE  AnswersMatch
    <2>1. ASSUME NEW c \in Clients, NEW i \in Indices(toUI[c]), ui[c] \in {"ready", "asking"}
          PROVE  /\ ui[c] = "asking"
                 /\ i < Len(toUI[c]) => toUI[c][i] \in {"LogOpenProgress", "ResolverProgress"}
                 /\ \/ toUI[c][i] = asked[c]
                    \/ asked[c] = "Open" /\ toUI[c][i] \in {"LogOpenProgress", "LogOpened", "LogFailed"}
                    \/ asked[c] = "InitResolver" /\ toUI[c][i] = "ResolverProgress"
      <3>1. Talk(ui[c], asked[c], link[c], thread[c], toServer[c], toUI[c])
        BY <1>1, FieldsTyped
      <3>2. i \in 1 .. Len(toUI[c])
        BY DEF Indices
      <3>3. ui[c] = "asking"
        <4>1. Len(<<>>) = 0
          OBVIOUS
        <4>2. toUI[c] # <<>>
          BY <3>2, <4>1
        <4>3. QED
          BY <2>1, <3>1, <4>2 DEF Talk
      <3>4. Answers(asked[c], toUI[c])
        BY <3>1, <3>3 DEF Talk
      <3>5. QED
        BY <3>2, <3>3, <3>4 DEF Answers, Progress
    <2>2. QED
      BY <2>1 DEF AnswersMatch
  <1>2. QED
    BY <1>1, TrafficHolds, PTL

=============================================================================
