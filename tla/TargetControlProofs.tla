------------------------- MODULE TargetControlProofs -------------------------
(***************************************************************************)
(* For any number of clients, captures, commands and failures: a running   *)
(* client thread holds the name, the progress callback belongs to the      *)
(* thread in its loop, a kick joins the thread it means to, and the        *)
(* threads implement the hand-over of module SingleClient.                 *)
(*                                                                         *)
(* None of these is inductive alone.  That a joined thread was the only    *)
(* one depends on the handle (HandleIsServing), that a claim finds nobody  *)
(* serving depends on what the lookup saw (ClaimFindsNobody), and that a   *)
(* new thread is new depends on the claimant (ClaimantIsNew).              *)
(*                                                                         *)
(* Second part: every variable keeps its type and its bound, and a command *)
(* about a capture names a capture of the list.  A UI learns the captures  *)
(* from reports and answers with positions, so the invariant (Stocks)      *)
(* follows both on their way: reports arrive in order and without gaps     *)
(* (ReportsArrive), what was reported is in the list of the thread that    *)
(* reports (SentIsInTheList), and so is what commands in flight name       *)
(* (CommandsSeen).  The bounds need a count: a capture asked for is in     *)
(* exactly one of a command in flight, a counter, the frame being made and *)
(* the files written (Counted).                                            *)
(***************************************************************************)
EXTENDS TargetControl, FiniteSetTheorems, TLAPS

\* What the proofs are about; every other variable is payload.
core == <<m_SingleClientName, progressCallback, serverPC, newClient, clientThread, thread>>

Deciding == {"lookup", "kick", "join", "claim", "spawn", "busy"}

CoreTypes ==
    /\ m_SingleClientName \in Clients \cup {NoClient}
    /\ progressCallback \in Clients \cup {NoClient}
    /\ clientThread \in Clients \cup {NoClient}
    /\ thread \in [Clients -> ThreadPC]
    /\ serverPC \in ServerPC

ClaimantIsNew == serverPC \in Deciding => newClient \in Clients /\ thread[newClient] = "none"

ClaimFindsNobody ==
    /\ serverPC = "claim" => m_SingleClientName = NoClient
    /\ serverPC = "spawn" => m_SingleClientName = newClient

HandleIsServing == \A c \in Clients : Serving(c) => clientThread = c \/ serverPC = "stopped"

IInv ==
    /\ CoreTypes /\ ClaimantIsNew /\ ClaimFindsNobody /\ HandleIsServing
    /\ NameHeldByServingThread /\ KickJoinsAThread /\ CallbackOwnedByServingThread

USE ClientsAssumption

-----------------------------------------------------------------------------

THEOREM InitEstablishes == Init => IInv
  BY DEF Init, IInv, CoreTypes, ClaimantIsNew, ClaimFindsNobody, HandleIsServing, Deciding,
         NameHeldByServingThread, KickJoinsAThread, CallbackOwnedByServingThread,
         Serving, ThreadPC, ServerPC

\* The application, the UIs and the network touch none of it.
LEMMA OthersKeepCore ==
    ASSUME AppStep \/ (\E c \in Clients : UIStep(c) \/ Break(c))
    PROVE  UNCHANGED core
  <1>1. CASE AppStep
    BY <1>1 DEF AppStep, KeyTrigger, BeginCapture, FinishCaptureWriting, AddChildProcess,
                DriverChanges, WindowsChange, ShowReplayUI, FileDeleted, RemoveHooks,
                RemoveHooksReturns, Exit, core, serveVars, serverVars, threadVars
  <1>2. ASSUME NEW c \in Clients, UIStep(c)
        PROVE  UNCHANGED core
    BY <1>2 DEF UIStep, UIConnect, UIReads, UIHandshake, UIReceive, UILost, UIRequest, UIDelete,
                UICopy, UISend, UIShutdown, appSide, core, serveVars, serverVars, threadVars
  <1>3. ASSUME NEW c \in Clients, Break(c)
        PROVE  UNCHANGED core
    BY <1>3 DEF Break, core, serveVars, serverVars, threadVars
  <1>4. QED
    BY <1>1, <1>2, <1>3

LEMMA CoreUnchanged ==
    ASSUME IInv, UNCHANGED core
    PROVE  IInv'
  BY DEF core, IInv, CoreTypes, ClaimantIsNew, ClaimFindsNobody, HandleIsServing, Deciding,
         NameHeldByServingThread, KickJoinsAThread, CallbackOwnedByServingThread, Serving

-----------------------------------------------------------------------------
(* The server thread.                                                      *)

LEMMA AcceptPreserves ==
    ASSUME IInv, NEW c \in Clients, ServerAccept(c)
    PROVE  IInv'
  <1>1. CASE UNCHANGED serverVars
    <2>1. UNCHANGED core
      BY <1>1 DEF ServerAccept, serverVars, serveVars, threadVars, core
    <2>2. QED
      BY <2>1, CoreUnchanged
  <1>2. CASE serverPC' = "lookup" /\ newClient' = c /\ clientThread' = clientThread
    <2>1. /\ serverPC = "accept" /\ thread[c] = "none"
          /\ UNCHANGED <<m_SingleClientName, progressCallback, thread>>
      BY DEF ServerAccept, serveVars, threadVars
    <2>2. QED
      BY <1>2, <2>1 DEF IInv, CoreTypes, ClaimantIsNew, ClaimFindsNobody, HandleIsServing,
                        Deciding, NameHeldByServingThread, KickJoinsAThread,
                        CallbackOwnedByServingThread, Serving, ServerPC
  <1>3. QED
    BY <1>1, <1>2 DEF ServerAccept

\* With a name in place some thread serves, and it is the one of the handle.
LEMMA LookupPreserves ==
    ASSUME IInv, ServerLookup
    PROVE  IInv'
  <1>1. /\ serverPC = "lookup" /\ serverPC' \in {"claim", "kick", "busy"}
        /\ serverPC' = "claim" => m_SingleClientName = NoClient
        /\ serverPC' = "kick" => m_SingleClientName # NoClient
        /\ UNCHANGED <<m_SingleClientName, progressCallback, newClient, clientThread, thread>>
    BY DEF ServerLookup, serveVars, threadVars
  <1>2. serverPC' = "kick" => clientThread # NoClient /\ \A c \in Clients : Serving(c) => c = clientThread
    BY <1>1 DEF IInv, CoreTypes, HandleIsServing, NameHeldByServingThread
  <1>3. QED
    BY <1>1, <1>2 DEF IInv, CoreTypes, ClaimantIsNew, ClaimFindsNobody, HandleIsServing,
                      Deciding, NameHeldByServingThread, KickJoinsAThread,
                      CallbackOwnedByServingThread, Serving, ServerPC

LEMMA KickPreserves ==
    ASSUME IInv, ServerKick
    PROVE  IInv'
  <1>1. /\ serverPC = "kick" /\ serverPC' = "join"
        /\ UNCHANGED <<m_SingleClientName, progressCallback, newClient, clientThread, thread>>
    BY DEF ServerKick, threadVars
  <1>2. QED
    BY <1>1 DEF IInv, CoreTypes, ClaimantIsNew, ClaimFindsNobody, HandleIsServing,
                Deciding, NameHeldByServingThread, KickJoinsAThread,
                CallbackOwnedByServingThread, Serving, ServerPC

\* The joined thread was the only one, so nobody serves and no name is held.
LEMMA JoinPreserves ==
    ASSUME IInv, ServerJoin
    PROVE  IInv'
  <1>1. /\ serverPC = "join" /\ serverPC' = "claim" /\ clientThread' = NoClient
        /\ clientThread = NoClient \/ thread[clientThread] = "done"
        /\ UNCHANGED <<m_SingleClientName, progressCallback, newClient, thread>>
    BY DEF ServerJoin, threadVars
  <1>2. \A c \in Clients : ~Serving(c)
    BY <1>1 DEF IInv, KickJoinsAThread, Serving
  <1>3. m_SingleClientName = NoClient
    BY <1>1, <1>2 DEF IInv, CoreTypes, NameHeldByServingThread
  <1>4. QED
    BY <1>1, <1>2, <1>3 DEF IInv, CoreTypes, ClaimantIsNew, ClaimFindsNobody, HandleIsServing,
                            Deciding, NameHeldByServingThread, KickJoinsAThread,
                            CallbackOwnedByServingThread, Serving, ServerPC

LEMMA ClaimPreserves ==
    ASSUME IInv, ServerClaim
    PROVE  IInv'
  <1>1. /\ serverPC = "claim" /\ serverPC' = "spawn" /\ m_SingleClientName' = newClient
        /\ UNCHANGED <<progressCallback, newClient, clientThread, thread>>
    BY DEF ServerClaim, threadVars
  <1>2. m_SingleClientName = NoClient /\ newClient \in Clients /\ thread[newClient] = "none"
    BY <1>1 DEF IInv, ClaimFindsNobody, ClaimantIsNew, Deciding
  <1>3. \A c \in Clients : ~Serving(c)
    BY <1>2 DEF IInv, NameHeldByServingThread
  <1>4. QED
    BY <1>1, <1>2, <1>3 DEF IInv, CoreTypes, ClaimantIsNew, ClaimFindsNobody, HandleIsServing,
                            Deciding, NameHeldByServingThread, KickJoinsAThread,
                            CallbackOwnedByServingThread, Serving, ServerPC

LEMMA SpawnPreserves ==
    ASSUME IInv, ServerSpawn
    PROVE  IInv'
  <1>1. /\ serverPC = "spawn" /\ serverPC' = "accept" /\ clientThread' = newClient
        /\ thread' = [thread EXCEPT ![newClient] = "handshake"]
        /\ UNCHANGED <<m_SingleClientName, progressCallback>>
    BY DEF ServerSpawn, serveVars
  <1>2. m_SingleClientName = newClient /\ newClient \in Clients /\ thread[newClient] = "none"
    BY <1>1 DEF IInv, ClaimFindsNobody, ClaimantIsNew, Deciding
  <1>3. \A c \in Clients : ~Serving(c)
    BY <1>2 DEF IInv, NameHeldByServingThread, Serving
  <1>4. \A c \in Clients : thread'[c] = IF c = newClient THEN "handshake" ELSE thread[c]
    BY <1>1, <1>2 DEF IInv, CoreTypes
  <1>5. CoreTypes' /\ ClaimantIsNew' /\ ClaimFindsNobody' /\ KickJoinsAThread'
    BY <1>1, <1>2 DEF IInv, CoreTypes, ClaimantIsNew, ClaimFindsNobody, Deciding,
                      KickJoinsAThread, ServerPC, ThreadPC
  <1>6. HandleIsServing' /\ NameHeldByServingThread'
    BY <1>1, <1>2, <1>3, <1>4 DEF HandleIsServing, NameHeldByServingThread, Serving
  <1>7. CallbackOwnedByServingThread'
    BY <1>1, <1>2, <1>4 DEF IInv, CallbackOwnedByServingThread
  <1>8. QED
    BY <1>5, <1>6, <1>7 DEF IInv

\* The thread leaves for "accept" or for good, the rest stays.
LEMMA LeavingPreserves ==
    ASSUME IInv,
           \/ ServerBusy
           \/ ServerStop \/ ServerAcceptFails
    PROVE  IInv'
  <1>1. /\ UNCHANGED <<m_SingleClientName, progressCallback, thread>>
        /\ \/ serverPC = "busy" /\ serverPC' = "accept" /\ clientThread' = clientThread
           \/ serverPC = "accept" /\ serverPC' = "stopped"
        /\ clientThread' \in {clientThread, NoClient}
    BY DEF ServerBusy, ServerStop, ServerAcceptFails, CloseListener, serveVars, serverVars, threadVars
  <1>2. QED
    BY <1>1 DEF IInv, CoreTypes, ClaimantIsNew, ClaimFindsNobody, HandleIsServing,
                Deciding, NameHeldByServingThread, KickJoinsAThread,
                CallbackOwnedByServingThread, Serving, ServerPC

-----------------------------------------------------------------------------
(* The client threads.                                                     *)

\* A thread that serves moves on, and neither the name nor the callback moves.
LEMMA MovingPreserves ==
    ASSUME IInv, NEW c \in Clients, Serving(c),
           NEW pc \in ThreadPC \ {"none", "done"},
           thread' = [thread EXCEPT ![c] = pc],
           pc \in {"validate", "tick", "command"} => progressCallback = c,
           progressCallback = c => pc \in {"validate", "tick", "command", "clearCallback"},
           UNCHANGED <<m_SingleClientName, progressCallback, serverPC, newClient, clientThread>>
    PROVE  IInv'
  <1>1. \A d \in Clients : thread'[d] = IF d = c THEN pc ELSE thread[d]
    BY DEF IInv, CoreTypes
  <1>2. \A d \in Clients : Serving(d)' <=> Serving(d)
    BY <1>1 DEF Serving, ThreadPC
  <1>3. CoreTypes'
    BY DEF IInv, CoreTypes
  <1>4. ClaimantIsNew'
    BY <1>1 DEF IInv, ClaimantIsNew, Serving, Deciding
  <1>5. ClaimFindsNobody' /\ HandleIsServing' /\ NameHeldByServingThread' /\ KickJoinsAThread'
    BY <1>2 DEF IInv, CoreTypes, ClaimFindsNobody, HandleIsServing, NameHeldByServingThread,
                KickJoinsAThread
  <1>6. CallbackOwnedByServingThread'
    BY <1>1 DEF IInv, CallbackOwnedByServingThread
  <1>7. QED
    BY <1>3, <1>4, <1>5, <1>6 DEF IInv

LEMMA ThreadPreserves ==
    ASSUME IInv, NEW c \in Clients, ThreadStep(c)
    PROVE  IInv'
  <1> DEFINE Still == UNCHANGED <<m_SingleClientName, serverPC, newClient, clientThread>>
  <1>1. CASE ThreadHandshake(c)
    <2>1. /\ thread[c] = "handshake" /\ Still /\ progressCallback' = progressCallback
          /\ \/ thread' = [thread EXCEPT ![c] = "setCallback"]
             \/ thread' = [thread EXCEPT ![c] = "clearName"]
      BY <1>1 DEF ThreadHandshake, Goto, serveVars, serverVars
    <2>2. progressCallback # c
      BY <2>1 DEF IInv, CallbackOwnedByServingThread
    <2>3. QED
      BY <2>1, <2>2, MovingPreserves DEF Serving, ThreadPC
  <1>2. CASE ThreadSetCallback(c)
    <2>1. /\ thread[c] = "setCallback" /\ Still /\ progressCallback' = c
          /\ thread' = [thread EXCEPT ![c] = "validate"]
      BY <1>2 DEF ThreadSetCallback, Goto, serverVars
    <2>2. \A d \in Clients : thread'[d] = IF d = c THEN "validate" ELSE thread[d]
      BY <2>1 DEF IInv, CoreTypes
    <2>3. \A d \in Clients : Serving(d) => d = c
      BY <2>1 DEF IInv, NameHeldByServingThread, Serving
    <2>4. \A d \in Clients : Serving(d)' <=> Serving(d)
      BY <2>1, <2>2 DEF Serving
    <2>5. CoreTypes'
      BY <2>1 DEF IInv, CoreTypes, ThreadPC
    <2>6. ClaimantIsNew'
      BY <2>1, <2>2 DEF IInv, ClaimantIsNew, Deciding
    <2>7. ClaimFindsNobody' /\ HandleIsServing' /\ NameHeldByServingThread' /\ KickJoinsAThread'
      BY <2>1, <2>4 DEF IInv, CoreTypes, ClaimFindsNobody, HandleIsServing,
                        NameHeldByServingThread, KickJoinsAThread
    <2>8. CallbackOwnedByServingThread'
      BY <2>1, <2>2, <2>3 DEF CallbackOwnedByServingThread, Serving
    <2>9. QED
      BY <2>5, <2>6, <2>7, <2>8 DEF IInv
  <1>3. CASE ThreadValidate(c)
    <2>1. /\ thread[c] = "validate" /\ Still /\ progressCallback' = progressCallback
          /\ thread' = [thread EXCEPT ![c] = "tick"]
      BY <1>3 DEF ThreadValidate, Goto, serveVars, serverVars
    <2>2. progressCallback = c
      BY <2>1 DEF IInv, CallbackOwnedByServingThread
    <2>3. QED
      BY <2>1, <2>2, MovingPreserves DEF Serving, ThreadPC
  <1>4. CASE ThreadTick(c)
    <2>1. /\ thread[c] = "tick" /\ Still /\ progressCallback' = progressCallback
          /\ \/ thread' = [thread EXCEPT ![c] = "command"]
             \/ thread' = [thread EXCEPT ![c] = "clearCallback"]
      BY <1>4 DEF ThreadTick, Goto, serveVars, serverVars
    <2>2. progressCallback = c
      BY <2>1 DEF IInv, CallbackOwnedByServingThread
    <2>3. QED
      BY <2>1, <2>2, MovingPreserves DEF Serving, ThreadPC
  <1>5. CASE ThreadCommand(c)
    <2>1. /\ thread[c] = "command" /\ Still /\ progressCallback' = progressCallback
          /\ \/ thread' = [thread EXCEPT ![c] = "tick"]
             \/ thread' = [thread EXCEPT ![c] = "clearCallback"]
      BY <1>5 DEF ThreadCommand, HandleCapture, HandleDelete, HandleCopy, Goto, serveVars, serverVars
    <2>2. progressCallback = c
      BY <2>1 DEF IInv, CallbackOwnedByServingThread
    <2>3. QED
      BY <2>1, <2>2, MovingPreserves DEF Serving, ThreadPC
  <1>6. CASE ThreadClearCallback(c)
    <2>1. /\ thread[c] = "clearCallback" /\ Still /\ progressCallback' = NoClient
          /\ thread' = [thread EXCEPT ![c] = "clearName"]
      BY <1>6 DEF ThreadClearCallback, Goto, serverVars
    <2>2. \A d \in Clients : thread'[d] = IF d = c THEN "clearName" ELSE thread[d]
      BY <2>1 DEF IInv, CoreTypes
    <2>3. \A d \in Clients : Serving(d) => d = c
      BY <2>1 DEF IInv, NameHeldByServingThread, Serving
    <2>4. \A d \in Clients : Serving(d)' <=> Serving(d)
      BY <2>1, <2>2 DEF Serving
    <2>5. CoreTypes'
      BY <2>1 DEF IInv, CoreTypes, ThreadPC
    <2>6. ClaimantIsNew'
      BY <2>1, <2>2 DEF IInv, ClaimantIsNew, Deciding
    <2>7. ClaimFindsNobody' /\ HandleIsServing' /\ NameHeldByServingThread' /\ KickJoinsAThread'
      BY <2>1, <2>4 DEF IInv, CoreTypes, ClaimFindsNobody, HandleIsServing,
                        NameHeldByServingThread, KickJoinsAThread
    <2>8. CallbackOwnedByServingThread'
      BY <2>1, <2>2, <2>3 DEF CallbackOwnedByServingThread, Serving
    <2>9. QED
      BY <2>5, <2>6, <2>7, <2>8 DEF IInv
  <1>7. CASE ThreadClearName(c)
    <2>1. /\ thread[c] = "clearName" /\ m_SingleClientName' = NoClient
          /\ thread' = [thread EXCEPT ![c] = "done"]
          /\ UNCHANGED <<progressCallback, serverPC, newClient, clientThread>>
      BY <1>7 DEF ThreadClearName, Goto, serverVars
    <2>2. \A d \in Clients : thread'[d] = IF d = c THEN "done" ELSE thread[d]
      BY <2>1 DEF IInv, CoreTypes
    <2>3. \A d \in Clients : ~Serving(d)'
      BY <2>1, <2>2 DEF IInv, NameHeldByServingThread, Serving
    <2>4. serverPC # "spawn"
      BY <2>1 DEF IInv, NameHeldByServingThread, ClaimFindsNobody, ClaimantIsNew, Deciding, Serving
    <2>5. CoreTypes' /\ ClaimantIsNew'
      BY <2>1, <2>2 DEF IInv, CoreTypes, ClaimantIsNew, Deciding, ThreadPC
    <2>6. ClaimFindsNobody' /\ HandleIsServing' /\ NameHeldByServingThread' /\ KickJoinsAThread'
      BY <2>1, <2>3, <2>4 DEF IInv, ClaimFindsNobody, HandleIsServing,
                              NameHeldByServingThread, KickJoinsAThread
    <2>7. CallbackOwnedByServingThread'
      BY <2>1, <2>2 DEF IInv, CallbackOwnedByServingThread
    <2>8. QED
      BY <2>5, <2>6, <2>7 DEF IInv
  <1>8. QED
    BY <1>1, <1>2, <1>3, <1>4, <1>5, <1>6, <1>7 DEF ThreadStep

-----------------------------------------------------------------------------
(* The theorems.                                                           *)

THEOREM StepPreserves == IInv /\ [Next]_vars => IInv'
  <1> SUFFICES ASSUME IInv, [Next]_vars
               PROVE  IInv'
    OBVIOUS
  <1>1. CASE ServerStep \/ ServerAcceptFails
    BY <1>1, AcceptPreserves, LookupPreserves, KickPreserves, JoinPreserves, ClaimPreserves,
       SpawnPreserves, LeavingPreserves DEF ServerStep
  <1>2. ASSUME NEW c \in Clients, ThreadStep(c)
        PROVE  IInv'
    BY <1>2, ThreadPreserves
  <1>3. CASE AppStep \/ \E c \in Clients : UIStep(c) \/ Break(c)
    BY <1>3, OthersKeepCore, CoreUnchanged
  <1>4. CASE UNCHANGED vars
    BY <1>4, CoreUnchanged DEF vars, core, serveVars, serverVars, threadVars
  <1>5. QED
    BY <1>1, <1>2, <1>3, <1>4 DEF Next

LEMMA Invariance == Spec => []IInv
  BY InitEstablishes, StepPreserves, PTL DEF Spec

\* A running client thread belongs to the one client named in
\* m_SingleClientName, for any number of clients and any interleaving of the
\* server's read, kick, join and claim with the threads' exits.
THEOREM OneClientServed == Spec => []NameHeldByServingThread
  <1>1. IInv => NameHeldByServingThread
    BY DEF IInv
  <1>2. QED
    BY <1>1, Invariance, PTL

\* The progress callback belongs to the thread in its loop and never to a
\* thread that ended.
THEOREM CallbackOwned == Spec => []CallbackOwnedByServingThread
  <1>1. IInv => CallbackOwnedByServingThread
    BY DEF IInv
  <1>2. QED
    BY <1>1, Invariance, PTL

\* TargetControlServerThread never joins a null handle, nor a thread other
\* than the one that serves.
THEOREM KickJoinsServingThread == Spec => []KickJoinsAThread
  <1>1. IInv => KickJoinsAThread
    BY DEF IInv
  <1>2. QED
    BY <1>1, Invariance, PTL

-----------------------------------------------------------------------------
(* Refinement of SingleClient.  A claim, a spawn and the release of the    *)
(* name are its three steps, everything else is a stutter.                 *)

Working == {c \in Clients : Serving(c)}
Served  == {c \in Clients : thread[c] # "none"}

LEMMA CoreStutters ==
    ASSUME UNCHANGED <<m_SingleClientName, thread>>
    PROVE  UNCHANGED <<m_SingleClientName, Working, Served>>
  BY DEF Working, Served, Serving

LEMMA ServerRefines ==
    ASSUME IInv, ServerStep \/ ServerAcceptFails
    PROVE  Abstract!Next \/ UNCHANGED <<m_SingleClientName, Working, Served>>
  <1>1. CASE ServerClaim
    <2>1. /\ serverPC = "claim" /\ m_SingleClientName' = newClient /\ UNCHANGED thread
      BY <1>1 DEF ServerClaim, threadVars
    <2>2. m_SingleClientName = NoClient /\ newClient \in Clients /\ thread[newClient] = "none"
      BY <2>1 DEF IInv, ClaimFindsNobody, ClaimantIsNew, Deciding
    <2>3. Working = {} /\ newClient \notin Served /\ UNCHANGED <<Working, Served>>
      BY <2>1, <2>2 DEF IInv, NameHeldByServingThread, Working, Served, Serving
    <2>4. Abstract!Claim(newClient)
      BY <2>1, <2>2, <2>3 DEF Abstract!Claim, Working, Served
    <2>5. QED
      BY <2>2, <2>4 DEF Abstract!Next
  <1>2. CASE ServerSpawn
    <2>1. /\ serverPC = "spawn" /\ UNCHANGED m_SingleClientName
          /\ thread' = [thread EXCEPT ![newClient] = "handshake"]
      BY <1>2 DEF ServerSpawn, serveVars
    <2>2. m_SingleClientName = newClient /\ newClient \in Clients /\ thread[newClient] = "none"
      BY <2>1 DEF IInv, ClaimFindsNobody, ClaimantIsNew, Deciding
    <2>3. \A c \in Clients : thread'[c] = IF c = newClient THEN "handshake" ELSE thread[c]
      BY <2>1, <2>2 DEF IInv, CoreTypes
    <2>4. Working = {} /\ newClient \notin Served
      BY <2>2 DEF IInv, NameHeldByServingThread, Working, Served, Serving
    <2>5. Working' = {newClient} /\ Served' = Served \cup {newClient}
      BY <2>2, <2>3, <2>4 DEF Working, Served, Serving
    <2>6. PICK c \in Clients : c = newClient
      BY <2>2
    <2>7. Abstract!Start(c)
      BY <2>1, <2>2, <2>4, <2>5, <2>6 DEF Abstract!Start, Working, Served
    <2>8. QED
      BY <2>7 DEF Abstract!Next
  <1>3. CASE ~ServerClaim /\ ~ServerSpawn
    <2>1. UNCHANGED <<m_SingleClientName, thread>>
      BY <1>3 DEF ServerStep, ServerAccept, ServerLookup, ServerKick, ServerJoin, ServerBusy,
                  ServerStop, ServerAcceptFails, CloseListener, serveVars, threadVars
    <2>2. QED
      BY <2>1, CoreStutters
  <1>4. QED
    BY <1>1, <1>2, <1>3

LEMMA ThreadRefines ==
    ASSUME IInv, NEW c \in Clients, ThreadStep(c)
    PROVE  Abstract!Next \/ UNCHANGED <<m_SingleClientName, Working, Served>>
  <1>1. CASE ThreadClearName(c)
    <2>1. /\ thread[c] = "clearName" /\ m_SingleClientName' = NoClient
          /\ thread' = [thread EXCEPT ![c] = "done"]
      BY <1>1 DEF ThreadClearName, Goto
    <2>2. \A d \in Clients : thread'[d] = IF d = c THEN "done" ELSE thread[d]
      BY <2>1 DEF IInv, CoreTypes
    <2>3. m_SingleClientName = c /\ Working = {c}
      BY <2>1 DEF IInv, NameHeldByServingThread, Working, Serving
    <2>4. Working' = {} /\ Served' = Served
      BY <2>1, <2>2, <2>3 DEF Working, Served, Serving
    <2>5. Abstract!Finish(c)
      BY <2>1, <2>3, <2>4 DEF Abstract!Finish, Working, Served
    <2>6. QED
      BY <2>5 DEF Abstract!Next
  <1>2. CASE ~ThreadClearName(c)
    <2>1. /\ UNCHANGED m_SingleClientName
          /\ Serving(c)
          /\ \E pc \in ThreadPC \ {"none", "done"} : thread' = [thread EXCEPT ![c] = pc]
      BY <1>2 DEF ThreadStep, ThreadHandshake, ThreadSetCallback, ThreadValidate, ThreadTick,
                  ThreadCommand, HandleCapture, HandleDelete, HandleCopy, ThreadClearCallback,
                  Goto, serveVars, Serving, ThreadPC
    <2>2. \A d \in Clients : (Serving(d)' <=> Serving(d)) /\ (thread'[d] = "none" <=> thread[d] = "none")
      BY <2>1 DEF IInv, CoreTypes, Serving
    <2>3. UNCHANGED <<Working, Served>>
      BY <2>2 DEF Working, Served
    <2>4. QED
      BY <2>1, <2>3
  <1>3. QED
    BY <1>1, <1>2

\* Whatever the threads, the UIs and the network do, the application passes
\* from client to client only through a moment when nobody holds it, nobody
\* works for anybody, and it never returns to a connection it served.
THEOREM ImplementsSingleClient == Spec => AbstractSpec
  <1>1. Init => Abstract!Init
    BY DEF Init, Abstract!Init, Serving
  <1>2. IInv /\ [Next]_vars => [Abstract!Next]_<<m_SingleClientName, Working, Served>>
    <2> SUFFICES ASSUME IInv, [Next]_vars
                 PROVE  Abstract!Next \/ UNCHANGED <<m_SingleClientName, Working, Served>>
      OBVIOUS
    <2>1. CASE ServerStep \/ ServerAcceptFails
      BY <2>1, ServerRefines
    <2>2. ASSUME NEW c \in Clients, ThreadStep(c)
          PROVE  Abstract!Next \/ UNCHANGED <<m_SingleClientName, Working, Served>>
      BY <2>2, ThreadRefines
    <2>3. CASE AppStep \/ \E c \in Clients : UIStep(c) \/ Break(c)
      BY <2>3, OthersKeepCore, CoreStutters DEF core
    <2>4. CASE UNCHANGED vars
      BY <2>4, CoreStutters DEF vars, serveVars, threadVars
    <2>5. QED
      BY <2>1, <2>2, <2>3, <2>4 DEF Next
  <1>3. QED
    BY <1>1, <1>2, Invariance, PTL DEF Spec, AbstractSpec, Abstract!Spec, Working, Served
-----------------------------------------------------------------------------
(* Counting up: the least element of a set of naturals gives induction over *)
(* 0 .. N, without an operator for the induction hypothesis.               *)

LEMMA LeastNatural ==
    ASSUME NEW T \in SUBSET Nat, T # {}
    PROVE  \E least \in T : \A n \in T : least <= n
  <1> DEFINE Below(n) == 1 .. n
             Belows == {Below(n) : n \in T}
  <1>1. Belows \subseteq FiniteSubsetsOf(Nat) /\ Belows # {}
    <2>1. \A n \in T : Below(n) \in SUBSET Nat /\ IsFiniteSet(Below(n))
      BY FS_Interval
    <2>2. QED
      BY <2>1 DEF FiniteSubsetsOf
  <1>2. PICK B \in Belows : \A C \in Belows : ~ (<<C, B>> \in StrictSubsetOrdering(Nat))
    <2> HIDE DEF Belows
    <2>1. QED
      BY <1>1, FS_StrictSubsetOrderingWellFounded, WFMin
  <1>3. PICK least \in T : B = Below(least)
    BY <1>2
  <1>4. ASSUME NEW n \in T, n < least
        PROVE  FALSE
    <2>1. Below(n) \in Belows /\ Below(n) \subseteq Below(least) /\ Below(n) # Below(least)
      <3>1. least \in Below(least) /\ least \notin Below(n)
        BY <1>4
      <3>2. Below(n) \subseteq Below(least)
        BY <1>4
      <3>3. QED
        BY <3>1, <3>2
    <2>2. <<Below(n), Below(least)>> \in StrictSubsetOrdering(Nat)
      BY <2>1, <1>1 DEF StrictSubsetOrdering
    <2>3. QED
      BY <2>1, <2>2, <1>2, <1>3
  <1>5. \A n \in T : least <= n
    BY <1>4
  <1>6. QED
    BY <1>5

LEMMA UpToInduction ==
    ASSUME NEW N \in Nat, NEW T, 0 \in T,
           \A n \in 1 .. N : n - 1 \in T => n \in T
    PROVE  0 .. N \subseteq T
  <1> DEFINE Bad == 0 .. N \ T
  <1>1. ASSUME Bad # {}
        PROVE  FALSE
    <2>1. PICK n \in Bad : \A m \in Bad : n <= m
      <3>1. Bad \in SUBSET Nat
        OBVIOUS
      <3> HIDE DEF Bad
      <3>2. QED
        BY <1>1, <3>1, LeastNatural
    <2>2. n \in 1 .. N /\ n - 1 \in 0 .. N /\ n - 1 \notin Bad
      BY <2>1
    <2>3. QED
      BY <2>1, <2>2
  <1>2. QED
    BY <1>1

-----------------------------------------------------------------------------
(* What ValidateCaptures leaves of the list.                               *)

\* Surviving returns entries of the list, no more than there were.
LEMMA SurvivingIs ==
    ASSUME NEW Files, NEW captures \in Seq(Files), NEW files
    PROVE  /\ Surviving(captures, files) \in Seq(Files)
           /\ Len(Surviving(captures, files)) <= Len(captures)
           /\ \A i \in 1 .. Len(Surviving(captures, files)) : \E j \in 1 .. Len(captures) :
                Surviving(captures, files)[i] = captures[j]
  <1> DEFINE N == Len(captures)
             Body(f, n) == IF n = 0 THEN <<>>
                           ELSE IF captures[n].file \in files THEN Append(f[n - 1], captures[n])
                           ELSE f[n - 1]
             UpTo(f, n) == f = [i \in 0 .. n |-> Body(f, i)]
             Defined == {n \in 0 .. N : \E f : UpTo(f, n)}
  <1>0. N \in Nat
    OBVIOUS
  <1>1. 0 \in Defined
    <2>1. UpTo([i \in 0 .. 0 |-> <<>>], 0)
      OBVIOUS
    <2> HIDE DEF UpTo
    <2>2. QED
      BY <2>1, <1>0
  <1>2. ASSUME NEW n \in 1 .. N, n - 1 \in Defined
        PROVE  n \in Defined
    <2>1. PICK f : UpTo(f, n - 1)
      BY <1>2
    <2>2. \A i \in 0 .. n - 1 : f[i] = Body(f, i)
      BY <2>1
    <2> DEFINE g == [j \in 0 .. n |-> Body(f, j)]
    <2>3. ASSUME NEW i \in 0 .. n
          PROVE  Body(g, i) = Body(f, i)
      <3>1. CASE i = 0
        BY <3>1
      <3>2. CASE i # 0
        <4>1. i - 1 \in 0 .. n - 1
          BY <3>2
        <4>2. g[i - 1] = f[i - 1]
          BY <4>1, <2>2
        <4>3. QED
          BY <4>2
      <3>3. QED
        BY <3>1, <3>2
    <2>4. UpTo(g, n)
      BY <2>3
    <2>5. QED
      <3> HIDE DEF UpTo, g
      <3>1. QED
        BY <2>4
  <1>3. N \in Defined
    <2> HIDE DEF Defined
    <2>1. 0 .. N \subseteq Defined
      <3> HIDE DEF N
      <3>1. QED
        BY <1>0, <1>1, <1>2, UpToInduction
    <2>2. QED
      BY <2>1, <1>0
  <1> DEFINE kept == CHOOSE f : UpTo(f, N)
  <1>4. UpTo(kept, N)
    <2> HIDE DEF UpTo
    <2>1. QED
      BY <1>3
  <1>5. Surviving(captures, files) = kept[N]
    BY DEF Surviving
  <1> DEFINE Right == {n \in 0 .. N :
                         /\ kept[n] \in Seq(Files) /\ Len(kept[n]) <= n
                         /\ \A i \in 1 .. Len(kept[n]) : \E j \in 1 .. n : kept[n][i] = captures[j]}
  <1> HIDE DEF kept
  <1>6. \A n \in 0 .. N : kept[n] = Body(kept, n)
    BY <1>4
  <1>7. 0 \in Right
    <2>1. kept[0] = <<>> /\ 0 \in 0 .. N
      BY <1>6, <1>0
    <2>2. kept[0] \in Seq(Files) /\ Len(kept[0]) = 0
      BY <2>1
    <2>3. 0 \in 0 .. N
      BY <1>0
    <2>4. \A i \in 1 .. Len(kept[0]) : \E j \in 1 .. 0 : kept[0][i] = captures[j]
      BY <2>2
    <2>5. QED
      BY <2>2, <2>3, <2>4
  <1>8. ASSUME NEW n \in 1 .. N, n - 1 \in Right
        PROVE  n \in Right
    <2>1. n \in 0 .. N /\ n # 0 /\ n - 1 \in Nat /\ captures[n] \in Files
      BY <1>0
    <2>2. CASE captures[n].file \in files
      <3>1. kept[n] = Append(kept[n - 1], captures[n])
        BY <1>6, <2>1, <2>2
      <3>2. kept[n] \in Seq(Files) /\ Len(kept[n]) = Len(kept[n - 1]) + 1
        BY <3>1, <1>8, <2>1
      <3>3. ASSUME NEW i \in 1 .. Len(kept[n])
            PROVE  \E j \in 1 .. n : kept[n][i] = captures[j]
        <4>1. CASE i = Len(kept[n])
          BY <3>1, <3>2, <1>8, <4>1
        <4>2. CASE i # Len(kept[n])
          <5>1. i \in 1 .. Len(kept[n - 1]) /\ kept[n][i] = kept[n - 1][i]
            BY <3>1, <3>2, <1>8, <4>2
          <5>2. PICK j \in 1 .. n - 1 : kept[n - 1][i] = captures[j]
            BY <5>1, <1>8
          <5>3. QED
            BY <5>1, <5>2
        <4>3. QED
          BY <4>1, <4>2
      <3>4. QED
        BY <3>2, <3>3, <1>8, <2>1
    <2>3. CASE captures[n].file \notin files
      <3>1. kept[n] = kept[n - 1]
        BY <1>6, <2>1, <2>3
      <3>2. QED
        BY <3>1, <1>8, <2>1
    <2>4. QED
      BY <2>2, <2>3
  <1>9. N \in Right
    <2> HIDE DEF Right
    <2>1. 0 .. N \subseteq Right
      <3> HIDE DEF N
      <3>1. QED
        BY <1>0, <1>7, <1>8, UpToInduction
    <2>2. QED
      BY <2>1, <1>0
  <1>10. QED
    BY <1>9, <1>5

-----------------------------------------------------------------------------
(* Types.  What a socket carries, and what each end knows.                 *)

Entry   == [file : Ids, retrieved : BOOLEAN]
Status  == [Drivers -> 0 .. MaxDriverChanges]
SentRec == [captures : 0 .. MaxCaptures, children : 0 .. MaxChildren, drivers : Status,
            windows : 0 .. MaxWindows, progress : Progress]
ViewRec == [captures : Seq(Ids), children : Nat, drivers : Status,
            windows : 0 .. MaxWindows, progress : Progress]

Command ==
    [type : {"Handshake"}, version : Nat] \cup [type : {"Trigger", "Queue", "Cycle"}]
      \cup [type : {"Delete"}, id : Nat, file : Ids]
      \cup [type : {"Copy"}, id : Nat, path : Paths, file : Ids]

Packet ==
    [type : {"Handshake", "NewChild", "RequestShow"}]
      \cup [type : {"Busy"}, name : Clients \cup {NoClient}]
      \cup [type : {"APIUse"}, driver : Drivers, status : 0 .. MaxDriverChanges]
      \cup [type : {"NewCapture"}, id : Ids, file : Ids]
      \cup [type : {"Progress"}, progress : Progress]
      \cup [type : {"Windows"}, windows : 0 .. MaxWindows]
      \cup [type : {"Copy"}, id : Nat, path : Paths, file : Ids]

LEMMA Bounds ==
    /\ MaxCaptures \in Nat /\ MaxChildren \in Nat /\ MaxDriverChanges \in Nat
    /\ MaxWindows \in Nat /\ MaxCommands \in Nat
    /\ MaxQueue \in Nat /\ MaxQueue >= 1
  BY BoundsAssumption

LEMMA CommandFields ==
    ASSUME NEW cmd \in Command
    PROVE  /\ cmd.type \in {"Handshake", "Trigger", "Queue", "Cycle", "Delete", "Copy"}
           /\ cmd.type \in {"Delete", "Copy"} => cmd.id \in Nat /\ cmd.file \in Ids
           /\ cmd.type = "Copy" => cmd.path \in Paths
  BY DEF Command

LEMMA CommandsMade ==
    /\ \A v \in Nat : [type |-> "Handshake", version |-> v] \in Command
    /\ \A t \in {"Trigger", "Queue", "Cycle"} : [type |-> t] \in Command
    /\ \A i \in Nat, f \in Ids : [type |-> "Delete", id |-> i, file |-> f] \in Command
    /\ \A i \in Nat, p \in Paths, f \in Ids :
         [type |-> "Copy", id |-> i, path |-> p, file |-> f] \in Command
  BY DEF Command

LEMMA PacketFields ==
    ASSUME NEW p \in Packet
    PROVE  /\ p.type = "NewCapture" => p.id \in Ids /\ p.file \in Ids
           /\ p.type = "APIUse" => p.driver \in Drivers /\ p.status \in 0 .. MaxDriverChanges
           /\ p.type = "Progress" => p.progress \in Progress
           /\ p.type = "Windows" => p.windows \in 0 .. MaxWindows
           /\ p.type = "Copy" => p.id \in Nat
  BY DEF Packet

LEMMA PacketsMade ==
    /\ \A t \in {"Handshake", "NewChild", "RequestShow"} : [type |-> t] \in Packet
    /\ \A c \in Clients \cup {NoClient} : [type |-> "Busy", name |-> c] \in Packet
    /\ \A d \in Drivers, n \in 0 .. MaxDriverChanges :
         [type |-> "APIUse", driver |-> d, status |-> n] \in Packet
    /\ \A i \in Ids, f \in Ids : [type |-> "NewCapture", id |-> i, file |-> f] \in Packet
    /\ \A p \in Progress : [type |-> "Progress", progress |-> p] \in Packet
    /\ \A n \in 0 .. MaxWindows : [type |-> "Windows", windows |-> n] \in Packet
    /\ \A i \in Nat, p \in Paths, f \in Ids :
         [type |-> "Copy", id |-> i, path |-> p, file |-> f] \in Packet
  BY DEF Packet

-----------------------------------------------------------------------------
(* Commands in flight that ask for a capture.                              *)

Requests == {"Trigger", "Queue"}
InFlightOf(commands) ==
    {at \in Clients \X Nat : /\ at[2] \in 1 .. Len(commands[at[1]])
                             /\ commands[at[1]][at[2]].type \in Requests}

\* Emptying a socket, or connecting it anew, loses commands at most.
LEMMA CommandsLost ==
    ASSUME NEW commands \in [Clients -> Seq(Command)], NEW c \in Clients,
           IsFiniteSet(InFlightOf(commands)),
           NEW q \in Seq(Command), \A i \in 1 .. Len(q) : q[i].type \notin Requests,
           NEW later, later = [commands EXCEPT ![c] = q]
    PROVE  /\ IsFiniteSet(InFlightOf(later))
           /\ Cardinality(InFlightOf(later)) <= Cardinality(InFlightOf(commands))
  <1>1. InFlightOf(later) \subseteq InFlightOf(commands)
    BY DEF InFlightOf
  <1>2. QED
    BY <1>1, FS_Subset

\* Taking the first command.
LEMMA CommandTaken ==
    ASSUME NEW commands \in [Clients -> Seq(Command)], NEW c \in Clients,
           IsFiniteSet(InFlightOf(commands)), commands[c] # <<>>,
           NEW later, later = [commands EXCEPT ![c] = Tail(@)]
    PROVE  /\ IsFiniteSet(InFlightOf(later))
           /\ Cardinality(InFlightOf(later)) <= Cardinality(InFlightOf(commands))
           /\ Head(commands[c]).type \in Requests =>
                Cardinality(InFlightOf(later)) + 1 <= Cardinality(InFlightOf(commands))
  <1> DEFINE S == InFlightOf(later)
             T == InFlightOf(commands) \ {<<c, 1>>}
             f == [at \in S |-> IF at[1] = c THEN <<c, at[2] + 1>> ELSE at]
  <1>1. /\ Len(later[c]) = Len(commands[c]) - 1 /\ Len(commands[c]) >= 1
        /\ \A i \in 1 .. Len(later[c]) : later[c][i] = commands[c][i + 1]
        /\ \A d \in Clients : d # c => later[d] = commands[d]
        /\ Head(commands[c]) = commands[c][1]
    OBVIOUS
  <1>2. ASSUME NEW at \in S
        PROVE  /\ f[at] \in T
               /\ f[at][1] = at[1]
               /\ f[at][2] = IF at[1] = c THEN at[2] + 1 ELSE at[2]
               /\ at[2] \in Nat /\ at = <<at[1], at[2]>>
    <2>1. at \in Clients \X Nat /\ at[2] \in 1 .. Len(later[at[1]])
          /\ later[at[1]][at[2]].type \in Requests
      BY DEF InFlightOf
    <2>2. CASE at[1] = c
      <3>1. f[at] = <<c, at[2] + 1>> /\ at[2] + 1 \in 1 .. Len(commands[c])
            /\ commands[c][at[2] + 1].type \in Requests
        BY <2>1, <2>2, <1>1
      <3>2. <<c, at[2] + 1>> \in InFlightOf(commands)
        <4>1. at[2] + 1 \in Nat /\ <<c, at[2] + 1>> \in Clients \X Nat
          BY <2>1
        <4>2. QED
          BY <3>1, <4>1 DEF InFlightOf
      <3>3. at[2] + 1 # 1
        BY <2>1
      <3>4. QED
        BY <3>1, <3>2, <3>3, <2>1, <2>2
    <2>3. CASE at[1] # c
      <3>1. f[at] = at
        BY <2>3
      <3>2. at \in InFlightOf(commands)
        BY <2>1, <2>3, <1>1 DEF InFlightOf
      <3>3. QED
        BY <3>1, <3>2, <2>1, <2>3
    <2>4. QED
      BY <2>2, <2>3
  <1>3. f \in Injection(S, T)
    <2>1. f \in [S -> T]
      BY <1>2
    <2>2. ASSUME NEW a \in S, NEW b \in S, f[a] = f[b]
          PROVE  a = b
      <3> HIDE DEF f, S, T
      <3>0. f[a][1] = f[b][1] /\ f[a][2] = f[b][2]
        BY <2>2
      <3>1. a[1] = b[1] /\ a[2] = b[2]
        <4>1. a[1] = b[1]
          BY <1>2, <3>0
        <4>2. a[2] \in Nat /\ b[2] \in Nat
          BY <1>2
        <4>3. (IF a[1] = c THEN a[2] + 1 ELSE a[2]) = (IF a[1] = c THEN b[2] + 1 ELSE b[2])
          BY <1>2, <3>0, <4>1
        <4>4. QED
          BY <4>1, <4>2, <4>3
      <3>2. a = <<a[1], a[2]>> /\ b = <<b[1], b[2]>>
        BY <1>2
      <3>3. QED
        BY <3>1, <3>2
    <2>3. QED
      BY <2>1, <2>2 DEF Injection, IsInjective
  <1>4. /\ IsFiniteSet(T)
        /\ Cardinality(T) = IF <<c, 1>> \in InFlightOf(commands)
                              THEN Cardinality(InFlightOf(commands)) - 1
                              ELSE Cardinality(InFlightOf(commands))
    BY FS_RemoveElement
  <1>5. IsFiniteSet(S) /\ Cardinality(S) <= Cardinality(T)
    <2> HIDE DEF f, S, T
    <2>1. QED
      BY <1>3, <1>4, FS_Injection
  <1>6. Head(commands[c]).type \in Requests => <<c, 1>> \in InFlightOf(commands)
    BY <1>1 DEF InFlightOf
  <1>7. Cardinality(S) \in Nat /\ Cardinality(InFlightOf(commands)) \in Nat
    BY <1>5, FS_CardinalityType
  <1>8. QED
    BY <1>4, <1>5, <1>6, <1>7

\* Sending one more.
LEMMA CommandPut ==
    ASSUME NEW commands \in [Clients -> Seq(Command)], NEW c \in Clients,
           IsFiniteSet(InFlightOf(commands)), NEW cmd \in Command,
           NEW later, later = [commands EXCEPT ![c] = Append(@, cmd)]
    PROVE  /\ IsFiniteSet(InFlightOf(later))
           /\ Cardinality(InFlightOf(later)) <= Cardinality(InFlightOf(commands)) + 1
           /\ cmd.type \notin Requests =>
                Cardinality(InFlightOf(later)) <= Cardinality(InFlightOf(commands))
  <1> DEFINE new == <<c, Len(commands[c]) + 1>>
  <1>1. /\ Len(later[c]) = Len(commands[c]) + 1 /\ Len(commands[c]) \in Nat
        /\ \A i \in 1 .. Len(commands[c]) : later[c][i] = commands[c][i]
        /\ later[c][Len(commands[c]) + 1] = cmd
        /\ \A d \in Clients : d # c => later[d] = commands[d]
    OBVIOUS
  <1>2. ASSUME NEW at \in InFlightOf(later), at # new
        PROVE  at \in InFlightOf(commands)
    <2>1. at \in Clients \X Nat /\ at[2] \in 1 .. Len(later[at[1]])
          /\ later[at[1]][at[2]].type \in Requests
      BY DEF InFlightOf
    <2>2. CASE at[1] = c
      <3>1. at[2] # Len(commands[c]) + 1
        BY <1>2, <2>1, <2>2
      <3>2. QED
        BY <3>1, <2>1, <2>2, <1>1 DEF InFlightOf
    <2>3. CASE at[1] # c
      BY <2>1, <2>3, <1>1 DEF InFlightOf
    <2>4. QED
      BY <2>2, <2>3
  <1>3. InFlightOf(later) \subseteq InFlightOf(commands) \cup {new}
    BY <1>2
  <1>4. cmd.type \notin Requests => new \notin InFlightOf(later)
    BY <1>1 DEF InFlightOf
  <1>5. cmd.type \notin Requests => InFlightOf(later) \subseteq InFlightOf(commands)
    BY <1>3, <1>4
  <1>6. /\ IsFiniteSet(InFlightOf(commands) \cup {new})
        /\ Cardinality(InFlightOf(commands) \cup {new}) <= Cardinality(InFlightOf(commands)) + 1
    <2> HIDE DEF new
    <2>1. Cardinality(InFlightOf(commands)) \in Nat
      BY FS_CardinalityType
    <2>2. /\ IsFiniteSet(InFlightOf(commands) \cup {new})
          /\ Cardinality(InFlightOf(commands) \cup {new})
               = IF new \in InFlightOf(commands) THEN Cardinality(InFlightOf(commands))
                                                 ELSE Cardinality(InFlightOf(commands)) + 1
      BY FS_AddElement
    <2>3. QED
      BY <2>1, <2>2
  <1> HIDE DEF new
  <1>7. /\ IsFiniteSet(InFlightOf(later))
        /\ Cardinality(InFlightOf(later)) <= Cardinality(InFlightOf(commands) \cup {new})
    BY <1>3, <1>6, FS_Subset
  <1>8. cmd.type \notin Requests =>
          Cardinality(InFlightOf(later)) <= Cardinality(InFlightOf(commands))
    BY <1>5, FS_Subset
  <1>9. Cardinality(InFlightOf(later)) \in Nat /\ Cardinality(InFlightOf(commands)) \in Nat
        /\ Cardinality(InFlightOf(commands) \cup {new}) \in Nat
    BY <1>6, <1>7, FS_CardinalityType
  <1>10. QED
    BY <1>6, <1>7, <1>8, <1>9

-----------------------------------------------------------------------------
(* Captures on their way to a UI that has seen the first `seen' of the     *)
(* `count' that were sent: they arrive in order, without gaps.  On a link  *)
(* that is up none is lost either (NoneLost).                              *)

Announces(packets, i) == packets[i].type = "NewCapture"

InOrder(seen, count, packets) ==
    /\ seen <= count
    /\ \A i \in 1 .. Len(packets) : Announces(packets, i) =>
         /\ seen < packets[i].id /\ packets[i].id <= count
         /\ \/ packets[i].id = seen + 1
            \/ \E j \in 1 .. i - 1 : Announces(packets, j) /\ packets[j].id = packets[i].id - 1
         /\ \A j \in 1 .. i - 1 : Announces(packets, j) => packets[j].id < packets[i].id

NoneLost(seen, count, packets) ==
    \/ count = seen
    \/ \E i \in 1 .. Len(packets) : Announces(packets, i) /\ packets[i].id = count

LEMMA Emptied ==
    ASSUME NEW seen, NEW count, NEW packets, InOrder(seen, count, packets)
    PROVE  InOrder(seen, count, <<>>)
  BY DEF InOrder

LEMMA OtherPosted ==
    ASSUME NEW seen \in Nat, NEW count \in Nat, NEW packets \in Seq(Packet), NEW p \in Packet,
           p.type # "NewCapture", InOrder(seen, count, packets)
    PROVE  /\ InOrder(seen, count, Append(packets, p))
           /\ NoneLost(seen, count, packets) => NoneLost(seen, count, Append(packets, p))
  <1> DEFINE more == Append(packets, p)
  <1>1. /\ Len(more) = Len(packets) + 1 /\ Len(packets) \in Nat
        /\ \A i \in 1 .. Len(packets) : more[i] = packets[i]
        /\ more[Len(packets) + 1] = p
    OBVIOUS
  <1> HIDE DEF more
  <1>2. \A i \in 1 .. Len(more) : Announces(more, i) =>
          i \in 1 .. Len(packets) /\ Announces(packets, i) /\ more[i] = packets[i]
    BY <1>1 DEF Announces
  <1>3. \A i \in 1 .. Len(packets) : Announces(packets, i) => i \in 1 .. Len(more) /\ Announces(more, i)
    BY <1>1 DEF Announces
  <1>4. ASSUME NEW i \in 1 .. Len(more), Announces(more, i)
        PROVE  /\ seen < more[i].id /\ more[i].id <= count
               /\ \/ more[i].id = seen + 1
                  \/ \E j \in 1 .. i - 1 : Announces(more, j) /\ more[j].id = more[i].id - 1
               /\ \A j \in 1 .. i - 1 : Announces(more, j) => more[j].id < more[i].id
    <2>1. i \in 1 .. Len(packets) /\ Announces(packets, i) /\ more[i] = packets[i]
      BY <1>4, <1>2
    <2>2. \A j \in 1 .. i - 1 : j \in 1 .. Len(packets) /\ more[j] = packets[j]
            /\ (Announces(more, j) <=> Announces(packets, j))
      BY <2>1, <1>1 DEF Announces
    <2>3. QED
      BY <2>1, <2>2 DEF InOrder
  <1>5. InOrder(seen, count, more)
    BY <1>4 DEF InOrder
  <1>6. NoneLost(seen, count, packets) => NoneLost(seen, count, more)
    BY <1>1, <1>3 DEF NoneLost
  <1>7. QED
    BY <1>5, <1>6 DEF more

LEMMA CapturePosted ==
    ASSUME NEW seen \in Nat, NEW count \in Nat, NEW packets \in Seq(Packet), NEW p \in Packet,
           p.type = "NewCapture", p.id = count + 1,
           InOrder(seen, count, packets), NoneLost(seen, count, packets)
    PROVE  /\ InOrder(seen, count + 1, Append(packets, p))
           /\ NoneLost(seen, count + 1, Append(packets, p))
  <1> DEFINE more == Append(packets, p)
  <1>1. /\ Len(more) = Len(packets) + 1 /\ Len(packets) \in Nat
        /\ \A i \in 1 .. Len(packets) : more[i] = packets[i]
        /\ more[Len(packets) + 1] = p
    OBVIOUS
  <1> HIDE DEF more
  <1>2. \A i \in 1 .. Len(packets) : more[i] = packets[i] /\ (Announces(more, i) <=> Announces(packets, i))
    BY <1>1 DEF Announces
  <1>3. ASSUME NEW i \in 1 .. Len(more), Announces(more, i)
        PROVE  /\ seen < more[i].id /\ more[i].id <= count + 1
               /\ \/ more[i].id = seen + 1
                  \/ \E j \in 1 .. i - 1 : Announces(more, j) /\ more[j].id = more[i].id - 1
               /\ \A j \in 1 .. i - 1 : Announces(more, j) => more[j].id < more[i].id
    <2>1. CASE i \in 1 .. Len(packets)
      <3>1. Announces(packets, i) /\ more[i] = packets[i]
        BY <1>3, <2>1, <1>2
      <3>2. \A j \in 1 .. i - 1 : j \in 1 .. Len(packets) /\ more[j] = packets[j]
              /\ (Announces(more, j) <=> Announces(packets, j))
        <4>1. \A j \in 1 .. i - 1 : j \in 1 .. Len(packets)
          BY <2>1, <1>1
        <4>2. QED
          BY <4>1, <1>1 DEF Announces
      <3>3. packets[i].id \in Nat
        BY <2>1, <3>1, PacketFields, Bounds DEF Announces, Ids
      <3>4. /\ seen < packets[i].id /\ packets[i].id <= count
            /\ \/ packets[i].id = seen + 1
               \/ \E j \in 1 .. i - 1 : Announces(packets, j) /\ packets[j].id = packets[i].id - 1
            /\ \A j \in 1 .. i - 1 : Announces(packets, j) => packets[j].id < packets[i].id
        BY <2>1, <3>1 DEF InOrder
      <3>5. \A j \in 1 .. i - 1 : Announces(more, j) => more[j].id < more[i].id
        BY <3>1, <3>2, <3>4
      <3>6. \/ more[i].id = seen + 1
            \/ \E j \in 1 .. i - 1 : Announces(more, j) /\ more[j].id = more[i].id - 1
        BY <3>1, <3>2, <3>4
      <3>7. QED
        BY <3>1, <3>3, <3>4, <3>5, <3>6
    <2>2. CASE i = Len(packets) + 1
      <3>1. more[i].id = count + 1 /\ \A j \in 1 .. i - 1 : j \in 1 .. Len(packets)
        BY <1>1, <2>2
      <3>2. \A j \in 1 .. i - 1 : Announces(more, j) => more[j].id < more[i].id
        <4> SUFFICES ASSUME NEW j \in 1 .. i - 1, Announces(more, j)
                     PROVE  more[j].id < more[i].id
          OBVIOUS
        <4>1. Announces(packets, j) /\ more[j] = packets[j] /\ packets[j].id <= count
          BY <3>1, <1>2 DEF InOrder
        <4>2. packets[j].id \in Nat
          BY <3>1, <4>1, PacketFields, Bounds DEF Announces, Ids
        <4>3. QED
          BY <3>1, <4>1, <4>2
      <3>3. \/ more[i].id = seen + 1
            \/ \E j \in 1 .. i - 1 : Announces(more, j) /\ more[j].id = more[i].id - 1
        BY <3>1, <2>2, <1>1, <1>2 DEF NoneLost
      <3>4. seen <= count
        BY DEF InOrder
      <3>5. QED
        BY <3>1, <3>2, <3>3, <3>4
    <2>3. QED
      BY <1>1, <2>1, <2>2
  <1>4. InOrder(seen, count + 1, more)
    BY <1>3 DEF InOrder
  <1>5. NoneLost(seen, count + 1, more)
    <2>1. Announces(more, Len(packets) + 1) /\ more[Len(packets) + 1].id = count + 1
      BY <1>1 DEF Announces
    <2>2. QED
      BY <2>1, <1>1 DEF NoneLost
  <1>6. QED
    BY <1>4, <1>5 DEF more

\* On a link that is down a report vanishes.
LEMMA CaptureVanishes ==
    ASSUME NEW seen \in Nat, NEW count \in Nat, NEW packets \in Seq(Packet),
           InOrder(seen, count, packets)
    PROVE  InOrder(seen, count + 1, packets)
  <1>1. \A i \in 1 .. Len(packets) : Announces(packets, i) => packets[i].id \in Nat
    BY PacketFields, Bounds DEF Announces, Ids
  <1>2. QED
    BY <1>1 DEF InOrder

\* Reading the first packet; a capture is the next one.
LEMMA FirstRead ==
    ASSUME NEW seen \in Nat, NEW count \in Nat, NEW packets \in Seq(Packet), packets # <<>>,
           InOrder(seen, count, packets),
           NEW now \in Nat,
           now = IF Head(packets).type = "NewCapture" THEN seen + 1 ELSE seen
    PROVE  /\ Head(packets).type = "NewCapture" => Head(packets).id = seen + 1
           /\ InOrder(now, count, Tail(packets))
           /\ NoneLost(seen, count, packets) => NoneLost(now, count, Tail(packets))
  <1> DEFINE rest == Tail(packets)
  <1>1. /\ Len(rest) = Len(packets) - 1 /\ Len(packets) \in Nat /\ Len(packets) >= 1
        /\ \A i \in 1 .. Len(rest) : rest[i] = packets[i + 1]
        /\ Head(packets) = packets[1]
    OBVIOUS
  <1> HIDE DEF rest
  <1>2. \A i \in 1 .. Len(packets) : Announces(packets, i) => packets[i].id \in Nat
    BY PacketFields, Bounds DEF Announces, Ids
  <1>3. \A i \in 1 .. Len(rest) : i + 1 \in 1 .. Len(packets) /\ rest[i] = packets[i + 1]
                                  /\ (Announces(rest, i) <=> Announces(packets, i + 1))
    BY <1>1 DEF Announces
  <1>4. Announces(packets, 1) => packets[1].id = seen + 1 /\ seen + 1 <= count
    BY <1>1 DEF InOrder
  <1>5. ASSUME NEW i \in 1 .. Len(rest), Announces(rest, i)
        PROVE  /\ now < rest[i].id /\ rest[i].id <= count
               /\ \/ rest[i].id = now + 1
                  \/ \E j \in 1 .. i - 1 : Announces(rest, j) /\ rest[j].id = rest[i].id - 1
               /\ \A j \in 1 .. i - 1 : Announces(rest, j) => rest[j].id < rest[i].id
    <2>1. /\ i + 1 \in 1 .. Len(packets) /\ rest[i] = packets[i + 1] /\ Announces(packets, i + 1)
          /\ packets[i + 1].id \in Nat
      BY <1>5, <1>2, <1>3
    <2>2. /\ seen < packets[i + 1].id /\ packets[i + 1].id <= count
          /\ \/ packets[i + 1].id = seen + 1
             \/ \E j \in 1 .. i : Announces(packets, j) /\ packets[j].id = packets[i + 1].id - 1
          /\ \A j \in 1 .. i : Announces(packets, j) => packets[j].id < packets[i + 1].id
      BY <2>1 DEF InOrder
    <2>3. \A j \in 1 .. i - 1 : Announces(rest, j) => rest[j].id < rest[i].id
      <3> SUFFICES ASSUME NEW j \in 1 .. i - 1, Announces(rest, j)
                   PROVE  rest[j].id < rest[i].id
        OBVIOUS
      <3>1. j \in 1 .. Len(rest) /\ j + 1 \in 1 .. i
        BY <1>1
      <3>2. rest[j] = packets[j + 1] /\ Announces(packets, j + 1)
        BY <3>1, <1>3
      <3>3. QED
        BY <3>1, <3>2, <2>1, <2>2
    <2>4. CASE Announces(packets, 1)
      <3>1. now = seen + 1 /\ packets[1].id = seen + 1 /\ packets[1].id < packets[i + 1].id
        BY <2>4, <1>1, <1>4, <2>2 DEF Announces
      <3>2. PICK j \in 1 .. i : Announces(packets, j) /\ packets[j].id = packets[i + 1].id - 1
        BY <3>1, <2>1, <2>2
      <3>3. CASE j = 1
        BY <3>1, <3>2, <3>3, <2>1, <2>2, <2>3
      <3>4. CASE j # 1
        <4>1. j - 1 \in 1 .. i - 1 /\ j - 1 \in 1 .. Len(rest) /\ (j - 1) + 1 = j
          BY <3>4, <1>1
        <4>2. rest[j - 1] = packets[j] /\ Announces(rest, j - 1)
          BY <4>1, <1>3, <3>2
        <4>3. QED
          BY <3>1, <3>2, <4>1, <4>2, <2>1, <2>2, <2>3
      <3>5. QED
        BY <3>3, <3>4
    <2>5. CASE ~Announces(packets, 1)
      <3>1. now = seen
        BY <2>5, <1>1 DEF Announces
      <3>2. CASE packets[i + 1].id = seen + 1
        BY <3>1, <3>2, <2>1, <2>2, <2>3
      <3>3. CASE packets[i + 1].id # seen + 1
        <4>1. PICK j \in 1 .. i : Announces(packets, j) /\ packets[j].id = packets[i + 1].id - 1
          BY <3>3, <2>2
        <4>2. j # 1
          BY <2>5, <4>1
        <4>3. j - 1 \in 1 .. i - 1 /\ j - 1 \in 1 .. Len(rest)
          BY <4>2, <1>1
        <4>4. (j - 1) + 1 = j
          BY <4>3
        <4>5. rest[j - 1] = packets[j] /\ Announces(rest, j - 1)
          BY <4>3, <4>4, <1>3, <4>1
        <4>6. Announces(rest, j - 1) /\ rest[j - 1].id = rest[i].id - 1
          BY <4>5, <4>1, <2>1
        <4>7. QED
          BY <3>1, <4>3, <4>6, <2>1, <2>2, <2>3
      <3>4. QED
        BY <3>2, <3>3
    <2>6. QED
      BY <2>4, <2>5
  <1>6. InOrder(now, count, rest)
    <2>1. now <= count
      BY <1>1, <1>4 DEF InOrder, Announces
    <2>2. QED
      BY <1>5, <2>1 DEF InOrder
  <1>7. ASSUME NoneLost(seen, count, packets)
        PROVE  NoneLost(now, count, rest)
    <2>1. CASE count = seen
      BY <2>1, <1>1, <1>4 DEF NoneLost, Announces
    <2>2. CASE count # seen
      <3>1. PICK i \in 1 .. Len(packets) : Announces(packets, i) /\ packets[i].id = count
        BY <1>7, <2>2 DEF NoneLost
      <3>2. CASE i = 1
        BY <3>1, <3>2, <1>1, <1>4 DEF NoneLost, Announces
      <3>3. CASE i # 1
        <4>1. i - 1 \in 1 .. Len(rest)
          BY <3>3, <1>1
        <4>2. Announces(rest, i - 1) /\ rest[i - 1].id = count
          BY <4>1, <1>3, <3>1
        <4>3. QED
          BY <4>1, <4>2 DEF NoneLost
      <3>4. QED
        BY <3>2, <3>3
    <2>3. QED
      BY <2>1, <2>2
  <1>8. Head(packets).type = "NewCapture" => Head(packets).id = seen + 1
    BY <1>1, <1>4 DEF Announces
  <1>9. QED
    BY <1>6, <1>7, <1>8 DEF rest

-----------------------------------------------------------------------------
(* The type invariant.  Beside the types, it counts: a capture that was    *)
(* asked for is in flight as a command, waits, is being made or written.   *)

RecordsTyped ==
    /\ m_Captures \in Seq(Entry) /\ Len(m_Captures) <= written
    /\ written \in Nat /\ m_Cap \in Nat /\ m_QueuedFrameCaptures \in Nat /\ requested \in Nat
    /\ capturing \in BOOLEAN /\ disk \subseteq 1 .. written
    /\ scenario \in Scenarios

LoadOf(files, writing, left, queued) == files + (IF writing THEN 1 ELSE 0) + left + queued
Load == LoadOf(written, capturing, m_Cap, m_QueuedFrameCaptures)

Counted ==
    /\ requested <= scenario.captures
    /\ IsFiniteSet(InFlightOf(toServer))
    /\ Load + Cardinality(InFlightOf(toServer)) <= requested

ApplicationTyped ==
    /\ m_Children \in 0 .. MaxChildren /\ windows \in 0 .. MaxWindows
    /\ m_ActiveDrivers \in Status
    /\ newClient \in Clients \cup {NoClient}
    /\ m_RequestControllerShow \in BOOLEAN /\ m_ControlClientThreadShutdown \in BOOLEAN
    /\ m_TargetControlThreadShutdown \in BOOLEAN
    /\ life \in {"running", "removing", "removed", "exited"}
    /\ captureProgress \in [Clients -> Progress]

EndsTyped ==
    /\ link \in [Clients -> {"closed", "up", "down"}]
    /\ ui \in [Clients -> {"idle", "waiting", "connected", "busy", "closed"}]
    /\ toServer \in [Clients -> Seq(Command)]
    /\ toUI \in [Clients -> Seq(Packet)]

QueuesBounded ==
    \A c \in Clients :
        /\ Len(toServer[c]) <= MaxCommands + 1 /\ Len(toUI[c]) <= MaxQueue + 1
        /\ link[c] = "up" => Len(toUI[c]) <= MaxQueue

KnownTyped ==
    /\ sent \in [Clients -> SentRec] /\ view \in [Clients -> ViewRec]
    /\ \A c \in Clients : sent[c].children <= m_Children
    /\ m_CaptureCopies \in [Clients -> [Ids -> Paths \cup {NoPath}]]
    /\ askedFor \subseteq Ids

\* Before it connects there is nothing to a connection.
IdleIsUntouched ==
    \A c \in Clients : ui[c] = "idle" =>
        /\ link[c] = "closed" /\ thread[c] = "none" /\ toUI[c] = <<>>
        /\ ~(serverPC \in Deciding /\ newClient = c)

\* What the UI of c saw, what is on its way, and what was sent.
ReportsArrive(c) ==
    /\ InOrder(Len(view[c].captures), sent[c].captures, toUI[c])
    /\ link[c] = "up" => NoneLost(Len(view[c].captures), sent[c].captures, toUI[c])

\* Until the loop nothing is sent; in the loop what was sent is a beginning of
\* the list of captures.
SentIsInTheList(c) ==
    /\ thread[c] \in {"none", "handshake", "setCallback", "validate"} => sent[c].captures = 0
    /\ InLoop(c) =>
         /\ sent[c].captures <= Len(m_Captures)
         /\ \A id \in 1 .. Len(view[c].captures) : m_Captures[id].file = view[c].captures[id]
         /\ \A i \in 1 .. Len(toUI[c]) : Announces(toUI[c], i) =>
              m_Captures[toUI[c][i].id].file = toUI[c][i].file

\* Commands name captures the UI saw.
CommandsSeen(c) ==
    \A i \in 1 .. Len(toServer[c]) : toServer[c][i].type \in {"Delete", "Copy"} =>
        /\ toServer[c][i].id \in 1 .. Len(view[c].captures)
        /\ toServer[c][i].file = view[c].captures[toServer[c][i].id]
        /\ toServer[c][i].file \in askedFor

Stocks ==
    /\ IInv /\ RecordsTyped /\ Counted /\ ApplicationTyped /\ EndsTyped /\ QueuesBounded
    /\ KnownTyped /\ IdleIsUntouched
    /\ \A c \in Clients : ReportsArrive(c) /\ SentIsInTheList(c) /\ CommandsSeen(c)
    /\ OnlyAskedForAreRetrieved

\* What the steps do to the load.
LEMMA LoadIsNatural ==
    ASSUME NEW w \in Nat, NEW b \in BOOLEAN, NEW a \in Nat, NEW q \in Nat
    PROVE  LoadOf(w, b, a, q) \in Nat
  BY DEF LoadOf

LEMMA LoadGrows ==
    ASSUME NEW w \in Nat, NEW b \in BOOLEAN, NEW a \in Nat, NEW q \in Nat
    PROVE  /\ LoadOf(w, b, 1, q) <= LoadOf(w, b, a, q) + 1
           /\ LoadOf(w, b, a, q + 1) <= LoadOf(w, b, a, q) + 1
           /\ LoadOf(w, b, 0, q) <= LoadOf(w, b, a, q)
  BY DEF LoadOf

LEMMA LoadBegins ==
    ASSUME NEW w \in Nat, NEW a \in Nat, NEW q \in Nat, NEW b \in Nat, NEW r \in Nat,
           b = IF a > 0 THEN a - 1 ELSE 0, r <= q, a = 0 => r < q
    PROVE  LoadOf(w, TRUE, b, r) <= LoadOf(w, FALSE, a, q)
  BY DEF LoadOf

LEMMA LoadFinishes ==
    ASSUME NEW w \in Nat, NEW a \in Nat, NEW q \in Nat, NEW v \in {w, w + 1}
    PROVE  LoadOf(v, FALSE, a, q) <= LoadOf(w, TRUE, a, q)
  BY DEF LoadOf

LEMMA LoadHoldsFiles ==
    ASSUME NEW w \in Nat, NEW b \in BOOLEAN, NEW a \in Nat, NEW q \in Nat
    PROVE  w + (IF b THEN 1 ELSE 0) <= LoadOf(w, b, a, q)
  BY DEF LoadOf

-----------------------------------------------------------------------------
(* What a step may do to the stream of reports of a connection.            *)

SameSeen(c) == view'[c].captures = view[c].captures
SameSent(c) == sent'[c].captures = sent[c].captures

StreamKept(c) == SameSeen(c) /\ SameSent(c) /\ toUI'[c] = toUI[c] /\ link'[c] = link[c]

StreamCut(c) == /\ SameSeen(c) /\ SameSent(c)
                /\ link'[c] = "down" /\ toUI'[c] \in {toUI[c], <<>>}

StreamOpened(c) == /\ SameSeen(c) /\ SameSent(c) /\ sent[c].captures = 0
                   /\ link'[c] = "up" /\ toUI[c] = <<>> /\ toUI'[c] = <<>>

PacketSent(c) ==
    /\ SameSeen(c) /\ SameSent(c)
    /\ link[c] = "up" /\ link'[c] \in {"up", "down"}
    /\ link'[c] = "up" => Len(toUI[c]) < MaxQueue
    /\ \E p \in Packet : p.type # "NewCapture" /\ toUI'[c] = Append(toUI[c], p)

CaptureReport(c) ==
    [type |-> "NewCapture", id |-> sent[c].captures + 1,
     file |-> m_Captures[sent[c].captures + 1].file]

CaptureReported(c) ==
    /\ SameSeen(c) /\ link'[c] = link[c]
    /\ InLoop(c) /\ sent[c].captures < Len(m_Captures)
    /\ sent'[c].captures = sent[c].captures + 1
    /\ \/ link[c] = "up" /\ Len(toUI[c]) < MaxQueue /\ toUI'[c] = Append(toUI[c], CaptureReport(c))
       \/ link[c] # "up" /\ toUI'[c] = toUI[c]

PacketRead(c) ==
    /\ SameSent(c) /\ link'[c] = link[c] /\ toUI[c] # <<>> /\ toUI'[c] = Tail(toUI[c])
    /\ view'[c].captures = IF Head(toUI[c]).type = "NewCapture"
                             THEN Append(view[c].captures, Head(toUI[c]).file)
                             ELSE view[c].captures

StreamMove(c) ==
    \/ StreamKept(c) \/ StreamCut(c) \/ StreamOpened(c)
    \/ PacketSent(c) \/ CaptureReported(c) \/ PacketRead(c)

LEMMA StreamsKept ==
    ASSUME UNCHANGED <<view, sent, toUI, link>>
    PROVE  \A d \in Clients : StreamMove(d)
  BY DEF StreamMove, StreamKept, SameSeen, SameSent

LEMMA StreamsCut ==
    ASSUME EndsTyped, NEW c \in Clients, UNCHANGED <<view, sent>>,
           link' = [link EXCEPT ![c] = "down"],
           toUI' = toUI \/ toUI' = [toUI EXCEPT ![c] = <<>>]
    PROVE  \A d \in Clients : StreamMove(d)
  BY DEF EndsTyped, StreamMove, StreamKept, StreamCut, SameSeen, SameSent

\* Chunk by chunk.
LEMMA StreamsSent ==
    ASSUME EndsTyped, NEW c \in Clients, NEW p \in Packet, p.type # "NewCapture",
           UNCHANGED <<view, link>>, \A d \in Clients : SameSent(d), CanSend(c),
           toUI' = IF link[c] = "up" THEN [toUI EXCEPT ![c] = Append(@, p)] ELSE toUI
    PROVE  \A d \in Clients : StreamMove(d)
  <1> SUFFICES ASSUME NEW d \in Clients
               PROVE  StreamMove(d)
    OBVIOUS
  <1>1. CASE link[c] = "up" /\ d = c
    <2>1. toUI'[c] = Append(toUI[c], p) /\ Len(toUI[c]) < MaxQueue
      BY <1>1 DEF EndsTyped, CanSend
    <2>2. PacketSent(c)
      BY <1>1, <2>1 DEF PacketSent, SameSeen
    <2>3. QED
      BY <1>1, <2>2 DEF StreamMove
  <1>2. CASE ~(link[c] = "up" /\ d = c)
    <2>1. toUI'[d] = toUI[d]
      BY <1>2 DEF EndsTyped
    <2>2. QED
      BY <2>1 DEF StreamMove, StreamKept, SameSeen
  <1>3. QED
    BY <1>1, <1>2

\* What the server thread does to the reports.
LEMMA ServerStreams ==
    ASSUME Stocks, ServerStep \/ ServerAcceptFails
    PROVE  \A d \in Clients : StreamMove(d)
  <1>1. EndsTyped
    BY DEF Stocks
  <1>2. ASSUME NEW c \in Clients, ServerAccept(c)
        PROVE  \A d \in Clients : StreamMove(d)
    <2>1. UNCHANGED <<view, sent>>
      BY <1>2 DEF ServerAccept, uiVars, threadVars
    <2>2. CASE CloseServerEnd(c)
      BY <1>1, <2>1, <2>2, StreamsCut DEF CloseServerEnd
    <2>3. CASE UNCHANGED <<link, toUI>>
      BY <2>1, <2>3, StreamsKept
    <2>4. QED
      BY <1>2, <2>2, <2>3 DEF ServerAccept
  <1>3. CASE ServerLookup \/ ServerKick \/ ServerJoin \/ ServerClaim \/ ServerSpawn
    <2>1. UNCHANGED <<view, sent, toUI, link>>
      BY <1>3 DEF ServerLookup, ServerKick, ServerJoin, ServerClaim, ServerSpawn, uiVars,
                  threadVars, socketVars
    <2>2. QED
      BY <2>1, StreamsKept
  <1>4. CASE ServerBusy
    <2>1. /\ serverPC = "busy" /\ UNCHANGED <<view, sent>>
          /\ link' = [link EXCEPT ![newClient] = "down"]
          /\ toUI' = IF link[newClient] = "up"
                       THEN [toUI EXCEPT ![newClient] =
                               Append(@, [type |-> "Busy", name |-> m_SingleClientName])]
                       ELSE toUI
      BY <1>4 DEF ServerBusy, uiVars, threadVars
    <2>2. newClient \in Clients /\ m_SingleClientName \in Clients \cup {NoClient}
      BY <2>1 DEF Stocks, IInv, ClaimantIsNew, CoreTypes, Deciding
    <2>3. CASE link[newClient] # "up"
      BY <1>1, <2>1, <2>2, <2>3, StreamsCut
    <2>4. CASE link[newClient] = "up"
      <3> DEFINE p == [type |-> "Busy", name |-> m_SingleClientName]
      <3>1. p \in Packet /\ p.type # "NewCapture"
        BY <2>2, PacketsMade
      <3>2. toUI' = [toUI EXCEPT ![newClient] = Append(@, p)]
        BY <2>1, <2>4
      <3> HIDE DEF p
      <3> SUFFICES ASSUME NEW d \in Clients
                   PROVE  StreamMove(d)
        OBVIOUS
      <3>3. CASE d = newClient
        <4>1. toUI'[d] = Append(toUI[d], p) /\ link'[d] = "down"
          BY <1>1, <2>1, <3>2, <3>3 DEF EndsTyped
        <4>2. PacketSent(d)
          BY <2>1, <2>4, <3>1, <3>3, <4>1 DEF PacketSent, SameSeen, SameSent
        <4>3. QED
          BY <4>2 DEF StreamMove
      <3>4. CASE d # newClient
        BY <1>1, <2>1, <3>2, <3>4 DEF EndsTyped, StreamMove, StreamKept, SameSeen, SameSent
      <3>5. QED
        BY <3>3, <3>4
    <2>5. QED
      BY <2>3, <2>4
  <1>5. CASE ServerStop \/ ServerAcceptFails
    <2>1. /\ UNCHANGED <<view, sent, toUI>>
          /\ link' = [c \in Clients |-> IF thread[c] = "none" /\ link[c] = "up" THEN "down"
                                                                             ELSE link[c]]
      BY <1>5 DEF ServerStop, ServerAcceptFails, CloseListener, uiVars, threadVars
    <2>2. QED
      BY <2>1 DEF StreamMove, StreamKept, StreamCut, SameSeen, SameSent
  <1>6. QED
    BY <1>2, <1>3, <1>4, <1>5 DEF ServerStep

LEMMA ReportStreams ==
    ASSUME Stocks, NEW c \in Clients, InLoop(c), Report(c), CanSend(c), UNCHANGED view
    PROVE  \A d \in Clients : StreamMove(d)
  <1>1. EndsTyped /\ sent \in [Clients -> SentRec] /\ ApplicationTyped
    BY DEF Stocks, KnownTyped
  <1>2. CASE ReportDriver(c)
    <2>1. PICK v \in Drivers :
            /\ sent' = [sent EXCEPT ![c].drivers[v] = m_ActiveDrivers[v]]
            /\ Send(c, [type |-> "APIUse", driver |-> v, status |-> m_ActiveDrivers[v]])
      BY <1>2 DEF ReportDriver
    <2> DEFINE p == [type |-> "APIUse", driver |-> v, status |-> m_ActiveDrivers[v]]
    <2>2. p \in Packet /\ p.type # "NewCapture"
      BY <1>1, PacketsMade DEF ApplicationTyped, Status
    <2>3. \A d \in Clients : SameSent(d)
      BY <1>1, <2>1 DEF SameSent, SentRec
    <2>4. UNCHANGED link /\ toUI' = IF link[c] = "up" THEN [toUI EXCEPT ![c] = Append(@, p)] ELSE toUI
      BY <2>1 DEF Send
    <2> HIDE DEF p
    <2>5. QED
      BY <1>1, <2>2, <2>3, <2>4, StreamsSent
  <1>3. CASE ReportCapture(c)
    <2>1. /\ NewCapture(c)
          /\ sent' = [sent EXCEPT ![c].captures = sent[c].captures + 1]
          /\ Send(c, CaptureReport(c))
      BY <1>3 DEF ReportCapture, CaptureReport
    <2>2. sent[c].captures < Len(m_Captures)
      <3>1. sent[c].captures # Len(m_Captures) /\ sent[c].captures <= Len(m_Captures)
        BY <2>1 DEF NewCapture, Stocks, SentIsInTheList
      <3>2. sent[c].captures \in Nat /\ Len(m_Captures) \in Nat
        BY <1>1, Bounds DEF SentRec, Stocks, RecordsTyped
      <3>3. QED
        BY <3>1, <3>2
    <2>3. UNCHANGED link /\ toUI' = IF link[c] = "up" THEN [toUI EXCEPT ![c] = Append(@, CaptureReport(c))]
                                                     ELSE toUI
      BY <2>1 DEF Send
    <2> SUFFICES ASSUME NEW d \in Clients
                 PROVE  StreamMove(d)
      OBVIOUS
    <2>4. CASE d = c
      <3>1. sent'[c].captures = sent[c].captures + 1
        BY <1>1, <2>1 DEF SentRec
      <3>2. link[c] = "up" => toUI'[c] = Append(toUI[c], CaptureReport(c)) /\ Len(toUI[c]) < MaxQueue
        BY <1>1, <2>3 DEF EndsTyped, CanSend
      <3>3. link[c] # "up" => toUI' = toUI
        BY <2>3
      <3>4. CaptureReported(c)
        BY <2>2, <2>3, <3>1, <3>2, <3>3 DEF CaptureReported, SameSeen
      <3>5. QED
        BY <2>4, <3>4 DEF StreamMove
    <2>5. CASE d # c
      <3>1. SameSent(d)
        BY <1>1, <2>1, <2>5 DEF SameSent, SentRec
      <3>2. toUI'[d] = toUI[d]
        BY <1>1, <2>3, <2>5 DEF EndsTyped
      <3>3. QED
        BY <2>3, <3>1, <3>2 DEF StreamMove, StreamKept, SameSeen
    <2>6. QED
      BY <2>4, <2>5
  <1>4. CASE ReportChild(c)
    <2> DEFINE p == [type |-> "NewChild"]
    <2>1. p \in Packet /\ p.type # "NewCapture"
      BY PacketsMade
    <2>2. \A d \in Clients : SameSent(d)
      BY <1>1, <1>4 DEF ReportChild, SameSent, SentRec
    <2>3. UNCHANGED link /\ toUI' = IF link[c] = "up" THEN [toUI EXCEPT ![c] = Append(@, p)] ELSE toUI
      BY <1>4 DEF ReportChild, Send
    <2> HIDE DEF p
    <2>4. QED
      BY <1>1, <2>1, <2>2, <2>3, StreamsSent
  <1>5. CASE ReportProgress(c)
    <2> DEFINE now == IF captureProgress[c] = "done" THEN "none" ELSE captureProgress[c]
               p == [type |-> "Progress", progress |-> now]
    <2>1. \/ sent' = [sent EXCEPT ![c].progress = now] /\ Send(c, p)
          \/ UNCHANGED <<sent, socketVars>>
      BY <1>5 DEF ReportProgress
    <2>2. now \in Progress
      BY <1>1 DEF ApplicationTyped, Progress
    <2>3. p \in Packet /\ p.type # "NewCapture"
      BY <2>2, PacketsMade
    <2> HIDE DEF now
    <2>4. CASE UNCHANGED <<sent, socketVars>>
      BY <2>4, StreamsKept DEF socketVars
    <2>5. CASE sent' = [sent EXCEPT ![c].progress = now] /\ Send(c, p)
      <3>1. \A d \in Clients : SameSent(d)
        BY <1>1, <2>5 DEF SameSent, SentRec
      <3>2. UNCHANGED link /\ toUI' = IF link[c] = "up" THEN [toUI EXCEPT ![c] = Append(@, p)] ELSE toUI
        BY <2>5 DEF Send
      <3> HIDE DEF p
      <3>3. QED
        BY <1>1, <2>3, <3>1, <3>2, StreamsSent
    <2>6. QED
      BY <2>1, <2>4, <2>5
  <1>6. CASE ReportWindows(c)
    <2> DEFINE p == [type |-> "Windows", windows |-> windows]
    <2>1. p \in Packet /\ p.type # "NewCapture"
      BY <1>1, PacketsMade DEF ApplicationTyped
    <2>2. \A d \in Clients : SameSent(d)
      BY <1>1, <1>6 DEF ReportWindows, SameSent, SentRec
    <2>3. UNCHANGED link /\ toUI' = IF link[c] = "up" THEN [toUI EXCEPT ![c] = Append(@, p)] ELSE toUI
      BY <1>6 DEF ReportWindows, Send
    <2> HIDE DEF p
    <2>4. QED
      BY <1>1, <2>1, <2>2, <2>3, StreamsSent
  <1>7. CASE ReportShow(c)
    <2> DEFINE p == [type |-> "RequestShow"]
    <2>1. p \in Packet /\ p.type # "NewCapture"
      BY PacketsMade
    <2>2. \A d \in Clients : SameSent(d)
      BY <1>7 DEF ReportShow, SameSent
    <2>3. UNCHANGED link /\ toUI' = IF link[c] = "up" THEN [toUI EXCEPT ![c] = Append(@, p)] ELSE toUI
      BY <1>7 DEF ReportShow, Send
    <2> HIDE DEF p
    <2>4. QED
      BY <1>1, <2>1, <2>2, <2>3, StreamsSent
  <1>8. CASE ReportNothing(c)
    BY <1>8, StreamsKept DEF ReportNothing, socketVars
  <1>9. QED
    BY <1>2, <1>3, <1>4, <1>5, <1>6, <1>7, <1>8 DEF Report

\* What a client thread does to them.
LEMMA ThreadStreams ==
    ASSUME Stocks, NEW c \in Clients, ThreadStep(c)
    PROVE  \A d \in Clients : StreamMove(d)
  <1>1. EndsTyped
    BY DEF Stocks
  <1>2. ASSUME CloseServerEnd(c), UNCHANGED <<view, sent>>
        PROVE  \A d \in Clients : StreamMove(d)
    BY <1>1, <1>2, StreamsCut DEF CloseServerEnd
  <1>3. CASE ThreadHandshake(c)
    <2>1. UNCHANGED <<view, sent>> /\ CanSend(c)
      BY <1>3 DEF ThreadHandshake, uiVars
    <2> DEFINE p == [type |-> "Handshake"]
    <2>2. CASE Send(c, p)
      <3>1. p \in Packet /\ p.type # "NewCapture"
        BY PacketsMade
      <3>2. UNCHANGED link /\ toUI' = IF link[c] = "up" THEN [toUI EXCEPT ![c] = Append(@, p)] ELSE toUI
        BY <2>2 DEF Send
      <3>3. \A d \in Clients : SameSent(d)
        BY <2>1 DEF SameSent
      <3> HIDE DEF p
      <3>4. QED
        BY <1>1, <2>1, <3>1, <3>2, <3>3, StreamsSent
    <2>3. CASE CloseServerEnd(c)
      BY <1>2, <2>1, <2>3
    <2>4. QED
      BY <1>3, <2>2, <2>3 DEF ThreadHandshake
  <1>4. CASE ThreadSetCallback(c) \/ ThreadValidate(c) \/ ThreadClearCallback(c) \/ ThreadClearName(c)
    <2>1. UNCHANGED <<view, sent, toUI, link>>
      BY <1>4 DEF ThreadSetCallback, ThreadValidate, ThreadClearCallback, ThreadClearName, uiVars,
                  socketVars
    <2>2. QED
      BY <2>1, StreamsKept
  <1>5. CASE ThreadTick(c)
    <2>1. UNCHANGED view /\ InLoop(c)
      BY <1>5 DEF ThreadTick, uiVars, InLoop
    <2>2. CASE CloseServerEnd(c) /\ UNCHANGED sent
      BY <1>2, <2>1, <2>2
    <2>3. CASE CanSend(c) /\ Report(c)
      BY <2>1, <2>3, ReportStreams
    <2>4. QED
      BY <1>5, <2>2, <2>3 DEF ThreadTick
  <1>6. CASE ThreadCommand(c)
    <2>1. UNCHANGED <<view, sent>> /\ thread[c] = "command"
      BY <1>6 DEF ThreadCommand, uiVars
    <2>2. CASE CloseServerEnd(c)
      BY <1>2, <2>1, <2>2
    <2>3. CASE UNCHANGED <<toUI, link>>
      BY <2>1, <2>3, StreamsKept
    <2>4. ASSUME toServer[c] # <<>>, HandleCopy(c, Head(toServer[c])), ~CloseServerEnd(c),
                 ~UNCHANGED <<toUI, link>>
          PROVE  \A d \in Clients : StreamMove(d)
      <3> DEFINE cmd == Head(toServer[c])
                 p == [type |-> "Copy", id |-> cmd.id, path |-> cmd.path,
                       file |-> m_Captures[cmd.id].file]
      <3>1. /\ cmd.type = "Copy" /\ cmd.id <= Len(m_Captures) /\ CanSend(c) /\ UNCHANGED link
            /\ toUI' = IF link[c] # "up" THEN toUI ELSE [toUI EXCEPT ![c] = Append(@, p)]
        BY <2>4 DEF HandleCopy
      <3>2. cmd = toServer[c][1] /\ cmd \in Command /\ 1 \in 1 .. Len(toServer[c])
        BY <1>1, <2>4 DEF EndsTyped
      <3>3. cmd.id \in Nat /\ cmd.path \in Paths /\ cmd.id \in 1 .. Len(view[c].captures)
        <4> HIDE DEF cmd
        <4>1. cmd.id \in Nat /\ cmd.path \in Paths
          BY <3>1, <3>2, CommandFields
        <4>2. cmd.id \in 1 .. Len(view[c].captures)
          BY <3>1, <3>2 DEF Stocks, CommandsSeen
        <4>3. QED
          BY <4>1, <4>2
      <3>4. m_Captures[cmd.id].file \in Ids
        <4> HIDE DEF cmd
        <4>1. m_Captures \in Seq(Entry) /\ cmd.id \in 1 .. Len(m_Captures)
          BY <3>1, <3>3 DEF Stocks, RecordsTyped
        <4>2. m_Captures[cmd.id] \in Entry
          BY <4>1
        <4>3. QED
          BY <4>2 DEF Entry
      <3>5. p \in Packet /\ p.type # "NewCapture"
        BY <3>3, <3>4, PacketsMade
      <3>6. \A d \in Clients : SameSent(d)
        BY <2>1 DEF SameSent
      <3>7. toUI' = IF link[c] = "up" THEN [toUI EXCEPT ![c] = Append(@, p)] ELSE toUI
        BY <3>1
      <3> HIDE DEF p, cmd
      <3>8. QED
        BY <1>1, <2>1, <3>1, <3>5, <3>6, <3>7, StreamsSent
    <2>5. QED
      BY <1>6, <2>2, <2>3, <2>4 DEF ThreadCommand, HandleCapture, HandleDelete, HandleCopy, socketVars
  <1>7. QED
    BY <1>3, <1>4, <1>5, <1>6 DEF ThreadStep

LEMMA UIStreams ==
    ASSUME Stocks, NEW c \in Clients, UIStep(c) \/ Break(c)
    PROVE  \A d \in Clients : StreamMove(d)
  <1>1. EndsTyped /\ view \in [Clients -> ViewRec]
    BY DEF Stocks, KnownTyped
  <1>2. CASE UIConnect(c)
    <2>1. /\ ui[c] = "idle" /\ link' = [link EXCEPT ![c] = "up"] /\ UNCHANGED <<toUI, view, sent>>
      BY <1>2 DEF UIConnect, appSide, threadVars
    <2>2. toUI[c] = <<>> /\ sent[c].captures = 0
      BY <2>1 DEF Stocks, IdleIsUntouched, SentIsInTheList
    <2>3. StreamOpened(c)
      BY <1>1, <2>1, <2>2 DEF StreamOpened, SameSeen, SameSent, EndsTyped
    <2>4. \A d \in Clients \ {c} : StreamKept(d)
      BY <1>1, <2>1 DEF StreamKept, SameSeen, SameSent, EndsTyped
    <2>5. QED
      BY <2>3, <2>4 DEF StreamMove
  <1>3. CASE UILost(c) \/ UIShutdown(c)
    <2>1. CloseUIEnd(c) /\ UNCHANGED <<view, sent>>
      BY <1>3 DEF UILost, UIShutdown, appSide, threadVars
    <2>2. QED
      BY <1>1, <2>1, StreamsCut DEF CloseUIEnd
  <1>4. CASE UIHandshake(c)
    <2>1. /\ toUI[c] # <<>> /\ Head(toUI[c]).type \in {"Handshake", "Busy"}
          /\ toUI' = [toUI EXCEPT ![c] = Tail(@)] /\ UNCHANGED <<view, sent, link>>
      BY <1>4 DEF UIHandshake, appSide, threadVars
    <2>2. PacketRead(c)
      BY <1>1, <2>1 DEF PacketRead, SameSent, EndsTyped
    <2>3. \A d \in Clients \ {c} : StreamKept(d)
      BY <1>1, <2>1 DEF StreamKept, SameSeen, SameSent, EndsTyped
    <2>4. QED
      BY <2>2, <2>3 DEF StreamMove
  <1>5. CASE UIReceive(c)
    <2>1. /\ toUI[c] # <<>> /\ toUI' = [toUI EXCEPT ![c] = Tail(@)] /\ UNCHANGED <<sent, link>>
      BY <1>5 DEF UIReceive, appSide, threadVars
    <2> DEFINE packet == Head(toUI[c])
    <2>2. /\ packet.type = "NewCapture" => view'[c].captures = Append(view[c].captures, packet.file)
          /\ packet.type # "NewCapture" => view'[c].captures = view[c].captures
          /\ \A d \in Clients \ {c} : view'[d].captures = view[d].captures
      BY <1>1, <1>5 DEF UIReceive, ViewRec
    <2>3. PacketRead(c)
      BY <1>1, <2>1, <2>2 DEF PacketRead, SameSent, EndsTyped
    <2>4. \A d \in Clients \ {c} : StreamKept(d)
      BY <1>1, <2>1, <2>2 DEF StreamKept, SameSeen, SameSent, EndsTyped
    <2>5. QED
      BY <2>3, <2>4 DEF StreamMove
  <1>6. CASE UIRequest(c) \/ UIDelete(c) \/ UICopy(c)
    <2>1. UNCHANGED <<view, sent, toUI, link>>
      BY <1>6 DEF UIRequest, UIDelete, UICopy, UISend, appSide, threadVars
    <2>2. QED
      BY <2>1, StreamsKept
  <1>7. CASE Break(c)
    <2>1. /\ link' = [link EXCEPT ![c] = "down"] /\ UNCHANGED <<view, sent>>
          /\ toUI' = toUI \/ toUI' = [toUI EXCEPT ![c] = <<>>]
      BY <1>7 DEF Break, uiVars, threadVars
    <2>2. QED
      BY <1>1, <2>1, StreamsCut
  <1>8. QED
    BY <1>2, <1>3, <1>4, <1>5, <1>6, <1>7 DEF UIStep, UIReads

LEMMA Streams ==
    ASSUME Stocks, [Next]_vars
    PROVE  \A d \in Clients : StreamMove(d)
  <1>1. CASE AppStep
    <2>1. UNCHANGED <<view, sent, toUI, link>>
      BY <1>1 DEF AppStep, KeyTrigger, BeginCapture, FinishCaptureWriting, AddChildProcess,
                  DriverChanges, WindowsChange, ShowReplayUI, FileDeleted, RemoveHooks,
                  RemoveHooksReturns, Exit, uiVars, socketVars, threadVars
    <2>2. QED
      BY <2>1, StreamsKept
  <1>2. CASE UNCHANGED vars
    BY <1>2, StreamsKept DEF vars, uiVars, socketVars, threadVars
  <1>3. QED
    BY <1>1, <1>2, ServerStreams, ThreadStreams, UIStreams DEF Next

\* Every capture was asked for, so there are at most MaxCaptures.
LEMMA WrittenBounded ==
    ASSUME Stocks
    PROVE  /\ written \in 0 .. MaxCaptures
           /\ capturing => written + 1 \in Ids
           /\ Len(m_Captures) \in 0 .. MaxCaptures
  <1>1. /\ requested \in Nat /\ requested <= scenario.captures
        /\ scenario.captures \in 0 .. MaxCaptures
    BY ScenariosAssumption DEF Stocks, RecordsTyped, Counted
  <1>2. Cardinality(InFlightOf(toServer)) \in Nat
    BY FS_CardinalityType DEF Stocks, Counted
  <1>3. /\ written \in Nat /\ m_Cap \in Nat /\ m_QueuedFrameCaptures \in Nat /\ capturing \in BOOLEAN
        /\ Len(m_Captures) \in Nat /\ Len(m_Captures) <= written
    BY DEF Stocks, RecordsTyped
  <1>4. Load + Cardinality(InFlightOf(toServer)) <= requested
    BY DEF Stocks, Counted
  <1>5. written + (IF capturing THEN 1 ELSE 0) <= Load /\ Load \in Nat
    BY <1>3, LoadIsNatural, LoadHoldsFiles DEF Load
  <1>6. written + (IF capturing THEN 1 ELSE 0) <= MaxCaptures
    BY <1>1, <1>2, <1>3, <1>4, <1>5, Bounds
  <1>7. QED
    BY <1>1, <1>3, <1>6, Bounds DEF Ids

LEMMA ReportIsPacket ==
    ASSUME Stocks, NEW c \in Clients, CaptureReported(c)
    PROVE  CaptureReport(c) \in Packet
  <1> DEFINE next == sent[c].captures + 1
  <1>1. sent[c].captures \in Nat
    BY Bounds DEF Stocks, KnownTyped, SentRec
  <1>2. next \in 1 .. Len(m_Captures) /\ Len(m_Captures) \in 0 .. MaxCaptures
    BY <1>1, WrittenBounded DEF CaptureReported
  <1>3. next \in Ids
    BY <1>2, Bounds DEF Ids
  <1>4. m_Captures[next] \in Entry
    BY <1>2 DEF Stocks, RecordsTyped
  <1>5. m_Captures[next].file \in Ids
    BY <1>4 DEF Entry
  <1>6. QED
    BY <1>3, <1>5, PacketsMade DEF CaptureReport

LEMMA StreamTyped ==
    ASSUME Stocks, NEW c \in Clients, StreamMove(c)
    PROVE  toUI'[c] \in Seq(Packet) /\ view'[c].captures \in Seq(Ids)
  <1>1. toUI[c] \in Seq(Packet) /\ view[c].captures \in Seq(Ids)
    BY DEF Stocks, EndsTyped, KnownTyped, ViewRec
  <1>2. CASE StreamKept(c) \/ StreamCut(c) \/ StreamOpened(c)
    <2>1. <<>> \in Seq(Packet)
      OBVIOUS
    <2>2. QED
      BY <1>1, <1>2, <2>1 DEF StreamKept, StreamCut, StreamOpened, SameSeen
  <1>2a. CASE PacketSent(c)
    <2>1. PICK p \in Packet : toUI'[c] = Append(toUI[c], p)
      BY <1>2a DEF PacketSent
    <2>2. QED
      BY <1>1, <1>2a, <2>1 DEF PacketSent, SameSeen
  <1>3. CASE CaptureReported(c)
    <2>1. view'[c].captures = view[c].captures
      BY <1>3 DEF CaptureReported, SameSeen
    <2>2. CASE toUI'[c] = Append(toUI[c], CaptureReport(c))
      <3>1. CaptureReport(c) \in Packet
        BY <1>3, ReportIsPacket DEF CaptureReported
      <3>2. QED
        BY <1>1, <2>1, <2>2, <3>1
    <2>3. CASE toUI'[c] = toUI[c]
      BY <1>1, <2>1, <2>3
    <2>4. QED
      BY <1>3, <2>2, <2>3 DEF CaptureReported
  <1>4. CASE PacketRead(c)
    <2>1. toUI[c] # <<>> /\ toUI'[c] = Tail(toUI[c])
      BY <1>4 DEF PacketRead
    <2>2. Head(toUI[c]) \in Packet
      BY <1>1, <2>1
    <2>3. Head(toUI[c]).type = "NewCapture" => Head(toUI[c]).file \in Ids
      BY <2>2, PacketFields
    <2>4. QED
      BY <1>1, <1>4, <2>1, <2>3 DEF PacketRead
  <1>5. QED
    BY <1>2, <1>2a, <1>3, <1>4 DEF StreamMove

\* The reports stay in order and complete whatever happens.
LEMMA ReportsKept ==
    ASSUME Stocks, NEW c \in Clients, StreamMove(c)
    PROVE  ReportsArrive(c)'
  <1> DEFINE seen == Len(view[c].captures)
             count == sent[c].captures
  <1>1. /\ toUI[c] \in Seq(Packet) /\ view[c].captures \in Seq(Ids)
        /\ seen \in Nat /\ count \in Nat
        /\ InOrder(seen, count, toUI[c])
        /\ link[c] = "up" => NoneLost(seen, count, toUI[c])
    BY Bounds DEF Stocks, EndsTyped, KnownTyped, ViewRec, SentRec, ReportsArrive
  <1>2. ReportsArrive(c)' <=>
          /\ InOrder(Len(view'[c].captures), sent'[c].captures, toUI'[c])
          /\ link'[c] = "up" => NoneLost(Len(view'[c].captures), sent'[c].captures, toUI'[c])
    BY DEF ReportsArrive, InOrder, NoneLost, Announces
  <1> HIDE DEF seen, count
  <1>3. CASE StreamKept(c)
    BY <1>1, <1>2, <1>3 DEF StreamKept, SameSeen, SameSent, seen, count
  <1>4. CASE StreamCut(c)
    <2>1. InOrder(seen, count, <<>>)
      BY <1>1, Emptied
    <2>2. QED
      BY <1>1, <1>2, <1>4, <2>1 DEF StreamCut, SameSeen, SameSent, seen, count
  <1>5. CASE StreamOpened(c)
    <2>1. seen = 0 /\ count = 0
      BY <1>1, <1>5 DEF StreamOpened, InOrder, count
    <2>2. NoneLost(seen, count, <<>>)
      BY <2>1 DEF NoneLost
    <2>3. QED
      BY <1>1, <1>2, <1>5, <2>2 DEF StreamOpened, SameSeen, SameSent, seen, count
  <1>6. CASE PacketSent(c)
    <2>1. PICK p \in Packet : p.type # "NewCapture" /\ toUI'[c] = Append(toUI[c], p)
      BY <1>6 DEF PacketSent
    <2>2. InOrder(seen, count, Append(toUI[c], p)) /\ NoneLost(seen, count, Append(toUI[c], p))
      BY <1>1, <1>6, <2>1, OtherPosted DEF PacketSent
    <2>3. QED
      BY <1>2, <1>6, <2>1, <2>2 DEF PacketSent, SameSeen, SameSent, seen, count
  <1>7. CASE CaptureReported(c)
    <2>1. CASE link[c] = "up"
      <3>1. CaptureReport(c).type = "NewCapture" /\ CaptureReport(c).id = count + 1
        BY DEF CaptureReport, count
      <3>2. CaptureReport(c) \in Packet
        BY <1>7, ReportIsPacket
      <3>3. InOrder(seen, count + 1, Append(toUI[c], CaptureReport(c)))
            /\ NoneLost(seen, count + 1, Append(toUI[c], CaptureReport(c)))
        BY <1>1, <2>1, <3>1, <3>2, CapturePosted
      <3>4. QED
        BY <1>2, <1>7, <2>1, <3>3 DEF CaptureReported, SameSeen, seen, count
    <2>2. CASE link[c] # "up"
      <3>1. InOrder(seen, count + 1, toUI[c])
        BY <1>1, CaptureVanishes
      <3>2. QED
        BY <1>2, <1>7, <2>2, <3>1 DEF CaptureReported, SameSeen, seen, count
    <2>3. QED
      BY <2>1, <2>2
  <1>8. CASE PacketRead(c)
    <2> DEFINE now == IF Head(toUI[c]).type = "NewCapture" THEN seen + 1 ELSE seen
    <2>1. now \in Nat
      BY <1>1
    <2>2. InOrder(now, count, Tail(toUI[c]))
          /\ (NoneLost(seen, count, toUI[c]) => NoneLost(now, count, Tail(toUI[c])))
      <3>1. toUI[c] # <<>>
        BY <1>8 DEF PacketRead
      <3> HIDE DEF now
      <3>2. now = IF Head(toUI[c]).type = "NewCapture" THEN seen + 1 ELSE seen
        BY DEF now
      <3>3. QED
        BY <1>1, <2>1, <3>1, <3>2, FirstRead
    <2>3. Len(view'[c].captures) = now
      <3>1. toUI[c] # <<>>
        BY <1>8 DEF PacketRead
      <3>2. Head(toUI[c]) \in Packet
        BY <1>1, <3>1
      <3>3. Head(toUI[c]).type = "NewCapture" => Head(toUI[c]).file \in Ids
        BY <3>2, PacketFields
      <3>4. QED
        BY <1>1, <1>8, <3>3 DEF PacketRead, seen
    <2>4. QED
      BY <1>1, <1>2, <1>8, <2>2, <2>3 DEF PacketRead, SameSent, count
  <1>9. QED
    BY <1>3, <1>4, <1>5, <1>6, <1>7, <1>8 DEF StreamMove

-----------------------------------------------------------------------------
(* The list of captures: it is appended to, marked, or, by the thread that *)
(* starts to serve, compacted.                                             *)

ListKept == m_Captures' = m_Captures

ListGrown ==
    /\ capturing /\ written' = written + 1
    /\ m_Captures' = Append(m_Captures, [file |-> written + 1, retrieved |-> FALSE])

\* Some thread in its loop handles a command for the capture of that id.
ListMarked ==
    \E c \in Clients, id \in Nat :
        /\ m_Captures' = IF id \in 1 .. Len(m_Captures)
                           THEN [m_Captures EXCEPT ![id].retrieved = TRUE] ELSE m_Captures
        /\ InLoop(c) /\ id \in 1 .. Len(view[c].captures)
        /\ view[c].captures[id] \in askedFor

ListCompacted ==
    \E c \in Clients : thread[c] = "validate" /\ m_Captures' = Surviving(m_Captures, disk)

ListMove == ListKept \/ ListGrown \/ ListMarked \/ ListCompacted

LEMMA ThreadList ==
    ASSUME Stocks, NEW c \in Clients, ThreadStep(c)
    PROVE  ListMove /\ (ListCompacted \/ ListKept \/ ListMarked)
  <1>1. CASE ThreadHandshake(c) \/ ThreadSetCallback(c) \/ ThreadTick(c) \/ ThreadClearCallback(c)
             \/ ThreadClearName(c)
    BY <1>1 DEF ThreadHandshake, ThreadSetCallback, ThreadTick, ThreadClearCallback, ThreadClearName,
                recordVars, ListMove, ListKept
  <1>2. CASE ThreadValidate(c)
    BY <1>2 DEF ThreadValidate, ValidateCaptures, ListMove, ListCompacted
  <1>3. CASE ThreadCommand(c)
    <2>1. CASE m_Captures' = m_Captures
      BY <2>1 DEF ListMove, ListKept
    <2>2. CASE m_Captures' # m_Captures
      <3> DEFINE cmd == Head(toServer[c])
      <3>1. /\ thread[c] = "command" /\ toServer[c] # <<>> /\ cmd.type \in {"Delete", "Copy"}
            /\ MarkCaptureRetrieved(cmd.id)
        BY <1>3, <2>2 DEF ThreadCommand, HandleCapture, HandleDelete, HandleCopy
      <3>2. cmd = toServer[c][1] /\ cmd \in Command /\ 1 \in 1 .. Len(toServer[c])
        BY <3>1 DEF Stocks, EndsTyped
      <3> HIDE DEF cmd
      <3>3. cmd.id \in Nat
        BY <3>1, <3>2, CommandFields
      <3>4. /\ cmd.id \in 1 .. Len(view[c].captures) /\ view[c].captures[cmd.id] \in askedFor
        BY <3>1, <3>2 DEF Stocks, CommandsSeen
      <3>5. ListMarked
        BY <3>1, <3>3, <3>4 DEF ListMarked, MarkCaptureRetrieved, InLoop
      <3>6. QED
        BY <3>5 DEF ListMove
    <2>3. QED
      BY <2>1, <2>2
  <1>4. QED
    BY <1>1, <1>2, <1>3 DEF ThreadStep

LEMMA Lists ==
    ASSUME Stocks, [Next]_vars
    PROVE  ListMove
  <1>1. CASE AppStep
    <2>1. CASE FinishCaptureWriting
      BY <2>1 DEF FinishCaptureWriting, ListMove, ListKept, ListGrown
    <2>2. CASE ~FinishCaptureWriting
      BY <1>1, <2>2 DEF AppStep, KeyTrigger, BeginCapture, AddChildProcess, DriverChanges,
                  WindowsChange, ShowReplayUI, FileDeleted, RemoveHooks, RemoveHooksReturns, Exit,
                  recordVars, ListMove, ListKept
    <2>3. QED
      BY <2>1, <2>2
  <1>2. CASE ServerStep \/ ServerAcceptFails
    BY <1>2 DEF ServerStep, ServerAccept, ServerLookup, ServerKick, ServerJoin, ServerClaim,
                ServerSpawn, ServerBusy, ServerStop, ServerAcceptFails, CloseListener, recordVars,
                ListMove, ListKept
  <1>3. ASSUME NEW c \in Clients, UIStep(c) \/ Break(c)
        PROVE  ListMove
    BY <1>3 DEF UIStep, UIConnect, UIReads, UIHandshake, UIReceive, UILost, UIRequest, UIDelete,
                UICopy, UISend, UIShutdown, Break, appSide, recordVars, ListMove, ListKept
  <1>4. CASE UNCHANGED vars
    BY <1>4 DEF vars, recordVars, ListMove, ListKept
  <1>5. QED
    BY <1>1, <1>2, <1>3, <1>4, ThreadList DEF Next

\* Files keep their positions, unless the list is compacted.
LEMMA PositionsKept ==
    ASSUME Stocks, ListMove, ~ListCompacted
    PROVE  /\ Len(m_Captures) \in Nat /\ Len(m_Captures') \in Nat
           /\ Len(m_Captures) <= Len(m_Captures')
           /\ \A id \in 1 .. Len(m_Captures) : m_Captures'[id].file = m_Captures[id].file
  <1>1. m_Captures \in Seq(Entry)
    BY DEF Stocks, RecordsTyped
  <1>2. CASE ListKept
    BY <1>1, <1>2 DEF ListKept
  <1>3. CASE ListGrown
    BY <1>1, <1>3 DEF ListGrown
  <1>4. CASE ListMarked
    <2>1. PICK id \in Nat : m_Captures' = IF id \in 1 .. Len(m_Captures)
                              THEN [m_Captures EXCEPT ![id].retrieved = TRUE] ELSE m_Captures
      BY <1>4 DEF ListMarked
    <2>2. \A i \in 1 .. Len(m_Captures) : m_Captures[i] \in Entry
      BY <1>1
    <2>3. Len(m_Captures') = Len(m_Captures)
      BY <1>1, <2>1
    <2>4. \A i \in 1 .. Len(m_Captures) : m_Captures'[i].file = m_Captures[i].file
      BY <1>1, <2>1, <2>2 DEF Entry
    <2>5. QED
      BY <1>1, <2>3, <2>4
  <1>5. QED
    BY <1>2, <1>3, <1>4 DEF ListMove

LEMMA ListTyped ==
    ASSUME Stocks, ListMove
    PROVE  /\ m_Captures' \in Seq(Entry)
           /\ Len(m_Captures') <= IF ListGrown THEN written + 1 ELSE written
  <1>1. m_Captures \in Seq(Entry) /\ Len(m_Captures) <= written /\ written \in Nat
    BY DEF Stocks, RecordsTyped
  <1>2. CASE ListKept
    BY <1>1, <1>2 DEF ListKept
  <1>3. CASE ListGrown
    <2>1. [file |-> written + 1, retrieved |-> FALSE] \in Entry
      BY <1>3, WrittenBounded DEF ListGrown, Entry
    <2>2. QED
      BY <1>1, <1>3, <2>1 DEF ListGrown
  <1>4. CASE ListMarked
    <2>1. PICK id \in Nat : m_Captures' = IF id \in 1 .. Len(m_Captures)
                              THEN [m_Captures EXCEPT ![id].retrieved = TRUE] ELSE m_Captures
      BY <1>4 DEF ListMarked
    <2>2. CASE id \in 1 .. Len(m_Captures)
      <3>1. m_Captures[id] \in Entry
        BY <1>1, <2>2
      <3>2. [m_Captures[id] EXCEPT !.retrieved = TRUE] \in Entry
        BY <3>1 DEF Entry
      <3>3. QED
        BY <1>1, <2>1, <2>2, <3>2
    <2>3. CASE id \notin 1 .. Len(m_Captures)
      BY <1>1, <2>1, <2>3
    <2>4. QED
      BY <2>2, <2>3
  <1>5. CASE ListCompacted
    <2>1. m_Captures' = Surviving(m_Captures, disk)
      BY <1>5 DEF ListCompacted
    <2>2. m_Captures' \in Seq(Entry) /\ Len(m_Captures') <= Len(m_Captures)
      BY <1>1, <2>1, SurvivingIs
    <2>3. QED
      BY <1>1, <2>2
  <1>6. QED
    BY <1>2, <1>3, <1>4, <1>5 DEF ListMove

\* Only the serving thread compacts the list, before its loop.
LEMMA ThreadsAdvance ==
    ASSUME Stocks, [Next]_vars, NEW d \in Clients
    PROVE  /\ thread'[d] \in {"none", "handshake", "setCallback", "validate"} =>
                thread[d] \in {"none", "handshake", "setCallback", "validate"}
           /\ InLoop(d)' => InLoop(d) \/ thread[d] = "validate"
  <1>1. thread \in [Clients -> ThreadPC]
    BY DEF Stocks, IInv, CoreTypes
  <1>2. CASE UNCHANGED thread
    BY <1>2 DEF InLoop
  <1>3. ASSUME NEW c \in Clients, ThreadStep(c)
        PROVE  \/ thread' = [thread EXCEPT ![c] = "setCallback"] /\ thread[c] = "handshake"
               \/ thread' = [thread EXCEPT ![c] = "validate"] /\ thread[c] = "setCallback"
               \/ thread' = [thread EXCEPT ![c] = "tick"] /\ thread[c] \in {"validate", "command"}
               \/ thread' = [thread EXCEPT ![c] = "command"] /\ thread[c] = "tick"
               \/ thread' = [thread EXCEPT ![c] = "clearCallback"]
               \/ thread' = [thread EXCEPT ![c] = "clearName"]
               \/ thread' = [thread EXCEPT ![c] = "done"]
    BY <1>3 DEF ThreadStep, ThreadHandshake, ThreadSetCallback, ThreadValidate, ThreadTick,
                ThreadCommand, HandleCapture, HandleDelete, HandleCopy, ThreadClearCallback,
                ThreadClearName, Goto
  <1>4. CASE \E c \in Clients : ThreadStep(c)
    BY <1>1, <1>3, <1>4 DEF InLoop
  <1>5. CASE ServerSpawn
    <2>1. thread' = [thread EXCEPT ![newClient] = "handshake"] /\ thread[newClient] = "none"
      BY <1>5 DEF ServerSpawn, Stocks, IInv, ClaimantIsNew, Deciding
    <2>2. QED
      BY <1>1, <2>1 DEF InLoop
  <1>6. CASE (ServerStep /\ ~ServerSpawn) \/ ServerAcceptFails
    BY <1>2, <1>6 DEF ServerStep, ServerAccept, ServerLookup, ServerKick, ServerJoin, ServerClaim,
                      ServerBusy, ServerStop, ServerAcceptFails, CloseListener, threadVars
  <1>7. CASE AppStep \/ (\E c \in Clients : UIStep(c) \/ Break(c))
    BY <1>2, <1>7, OthersKeepCore DEF core
  <1>8. CASE UNCHANGED vars
    BY <1>2, <1>8 DEF vars, threadVars
  <1>9. QED
    BY <1>4, <1>5, <1>6, <1>7, <1>8 DEF Next

LEMMA CompactedBeforeTheLoop ==
    ASSUME Stocks, NEW d \in Clients, InLoop(d)
    PROVE  ~ListCompacted
  BY DEF Stocks, IInv, NameHeldByServingThread, Serving, InLoop, ListCompacted

\* Sent and seen captures stay a beginning of the list.
LEMMA SentKept ==
    ASSUME Stocks, [Next]_vars, NEW d \in Clients
    PROVE  SentIsInTheList(d)'
  <1> DEFINE seen == Len(view[d].captures)
             count == sent[d].captures
  <1>1. /\ toUI[d] \in Seq(Packet) /\ view[d].captures \in Seq(Ids)
        /\ seen \in Nat /\ count \in Nat /\ m_Captures \in Seq(Entry)
        /\ InOrder(seen, count, toUI[d])
        /\ SentIsInTheList(d)
    BY Bounds DEF Stocks, EndsTyped, KnownTyped, ViewRec, SentRec, ReportsArrive, RecordsTyped
  <1>2. StreamMove(d) /\ ListMove
    BY Streams, Lists
  <1>3. InOrder(Len(view'[d].captures), sent'[d].captures, toUI'[d])
    BY <1>2, ReportsKept DEF ReportsArrive, InOrder, Announces
  <1>4. thread'[d] \in {"none", "handshake", "setCallback", "validate"} => sent'[d].captures = 0
    <2> SUFFICES ASSUME thread'[d] \in {"none", "handshake", "setCallback", "validate"}
                 PROVE  sent'[d].captures = 0
      OBVIOUS
    <2>1. thread[d] \in {"none", "handshake", "setCallback", "validate"} /\ ~InLoop(d)
      BY ThreadsAdvance DEF InLoop
    <2>2. QED
      BY <1>1, <1>2, <2>1 DEF SentIsInTheList, StreamMove, StreamKept, StreamCut, StreamOpened,
                              PacketSent, CaptureReported, PacketRead, SameSent
  <1>5. ASSUME InLoop(d)'
        PROVE  /\ sent'[d].captures <= Len(m_Captures')
               /\ \A id \in 1 .. Len(view'[d].captures) :
                    m_Captures'[id].file = view'[d].captures[id]
               /\ \A i \in 1 .. Len(toUI'[d]) : Announces(toUI'[d], i) =>
                    m_Captures'[toUI'[d][i].id].file = toUI'[d][i].file
    <2>1. CASE ~InLoop(d)
      <3>1. thread[d] = "validate"
        BY <1>5, <2>1, ThreadsAdvance
      <3>2. sent'[d].captures = 0
        BY <1>1, <1>2, <2>1, <3>1 DEF SentIsInTheList, StreamMove, StreamKept, StreamCut,
             StreamOpened, PacketSent, CaptureReported, PacketRead, SameSent
      <3>3. Len(view'[d].captures) \in Nat /\ m_Captures' \in Seq(Entry) /\ toUI'[d] \in Seq(Packet)
        BY <1>2, StreamTyped, ListTyped
      <3>4. Len(view'[d].captures) = 0
        BY <1>3, <3>2, <3>3 DEF InOrder
      <3>5. \A i \in 1 .. Len(toUI'[d]) : ~Announces(toUI'[d], i)
        <4> SUFFICES ASSUME NEW i \in 1 .. Len(toUI'[d]), Announces(toUI'[d], i)
                     PROVE  FALSE
          OBVIOUS
        <4>1. 0 < toUI'[d][i].id /\ toUI'[d][i].id <= 0
          BY <1>3, <3>2, <3>4 DEF InOrder
        <4>2. toUI'[d][i].id \in Nat
          BY <3>3, PacketFields, Bounds DEF Announces, Ids
        <4>3. QED
          BY <4>1, <4>2
      <3>6. QED
        BY <3>2, <3>3, <3>4, <3>5
    <2>2. CASE InLoop(d)
      <3>1. /\ Len(m_Captures) \in Nat /\ Len(m_Captures') \in Nat
            /\ Len(m_Captures) <= Len(m_Captures')
            /\ \A id \in 1 .. Len(m_Captures) : m_Captures'[id].file = m_Captures[id].file
        BY <1>2, <2>2, CompactedBeforeTheLoop, PositionsKept
      <3>2. /\ count <= Len(m_Captures) /\ seen <= count
            /\ \A id \in 1 .. seen : m_Captures[id].file = view[d].captures[id]
            /\ \A i \in 1 .. Len(toUI[d]) : Announces(toUI[d], i) =>
                 m_Captures[toUI[d][i].id].file = toUI[d][i].file
        BY <1>1, <2>2 DEF SentIsInTheList, InOrder
      <3>3. \A i \in 1 .. Len(toUI[d]) : Announces(toUI[d], i) =>
              toUI[d][i].id \in 1 .. Len(m_Captures)
        <4> SUFFICES ASSUME NEW i \in 1 .. Len(toUI[d]), Announces(toUI[d], i)
                     PROVE  toUI[d][i].id \in 1 .. Len(m_Captures)
          OBVIOUS
        <4>1. seen < toUI[d][i].id /\ toUI[d][i].id <= count
          BY <1>1 DEF InOrder
        <4>2. toUI[d][i].id \in Nat
          BY <1>1, PacketFields, Bounds DEF Announces, Ids
        <4>3. seen \in Nat /\ count \in Nat /\ Len(m_Captures) \in Nat /\ count <= Len(m_Captures)
          BY <1>1, <3>1, <3>2
        <4>4. toUI[d][i].id >= 1 /\ toUI[d][i].id <= Len(m_Captures)
          BY <4>1, <4>2, <4>3
        <4>5. QED
          BY <4>2, <4>3, <4>4
      <3>4. \A id \in 1 .. seen : m_Captures'[id].file = view[d].captures[id]
        BY <1>1, <3>1, <3>2
      <3>5. \A i \in 1 .. Len(toUI[d]) : Announces(toUI[d], i) =>
              m_Captures'[toUI[d][i].id].file = toUI[d][i].file
        BY <3>1, <3>2, <3>3
      <3>6. count <= Len(m_Captures')
        BY <1>1, <3>1, <3>2
      <3>7. CASE StreamKept(d) \/ StreamCut(d) \/ StreamOpened(d)
        BY <3>4, <3>5, <3>6, <3>7 DEF StreamKept, StreamCut, StreamOpened, SameSeen, SameSent
      <3>8. CASE PacketSent(d)
        <4>1. PICK p \in Packet : p.type # "NewCapture" /\ toUI'[d] = Append(toUI[d], p)
          BY <3>8 DEF PacketSent
        <4>2. \A i \in 1 .. Len(toUI'[d]) : Announces(toUI'[d], i) =>
                i \in 1 .. Len(toUI[d]) /\ toUI'[d][i] = toUI[d][i] /\ Announces(toUI[d], i)
          BY <1>1, <4>1 DEF Announces
        <4>3. QED
          BY <3>4, <3>5, <3>6, <3>8, <4>2 DEF PacketSent, SameSeen, SameSent
      <3>9. CASE CaptureReported(d)
        <4>1. sent'[d].captures = count + 1 /\ count + 1 \in 1 .. Len(m_Captures)
          BY <1>1, <3>1, <3>9 DEF CaptureReported
        <4>2. \A i \in 1 .. Len(toUI'[d]) : Announces(toUI'[d], i) =>
                \/ i \in 1 .. Len(toUI[d]) /\ toUI'[d][i] = toUI[d][i] /\ Announces(toUI[d], i)
                \/ toUI'[d][i] = CaptureReport(d)
          <5> SUFFICES ASSUME NEW i \in 1 .. Len(toUI'[d]), Announces(toUI'[d], i),
                              toUI'[d][i] # CaptureReport(d)
                       PROVE  /\ i \in 1 .. Len(toUI[d]) /\ toUI'[d][i] = toUI[d][i]
                              /\ Announces(toUI[d], i)
            OBVIOUS
          <5>1. CASE toUI'[d] = toUI[d]
            BY <5>1
          <5>2. CASE toUI'[d] = Append(toUI[d], CaptureReport(d))
            <6>1. i \in 1 .. Len(toUI[d]) /\ toUI'[d][i] = toUI[d][i]
              BY <1>1, <5>2
            <6>2. QED
              BY <6>1 DEF Announces
          <5>3. QED
            BY <3>9, <5>1, <5>2 DEF CaptureReported
        <4>3. m_Captures'[CaptureReport(d).id].file = CaptureReport(d).file
          BY <3>1, <4>1 DEF CaptureReport
        <4>4. sent'[d].captures <= Len(m_Captures')
          BY <1>1, <3>1, <4>1
        <4>5. QED
          BY <3>4, <3>5, <3>9, <4>2, <4>3, <4>4 DEF CaptureReported, SameSeen
      <3>10. CASE PacketRead(d)
        <4>1. toUI[d] # <<>> /\ toUI'[d] = Tail(toUI[d])
          BY <3>10 DEF PacketRead
        <4>2. \A i \in 1 .. Len(toUI'[d]) : Announces(toUI'[d], i) =>
                i + 1 \in 1 .. Len(toUI[d]) /\ toUI'[d][i] = toUI[d][i + 1]
                /\ Announces(toUI[d], i + 1)
          BY <1>1, <4>1 DEF Announces
        <4>3. \A i \in 1 .. Len(toUI'[d]) : Announces(toUI'[d], i) =>
                m_Captures'[toUI'[d][i].id].file = toUI'[d][i].file
          BY <4>2, <3>5
        <4>4. \A id \in 1 .. Len(view'[d].captures) :
                m_Captures'[id].file = view'[d].captures[id]
          <5>1. CASE Head(toUI[d]).type # "NewCapture"
            BY <3>4, <3>10, <5>1 DEF PacketRead
          <5>2. CASE Head(toUI[d]).type = "NewCapture"
            <6>1. Head(toUI[d]) = toUI[d][1] /\ Announces(toUI[d], 1) /\ 1 \in 1 .. Len(toUI[d])
                  /\ toUI[d][1] \in Packet
              BY <1>1, <4>1, <5>2 DEF Announces
            <6>2. toUI[d][1].id = seen + 1
              <7> DEFINE now == seen + 1
              <7>1. now \in Nat
                BY <1>1
              <7>2. now = IF Head(toUI[d]).type = "NewCapture" THEN seen + 1 ELSE seen
                BY <5>2
              <7> HIDE DEF now, seen, count
              <7>3. Head(toUI[d]).id = seen + 1
                BY <1>1, <4>1, <5>2, <7>1, <7>2, FirstRead
              <7>4. QED
                BY <6>1, <7>3
            <6>3. toUI[d][1].file \in Ids
              BY <6>1, PacketFields DEF Announces
            <6>4. m_Captures'[seen + 1].file = toUI[d][1].file
              BY <3>5, <6>1, <6>2
            <6>5. /\ Len(view'[d].captures) = seen + 1
                  /\ \A id \in 1 .. seen : view'[d].captures[id] = view[d].captures[id]
                  /\ view'[d].captures[seen + 1] = toUI[d][1].file
              BY <1>1, <3>10, <5>2, <6>1, <6>3 DEF PacketRead
            <6>6. ASSUME NEW id \in 1 .. Len(view'[d].captures)
                  PROVE  m_Captures'[id].file = view'[d].captures[id]
              <7>1. CASE id = seen + 1
                BY <6>4, <6>5, <7>1
              <7>2. CASE id # seen + 1
                <8>1. id \in 1 .. seen
                  BY <1>1, <6>5, <7>2
                <8>2. QED
                  BY <8>1, <3>4, <6>5
              <7>3. QED
                BY <7>1, <7>2
            <6>7. QED
              BY <6>6
          <5>3. QED
            BY <5>1, <5>2
        <4>5. QED
          BY <3>6, <3>10, <4>3, <4>4 DEF PacketRead, SameSent
      <3>11. QED
        BY <1>2, <3>7, <3>8, <3>9, <3>10 DEF StreamMove
    <2>3. QED
      BY <2>1, <2>2
  <1>6. QED
    BY <1>4, <1>5 DEF SentIsInTheList, InLoop, Announces

-----------------------------------------------------------------------------
(* Commands, and the captures they ask for.                                *)

CommandsReset ==
    \E c \in Clients, q \in Seq(Command) :
        /\ Len(q) <= 1 /\ \A i \in 1 .. Len(q) : q[i].type = "Handshake"
        /\ toServer' = [toServer EXCEPT ![c] = q]

CommandRead(c) == toServer[c] # <<>> /\ toServer' = [toServer EXCEPT ![c] = Tail(@)]

\* A command names a capture the UI sees, if it names one.
CommandSent(c, cmd) ==
    /\ Len(toServer[c]) < MaxCommands /\ toServer' = [toServer EXCEPT ![c] = Append(@, cmd)]
    /\ cmd.type \in {"Delete", "Copy"} =>
         /\ cmd.id \in 1 .. Len(view[c].captures) /\ cmd.file = view[c].captures[cmd.id]
         /\ cmd.file \in askedFor'

\* Commands that ask for no capture: what is waiting does not grow.
NothingAsked ==
    /\ requested' = requested /\ Load' <= Load
    /\ \/ toServer' = toServer \/ CommandsReset
       \/ \E c \in Clients : CommandRead(c)
       \/ \E c \in Clients, cmd \in Command : CommandSent(c, cmd) /\ cmd.type \notin Requests

RequestRead ==
    /\ requested' = requested /\ Load' <= Load + 1
    /\ \E c \in Clients : CommandRead(c) /\ Head(toServer[c]).type \in Requests

RequestMade ==
    /\ requested < scenario.captures /\ requested' = requested + 1
    /\ \/ toServer' = toServer /\ Load' <= Load + 1
       \/ Load' <= Load /\ \E c \in Clients, cmd \in Command : CommandSent(c, cmd)

RequestMove == (NothingAsked \/ RequestRead \/ RequestMade) /\ scenario' = scenario

LEMMA LoadTyped ==
    ASSUME Stocks
    PROVE  Load \in Nat
  BY LoadIsNatural DEF Stocks, RecordsTyped, Load

LEMMA RequestsKept ==
    ASSUME Stocks, UNCHANGED <<requested, m_Cap, m_QueuedFrameCaptures, written, capturing, scenario>>,
           toServer' = toServer \/ CommandsReset \/ \E c \in Clients : CommandRead(c)
    PROVE  RequestMove
  <1>1. Load' = Load /\ Load \in Nat
    BY LoadTyped DEF Load
  <1>2. QED
    BY <1>1 DEF RequestMove, NothingAsked

\* An end that is closed drops the commands, or keeps them.
LEMMA SocketEmptied ==
    ASSUME Stocks, NEW c \in Clients,
           toServer' = toServer \/ toServer' = [toServer EXCEPT ![c] = <<>>]
    PROVE  toServer' = toServer \/ CommandsReset
  <1> DEFINE none == <<>>
  <1>1. none \in Seq(Command) /\ Len(none) = 0
    OBVIOUS
  <1> HIDE DEF none
  <1>2. \A i \in 1 .. Len(none) : none[i].type = "Handshake"
    BY <1>1
  <1>3. ASSUME toServer' = [toServer EXCEPT ![c] = none]
        PROVE  CommandsReset
    <2> SUFFICES \E d \in Clients, q \in Seq(Command) :
                   /\ Len(q) <= 1 /\ \A i \in 1 .. Len(q) : q[i].type = "Handshake"
                   /\ toServer' = [toServer EXCEPT ![d] = q]
      BY DEF CommandsReset
    <2> USE <1>1
    <2> WITNESS c \in Clients, none \in Seq(Command)
    <2>1. QED
      BY <1>1, <1>2, <1>3
  <1>4. QED
    BY <1>3 DEF none

LEMMA ServerRequests ==
    ASSUME Stocks, ServerStep \/ ServerAcceptFails
    PROVE  RequestMove
  <1>1. UNCHANGED <<requested, m_Cap, m_QueuedFrameCaptures, written, capturing, scenario>>
    BY DEF ServerStep, ServerAccept, ServerLookup, ServerKick, ServerJoin, ServerClaim,
           ServerSpawn, ServerBusy, ServerStop, ServerAcceptFails, CloseListener, appVars,
           requestVars, lifeVars
  <1>2. ASSUME NEW c \in Clients, ServerAccept(c)
        PROVE  RequestMove
    <2>1. toServer[c] # <<>> /\ (toServer' = [toServer EXCEPT ![c] = Tail(@)] \/ CloseServerEnd(c))
      BY <1>2 DEF ServerAccept
    <2>2. CASE CloseServerEnd(c)
      BY <1>1, <2>2, SocketEmptied, RequestsKept DEF CloseServerEnd
    <2>3. CASE toServer' = [toServer EXCEPT ![c] = Tail(@)]
      BY <1>1, <2>1, <2>3, RequestsKept DEF CommandRead
    <2>4. QED
      BY <2>1, <2>2, <2>3
  <1>3. CASE ServerBusy
    <2>1. newClient \in Clients /\ toServer' = [toServer EXCEPT ![newClient] = <<>>]
      BY <1>3 DEF ServerBusy, Stocks, IInv, ClaimantIsNew, Deciding
    <2>2. QED
      BY <1>1, <2>1, SocketEmptied, RequestsKept
  <1>4. CASE ~ServerBusy /\ ~\E c \in Clients : ServerAccept(c)
    <2>1. toServer' = toServer
      BY <1>4 DEF ServerStep, ServerLookup, ServerKick, ServerJoin, ServerClaim,
                  ServerSpawn, ServerStop, ServerAcceptFails, CloseListener, socketVars
    <2>2. QED
      BY <1>1, <2>1, RequestsKept
  <1>5. QED
    BY <1>2, <1>3, <1>4

LEMMA ThreadRequests ==
    ASSUME Stocks, NEW c \in Clients, ThreadStep(c)
    PROVE  RequestMove
  <1>1. CASE ~ThreadCommand(c)
    <2>1. UNCHANGED <<requested, m_Cap, m_QueuedFrameCaptures, written, capturing, scenario>>
      BY <1>1 DEF ThreadStep, ThreadHandshake, ThreadSetCallback, ThreadValidate, ThreadTick,
                  ThreadClearCallback, ThreadClearName, appVars, requestVars, lifeVars
    <2>2. toServer' = toServer \/ CloseServerEnd(c)
      BY <1>1 DEF ThreadStep, ThreadHandshake, ThreadSetCallback, ThreadValidate, ThreadTick,
                  ThreadClearCallback, ThreadClearName, socketVars, Send, Report, ReportDriver,
                  ReportCapture, ReportChild, ReportProgress, ReportWindows, ReportShow,
                  ReportNothing
    <2>3. QED
      BY <2>1, <2>2, SocketEmptied, RequestsKept DEF CloseServerEnd
  <1>2. CASE ThreadCommand(c)
    <2>1. UNCHANGED <<requested, written, capturing, scenario>>
      BY <1>2 DEF ThreadCommand, lifeVars
    <2> DEFINE cmd == Head(toServer[c])
    <2>2. CASE UNCHANGED <<m_Cap, m_QueuedFrameCaptures>>
      <3>1. toServer' = toServer \/ CloseServerEnd(c) \/ CommandRead(c)
        BY <1>2 DEF ThreadCommand, HandleCapture, HandleDelete, HandleCopy, Received, CommandRead,
                    socketVars
      <3>2. QED
        BY <2>1, <2>2, <3>1, SocketEmptied, RequestsKept DEF CloseServerEnd
    <2>3. CASE ~UNCHANGED <<m_Cap, m_QueuedFrameCaptures>>
      <3>1. toServer[c] # <<>> /\ HandleCapture(c, cmd)
        BY <1>2, <2>3 DEF ThreadCommand, HandleDelete, HandleCopy
      <3>2. CommandRead(c)
        BY <3>1 DEF HandleCapture, Received, CommandRead
      <3>3. /\ written \in Nat /\ m_Cap \in Nat /\ m_QueuedFrameCaptures \in Nat
            /\ capturing \in BOOLEAN
        BY DEF Stocks, RecordsTyped
      <3>4. CASE cmd.type \in Requests
        <4>1. \/ m_Cap' = 1 /\ m_QueuedFrameCaptures' = m_QueuedFrameCaptures
              \/ m_QueuedFrameCaptures' = m_QueuedFrameCaptures + 1 /\ m_Cap' = m_Cap
          BY <3>1, <3>4 DEF HandleCapture, Requests
        <4>2. Load' <= Load + 1
          BY <2>1, <3>3, <4>1, LoadGrows DEF Load
        <4>3. QED
          BY <2>1, <3>2, <3>4, <4>2 DEF RequestMove, RequestRead
      <3>5. CASE cmd.type \notin Requests
        <4>1. m_Cap' = 0 /\ m_QueuedFrameCaptures' = m_QueuedFrameCaptures
          BY <3>1, <3>5 DEF HandleCapture, Requests
        <4>2. Load' <= Load
          BY <2>1, <3>3, <4>1, LoadGrows DEF Load
        <4>3. QED
          BY <2>1, <3>2, <4>2 DEF RequestMove, NothingAsked
      <3>6. QED
        BY <3>4, <3>5
    <2>4. QED
      BY <2>2, <2>3
  <1>3. QED
    BY <1>1, <1>2

LEMMA AppRequests ==
    ASSUME Stocks, AppStep
    PROVE  RequestMove
  <1>1. /\ written \in Nat /\ m_Cap \in Nat /\ m_QueuedFrameCaptures \in Nat /\ capturing \in BOOLEAN
    BY DEF Stocks, RecordsTyped
  <1>2. toServer' = toServer /\ scenario' = scenario
    BY DEF AppStep, KeyTrigger, BeginCapture, FinishCaptureWriting, AddChildProcess,
           DriverChanges, WindowsChange, ShowReplayUI, FileDeleted, RemoveHooks,
           RemoveHooksReturns, Exit, socketVars, lifeVars
  <1>3. CASE KeyTrigger
    <2>1. /\ requested < scenario.captures /\ requested' = requested + 1 /\ m_Cap' = 1
          /\ UNCHANGED <<m_QueuedFrameCaptures, capturing, written>>
      BY <1>3 DEF KeyTrigger
    <2>2. Load' <= Load + 1
      BY <1>1, <2>1, LoadGrows DEF Load
    <2>3. QED
      BY <1>2, <2>1, <2>2 DEF RequestMove, RequestMade
  <1>4. CASE BeginCapture
    <2>1. /\ capturing = FALSE /\ capturing' = TRUE
          /\ m_Cap' = IF m_Cap > 0 THEN m_Cap - 1 ELSE 0
          /\ m_QueuedFrameCaptures' \in 0 .. m_QueuedFrameCaptures
          /\ m_Cap = 0 => m_QueuedFrameCaptures' < m_QueuedFrameCaptures
          /\ UNCHANGED <<requested, written>>
      BY <1>1, <1>4 DEF BeginCapture
    <2>2. Load' <= Load
      <3>1. m_QueuedFrameCaptures' \in Nat /\ m_QueuedFrameCaptures' <= m_QueuedFrameCaptures
        BY <1>1, <2>1
      <3>2. m_Cap' \in Nat
        BY <1>1, <2>1
      <3>3. LoadOf(written, TRUE, m_Cap', m_QueuedFrameCaptures')
              <= LoadOf(written, FALSE, m_Cap, m_QueuedFrameCaptures)
        BY <1>1, <2>1, <3>1, <3>2, LoadBegins
      <3>4. QED
        BY <2>1, <3>3 DEF Load
    <2>3. QED
      BY <1>2, <2>1, <2>2 DEF RequestMove, NothingAsked
  <1>5. CASE FinishCaptureWriting
    <2>1. /\ capturing = TRUE /\ capturing' = FALSE /\ (written' = written + 1 \/ written' = written)
          /\ UNCHANGED <<requested, m_Cap, m_QueuedFrameCaptures>>
      BY <1>1, <1>5 DEF FinishCaptureWriting, requestVars
    <2>2. Load' <= Load
      BY <1>1, <2>1, LoadFinishes DEF Load
    <2>3. QED
      BY <1>2, <2>1, <2>2 DEF RequestMove, NothingAsked
  <1>6. CASE ~KeyTrigger /\ ~BeginCapture /\ ~FinishCaptureWriting
    <2>1. UNCHANGED <<requested, m_Cap, m_QueuedFrameCaptures, written, capturing>>
      BY <1>6 DEF AppStep, AddChildProcess, DriverChanges, WindowsChange, ShowReplayUI, FileDeleted,
                  RemoveHooks, RemoveHooksReturns, Exit, appVars, requestVars
    <2>2. QED
      BY <1>2, <2>1, RequestsKept
  <1>7. QED
    BY <1>3, <1>4, <1>5, <1>6

LEMMA UIRequests ==
    ASSUME Stocks, NEW c \in Clients, UIStep(c) \/ Break(c)
    PROVE  RequestMove
  <1>1. UNCHANGED <<m_Cap, m_QueuedFrameCaptures, written, capturing, scenario>>
    BY DEF UIStep, UIConnect, UIReads, UIHandshake, UIReceive, UILost, UIRequest, UIDelete,
           UICopy, UISend, UIShutdown, Break, appSide, appVars, requestVars, lifeVars
  <1>2. Load' = Load /\ Load \in Nat
    BY <1>1, LoadTyped DEF Load
  <1>3. view[c].captures \in Seq(Ids) /\ DOMAIN view[c].captures = 1 .. Len(view[c].captures)
    BY DEF Stocks, KnownTyped, ViewRec
  <1>4. CASE UIConnect(c)
    <2>1. requested' = requested
          /\ toServer' = [toServer EXCEPT ![c] = <<[type |-> "Handshake", version |-> Version[c]]>>]
      BY <1>4 DEF UIConnect
    <2>2. [type |-> "Handshake", version |-> Version[c]] \in Command
      BY CommandsMade, VersionAssumption
    <2>3. CommandsReset
      <3> DEFINE q == <<[type |-> "Handshake", version |-> Version[c]]>>
      <3>1. q \in Seq(Command) /\ Len(q) = 1
        BY <2>2
      <3>2. \A i \in 1 .. Len(q) : q[i].type = "Handshake"
        BY <3>1
      <3>3. toServer' = [toServer EXCEPT ![c] = q]
        BY <2>1
      <3> HIDE DEF q
      <3> SUFFICES \E d \in Clients, r \in Seq(Command) :
                     /\ Len(r) <= 1 /\ \A i \in 1 .. Len(r) : r[i].type = "Handshake"
                     /\ toServer' = [toServer EXCEPT ![d] = r]
        BY DEF CommandsReset
      <3> USE <3>1
      <3> WITNESS c \in Clients, q \in Seq(Command)
      <3>4. QED
        BY <3>1, <3>2, <3>3
    <2>4. QED
      BY <1>1, <2>1, <2>3, RequestsKept
  <1>5. CASE UIReads(c) \/ UIShutdown(c) \/ Break(c)
    <2>1. requested' = requested
      BY <1>5 DEF UIReads, UIHandshake, UIReceive, UILost, UIShutdown, Break, appVars, requestVars
    <2>2. toServer' = toServer \/ toServer' = [toServer EXCEPT ![c] = <<>>]
      BY <1>5 DEF UIReads, UIHandshake, UIReceive, UILost, UIShutdown, Break, CloseUIEnd
    <2>3. QED
      BY <1>1, <2>1, <2>2, SocketEmptied, RequestsKept
  <1>6. CASE UIRequest(c)
    <2>1. CASE requested' = requested
      <3>1. UISend(c, [type |-> "Cycle"])
        <4>1. requested \in Nat
          BY DEF Stocks, RecordsTyped
        <4>2. QED
          BY <1>6, <2>1, <4>1 DEF UIRequest
      <3> DEFINE cmd == [type |-> "Cycle"]
      <3>2. cmd \in Command /\ cmd.type \notin Requests
        BY CommandsMade DEF Requests
      <3>3. toServer' = toServer \/ CommandSent(c, cmd)
        BY <3>1 DEF UISend, CommandSent
      <3> HIDE DEF cmd
      <3>4. QED
        BY <1>1, <1>2, <2>1, <3>2, <3>3 DEF RequestMove, NothingAsked
    <2>2. CASE requested' # requested
      <3>1. /\ requested < scenario.captures /\ requested' = requested + 1
            /\ \E type \in {"Trigger", "Queue"} : UISend(c, [type |-> type])
        BY <1>6, <2>2 DEF UIRequest
      <3>2. PICK type \in {"Trigger", "Queue"} : UISend(c, [type |-> type])
        BY <3>1
      <3> DEFINE cmd == [type |-> type]
      <3>3. cmd \in Command
        BY CommandsMade
      <3>4. toServer' = toServer \/ CommandSent(c, cmd)
        BY <3>2 DEF UISend, CommandSent
      <3> HIDE DEF cmd
      <3>5. QED
        BY <1>1, <1>2, <3>1, <3>3, <3>4 DEF RequestMove, RequestMade
    <2>3. QED
      BY <2>1, <2>2
  <1>7. CASE UIDelete(c)
    <2>1. PICK id \in DOMAIN view[c].captures :
            /\ UISend(c, [type |-> "Delete", id |-> id, file |-> view[c].captures[id]])
            /\ askedFor' = askedFor \cup {view[c].captures[id]} /\ UNCHANGED requested
      BY <1>7 DEF UIDelete
    <2> DEFINE cmd == [type |-> "Delete", id |-> id, file |-> view[c].captures[id]]
    <2>2. id \in Nat /\ id \in 1 .. Len(view[c].captures) /\ view[c].captures[id] \in Ids
      BY <1>3
    <2>3. cmd \in Command /\ cmd.type \notin Requests
      BY <2>2, CommandsMade DEF Requests
    <2>4. toServer' = toServer \/ CommandSent(c, cmd)
      BY <2>1, <2>2 DEF UISend, CommandSent
    <2> HIDE DEF cmd
    <2>5. QED
      BY <1>1, <1>2, <2>1, <2>3, <2>4 DEF RequestMove, NothingAsked
  <1>8. CASE UICopy(c)
    <2>1. PICK id \in DOMAIN view[c].captures, path \in Paths :
            /\ UISend(c, [type |-> "Copy", id |-> id, path |-> path, file |-> view[c].captures[id]])
            /\ askedFor' = askedFor \cup {view[c].captures[id]} /\ UNCHANGED requested
      BY <1>8 DEF UICopy
    <2> DEFINE cmd == [type |-> "Copy", id |-> id, path |-> path, file |-> view[c].captures[id]]
    <2>2. id \in Nat /\ id \in 1 .. Len(view[c].captures) /\ view[c].captures[id] \in Ids
      BY <1>3
    <2>3. cmd \in Command /\ cmd.type \notin Requests
      BY <2>2, CommandsMade DEF Requests
    <2>4. toServer' = toServer \/ CommandSent(c, cmd)
      BY <2>1, <2>2 DEF UISend, CommandSent
    <2> HIDE DEF cmd
    <2>5. QED
      BY <1>1, <1>2, <2>1, <2>3, <2>4 DEF RequestMove, NothingAsked
  <1>9. QED
    BY <1>4, <1>5, <1>6, <1>7, <1>8 DEF UIStep

LEMMA RequestsMove ==
    ASSUME Stocks, [Next]_vars
    PROVE  RequestMove
  <1>1. CASE UNCHANGED vars
    BY <1>1, RequestsKept DEF vars, appVars, requestVars, lifeVars, socketVars
  <1>2. QED
    BY <1>1, ServerRequests, ThreadRequests, AppRequests, UIRequests DEF Next

\* However the commands and captures move, none is counted twice.
LEMMA CountKept ==
    ASSUME Stocks, RequestMove, RecordsTyped'
    PROVE  Counted'
  <1> DEFINE now == Cardinality(InFlightOf(toServer))
             then == Cardinality(InFlightOf(toServer'))
  <1>1. /\ toServer \in [Clients -> Seq(Command)] /\ IsFiniteSet(InFlightOf(toServer))
        /\ Load + now <= requested /\ requested <= scenario.captures
        /\ requested \in Nat /\ scenario.captures \in Nat
    BY ScenariosAssumption, Bounds DEF Stocks, EndsTyped, Counted, RecordsTyped
  <1>2. Load \in Nat /\ now \in Nat /\ scenario' = scenario
    BY <1>1, LoadTyped, FS_CardinalityType DEF RequestMove
  <1>2a. Load' \in Nat
    BY LoadIsNatural DEF RecordsTyped, Load
  <1>3. Counted' <=>
          /\ requested' <= scenario'.captures
          /\ IsFiniteSet(InFlightOf(toServer'))
          /\ Load' + then <= requested'
    BY DEF Counted, InFlightOf
  <1>4. ASSUME CommandsReset
        PROVE  IsFiniteSet(InFlightOf(toServer')) /\ then <= now
    <2>1. PICK c \in Clients, q \in Seq(Command) :
            /\ \A i \in 1 .. Len(q) : q[i].type = "Handshake"
            /\ toServer' = [toServer EXCEPT ![c] = q]
      BY <1>4 DEF CommandsReset
    <2>2. \A i \in 1 .. Len(q) : q[i].type \notin Requests
      BY <2>1 DEF Requests
    <2>3. QED
      BY <1>1, <2>1, <2>2, CommandsLost
  <1>5. ASSUME NEW c \in Clients, CommandRead(c)
        PROVE  /\ IsFiniteSet(InFlightOf(toServer')) /\ then <= now
               /\ Head(toServer[c]).type \in Requests => then + 1 <= now
    BY <1>1, <1>5, CommandTaken DEF CommandRead
  <1>6. ASSUME NEW c \in Clients, NEW cmd \in Command, CommandSent(c, cmd)
        PROVE  /\ IsFiniteSet(InFlightOf(toServer')) /\ then <= now + 1
               /\ cmd.type \notin Requests => then <= now
    BY <1>1, <1>6, CommandPut DEF CommandSent
  <1>7. ASSUME toServer' = toServer
        PROVE  IsFiniteSet(InFlightOf(toServer')) /\ then = now
    BY <1>1, <1>7
  <1>8. CASE NothingAsked
    <2>1. IsFiniteSet(InFlightOf(toServer')) /\ then <= now
      <3>1. CASE toServer' = toServer
        BY <1>2, <1>7, <3>1
      <3>2. CASE CommandsReset
        BY <1>4, <3>2
      <3>3. CASE \E c \in Clients : CommandRead(c)
        BY <1>5, <3>3
      <3>4. CASE \E c \in Clients, cmd \in Command : CommandSent(c, cmd) /\ cmd.type \notin Requests
        BY <1>6, <3>4
      <3>5. QED
        BY <1>8, <3>1, <3>2, <3>3, <3>4 DEF NothingAsked
    <2>2. then \in Nat /\ requested' = requested /\ Load' <= Load
      BY <1>8, <2>1, FS_CardinalityType DEF NothingAsked
    <2>3. Load' + then <= requested' /\ requested' <= scenario'.captures
      <3>1. PICK l \in Nat, n \in Nat, r \in Nat, s \in Nat :
            l = Load /\ n = now /\ r = requested /\ s = scenario.captures
        BY <1>1, <1>2
      <3>2. PICK l2 \in Nat, n2 \in Nat, r2 \in Nat :
            l2 = Load' /\ n2 = then /\ r2 = requested'
        BY <1>1, <1>2a, <2>2
      <3> HIDE DEF now, then
      <3>3. l + n <= r /\ r <= s
        BY <1>1, <3>1
      <3>4. r2 = r /\ l2 <= l /\ n2 <= n
        BY <2>1, <2>2, <3>1, <3>2
      <3>5. l2 + n2 <= r2 /\ r2 <= s
        BY <3>3, <3>4
      <3>6. QED
        BY <1>2, <3>1, <3>2, <3>5
    <2>4. QED
      BY <1>3, <2>1, <2>3
  <1>9. CASE RequestRead
    <2>1. IsFiniteSet(InFlightOf(toServer')) /\ then + 1 <= now
      BY <1>5, <1>9 DEF RequestRead
    <2>2. then \in Nat /\ requested' = requested /\ Load' <= Load + 1
      BY <1>9, <2>1, FS_CardinalityType DEF RequestRead
    <2>3. Load' + then <= requested' /\ requested' <= scenario'.captures
      <3>1. PICK l \in Nat, n \in Nat, r \in Nat, s \in Nat :
            l = Load /\ n = now /\ r = requested /\ s = scenario.captures
        BY <1>1, <1>2
      <3>2. PICK l2 \in Nat, n2 \in Nat, r2 \in Nat :
            l2 = Load' /\ n2 = then /\ r2 = requested'
        BY <1>1, <1>2a, <2>2
      <3> HIDE DEF now, then
      <3>3. l + n <= r /\ r <= s
        BY <1>1, <3>1
      <3>4. r2 = r /\ l2 <= l + 1 /\ n2 + 1 <= n
        BY <2>1, <2>2, <3>1, <3>2
      <3>5. l2 + n2 <= r2 /\ r2 <= s
        BY <3>3, <3>4
      <3>6. QED
        BY <1>2, <3>1, <3>2, <3>5
    <2>4. QED
      BY <1>3, <2>1, <2>3
  <1>10. CASE RequestMade
    <2>1. /\ IsFiniteSet(InFlightOf(toServer'))
          /\ \/ Load' <= Load + 1 /\ then = now
             \/ Load' <= Load /\ then <= now + 1
      BY <1>6, <1>7, <1>10 DEF RequestMade
    <2>2. then \in Nat /\ requested' = requested + 1 /\ requested < scenario.captures
      BY <1>10, <2>1, FS_CardinalityType DEF RequestMade
    <2>2a. requested' \in Nat
      BY <1>1, <2>2
    <2>3. Load' + then <= requested' /\ requested' <= scenario'.captures
      <3>1. PICK l \in Nat, n \in Nat, r \in Nat, s \in Nat :
            l = Load /\ n = now /\ r = requested /\ s = scenario.captures
        BY <1>1, <1>2
      <3>2. PICK l2 \in Nat, n2 \in Nat, r2 \in Nat :
            l2 = Load' /\ n2 = then /\ r2 = requested'
        BY <1>1, <1>2a, <2>2, <2>2a
      <3> HIDE DEF now, then
      <3>3. l + n <= r /\ r <= s
        BY <1>1, <3>1
      <3>4. /\ r < s /\ r2 = r + 1
            /\ (l2 <= l + 1 /\ n2 = n) \/ (l2 <= l /\ n2 <= n + 1)
        BY <2>1, <2>2, <3>1, <3>2
      <3>5. l2 + n2 <= r2 /\ r2 <= s
        BY <3>3, <3>4
      <3>6. QED
        BY <1>2, <3>1, <3>2, <3>5
    <2>4. QED
      BY <1>3, <2>1, <2>3
  <1>11. QED
    BY <1>8, <1>9, <1>10 DEF RequestMove

-----------------------------------------------------------------------------
(* What is left: the types of the records, and who changes them.           *)

LEMMA AppRecords ==
    ASSUME Stocks, AppStep
    PROVE  /\ \/ written' = written /\ disk' \subseteq disk
              \/ written' = written + 1 /\ disk' = disk \cup {written + 1}
           /\ m_Cap' \in Nat /\ m_QueuedFrameCaptures' \in Nat /\ requested' \in Nat
           /\ capturing' \in BOOLEAN /\ scenario' = scenario
  <1>1. /\ m_Cap \in Nat /\ m_QueuedFrameCaptures \in Nat /\ requested \in Nat
        /\ capturing \in BOOLEAN
    BY DEF Stocks, RecordsTyped
  <1>2. scenario' = scenario
    BY DEF AppStep, KeyTrigger, BeginCapture, FinishCaptureWriting, AddChildProcess,
           DriverChanges, WindowsChange, ShowReplayUI, FileDeleted, RemoveHooks,
           RemoveHooksReturns, Exit, lifeVars
  <1>3. CASE KeyTrigger
    BY <1>1, <1>2, <1>3 DEF KeyTrigger
  <1>4. CASE BeginCapture
    <2>1. /\ UNCHANGED <<written, disk, requested>> /\ capturing' = TRUE
          /\ m_Cap' = IF m_Cap > 0 THEN m_Cap - 1 ELSE 0
          /\ m_QueuedFrameCaptures' \in 0 .. m_QueuedFrameCaptures
      BY <1>4 DEF BeginCapture
    <2>2. QED
      BY <1>1, <1>2, <2>1
  <1>5. CASE FinishCaptureWriting
    BY <1>1, <1>2, <1>5 DEF FinishCaptureWriting, requestVars
  <1>6. CASE ~KeyTrigger /\ ~BeginCapture /\ ~FinishCaptureWriting
    <2>1. UNCHANGED <<requestVars, capturing, written>> /\ disk' \subseteq disk
      BY <1>6 DEF AppStep, AddChildProcess, DriverChanges, WindowsChange, ShowReplayUI, FileDeleted,
                  RemoveHooks, RemoveHooksReturns, Exit, appVars
    <2>2. QED
      BY <1>1, <1>2, <2>1 DEF requestVars
  <1>7. QED
    BY <1>3, <1>4, <1>5, <1>6

LEMMA OtherRecords ==
    ASSUME Stocks,
           \/ ServerStep \/ ServerAcceptFails
           \/ \E c \in Clients : ThreadStep(c) \/ UIStep(c) \/ Break(c)
           \/ UNCHANGED vars
    PROVE  /\ written' = written /\ disk' = disk
           /\ m_Cap' \in Nat /\ m_QueuedFrameCaptures' \in Nat /\ requested' \in Nat
           /\ capturing' \in BOOLEAN /\ scenario' = scenario
  <1>1. /\ m_Cap \in Nat /\ m_QueuedFrameCaptures \in Nat /\ requested \in Nat
        /\ capturing \in BOOLEAN
    BY DEF Stocks, RecordsTyped
  <1>2. CASE ServerStep \/ ServerAcceptFails
    BY <1>1, <1>2 DEF ServerStep, ServerAccept, ServerLookup, ServerKick, ServerJoin, ServerClaim,
       ServerSpawn, ServerBusy, ServerStop, ServerAcceptFails, CloseListener, appVars, requestVars,
       lifeVars
  <1>3. ASSUME NEW c \in Clients, ThreadCommand(c)
        PROVE  /\ UNCHANGED <<requested, written, disk, capturing, scenario>>
               /\ m_Cap' \in {m_Cap, 0, 1}
               /\ m_QueuedFrameCaptures' \in {m_QueuedFrameCaptures, m_QueuedFrameCaptures + 1}
    BY <1>3 DEF ThreadCommand, HandleCapture, HandleDelete, HandleCopy, lifeVars
  <1>4. ASSUME NEW c \in Clients, ThreadStep(c), ~ThreadCommand(c)
        PROVE  UNCHANGED <<appVars, lifeVars>>
    BY <1>4 DEF ThreadStep, ThreadHandshake, ThreadSetCallback, ThreadValidate, ThreadTick,
       ThreadClearCallback, ThreadClearName
  <1>5. ASSUME NEW c \in Clients, UIStep(c) \/ Break(c)
        PROVE  /\ UNCHANGED <<written, disk, capturing, scenario, m_Cap, m_QueuedFrameCaptures>>
               /\ requested' \in {requested, requested + 1}
    BY <1>5 DEF UIStep, UIConnect, UIReads, UIHandshake, UIReceive, UILost, UIRequest, UIDelete,
       UICopy, UISend, UIShutdown, Break, appSide, appVars, requestVars, lifeVars
  <1>6. CASE UNCHANGED vars
    BY <1>1, <1>6 DEF vars, appVars, requestVars, lifeVars
  <1>7. QED
    BY <1>1, <1>2, <1>3, <1>4, <1>5, <1>6 DEF appVars, requestVars, lifeVars

LEMMA RecordsKept ==
    ASSUME Stocks, [Next]_vars
    PROVE  RecordsTyped'
  <1>1. /\ \/ written' = written /\ disk' \subseteq disk
           \/ written' = written + 1 /\ disk' = disk \cup {written + 1}
        /\ m_Cap' \in Nat /\ m_QueuedFrameCaptures' \in Nat /\ requested' \in Nat
        /\ capturing' \in BOOLEAN /\ scenario' = scenario
    BY AppRecords, OtherRecords DEF Next
  <1>2. /\ m_Captures' \in Seq(Entry)
        /\ Len(m_Captures') <= IF ListGrown THEN written + 1 ELSE written
    BY Lists, ListTyped
  <1>3. written \in Nat /\ disk \subseteq 1 .. written /\ scenario \in Scenarios
    BY DEF Stocks, RecordsTyped
  <1>4. written' \in Nat
    BY <1>1, <1>3
  <1>5. disk' \subseteq 1 .. written'
    <2>1. CASE written' = written /\ disk' \subseteq disk
      BY <1>3, <2>1
    <2>2. CASE written' = written + 1 /\ disk' = disk \cup {written + 1}
      <3>1. \A f \in 1 .. written : f \in 1 .. written + 1
        BY <1>3
      <3>2. written + 1 \in 1 .. written + 1
        BY <1>3
      <3>3. QED
        BY <1>3, <2>2, <3>1, <3>2
    <2>3. QED
      BY <1>1, <2>1, <2>2
  <1>6. Len(m_Captures') <= written'
    BY <1>1, <1>2, <1>3 DEF ListGrown
  <1>7. QED
    BY <1>1, <1>2, <1>3, <1>4, <1>5, <1>6 DEF RecordsTyped

LEMMA ApplicationKept ==
    ASSUME Stocks, [Next]_vars
    PROVE  ApplicationTyped' /\ m_Children <= m_Children'
  <1> USE DEF Status
  <1>1. /\ m_Children \in 0 .. MaxChildren /\ windows \in 0 .. MaxWindows
        /\ m_ActiveDrivers \in [Drivers -> 0 .. MaxDriverChanges]
        /\ newClient \in Clients \cup {NoClient}
        /\ m_RequestControllerShow \in BOOLEAN /\ m_ControlClientThreadShutdown \in BOOLEAN
        /\ m_TargetControlThreadShutdown \in BOOLEAN
        /\ life \in {"running", "removing", "removed", "exited"}
        /\ captureProgress \in [Clients -> Progress]
        /\ progressCallback \in Clients \cup {NoClient}
        /\ MaxChildren \in Nat /\ MaxDriverChanges \in Nat
    BY Bounds DEF Stocks, ApplicationTyped, IInv, CoreTypes
  <1>2. m_Children' \in {m_Children, m_Children + 1} /\ m_Children' \in 0 .. MaxChildren
    <2>1. CASE AddChildProcess
      BY <1>1, <2>1 DEF AddChildProcess
    <2>2. CASE ~AddChildProcess
      <3>1. m_Children' = m_Children
        <4>1. CASE AppStep
          BY <2>2, <4>1 DEF AppStep, KeyTrigger, BeginCapture, FinishCaptureWriting,
             DriverChanges, WindowsChange, ShowReplayUI, FileDeleted, RemoveHooks,
             RemoveHooksReturns, Exit, recordVars
        <4>2. CASE ServerStep \/ ServerAcceptFails
          BY <4>2 DEF ServerStep, ServerAccept, ServerLookup, ServerKick, ServerJoin, ServerClaim,
             ServerSpawn, ServerBusy, ServerStop, ServerAcceptFails, CloseListener, recordVars
        <4>3. ASSUME NEW c \in Clients, ThreadStep(c)
              PROVE  m_Children' = m_Children
          BY <4>3 DEF ThreadStep, ThreadHandshake, ThreadSetCallback, ThreadValidate, ThreadTick,
             ThreadCommand, ThreadClearCallback, ThreadClearName, recordVars
        <4>4. ASSUME NEW c \in Clients, UIStep(c) \/ Break(c)
              PROVE  m_Children' = m_Children
          BY <4>4 DEF UIStep, UIConnect, UIReads, UIHandshake, UIReceive, UILost, UIRequest, UIDelete,
             UICopy, UISend, UIShutdown, Break, appSide, recordVars
        <4>5. CASE UNCHANGED vars
          BY <4>5 DEF vars, recordVars
        <4>6. QED
          BY <4>1, <4>2, <4>3, <4>4, <4>5 DEF Next
      <3>2. QED
        BY <1>1, <3>1
    <2>3. QED
      BY <2>1, <2>2
  <1>3. CASE AppStep
    <2>1. UNCHANGED <<newClient, m_ControlClientThreadShutdown>>
      BY <1>3 DEF AppStep, KeyTrigger, BeginCapture, FinishCaptureWriting, AddChildProcess,
             DriverChanges, WindowsChange, ShowReplayUI, FileDeleted, RemoveHooks,
             RemoveHooksReturns, Exit, serveVars, serverVars
    <2>2. windows' \in 0 .. MaxWindows
      BY <1>1, <1>3 DEF AppStep, KeyTrigger, BeginCapture, FinishCaptureWriting, AddChildProcess,
             DriverChanges, WindowsChange, ShowReplayUI, FileDeleted, RemoveHooks,
             RemoveHooksReturns, Exit, recordVars
    <2>3. m_ActiveDrivers' \in [Drivers -> 0 .. MaxDriverChanges]
      <3>1. ASSUME NEW d \in Drivers, DriverChanges(d)
            PROVE  m_ActiveDrivers' \in [Drivers -> 0 .. MaxDriverChanges]
        <4>1. m_ActiveDrivers[d] < MaxDriverChanges
              /\ m_ActiveDrivers' = [m_ActiveDrivers EXCEPT ![d] = @ + 1]
          BY <3>1 DEF DriverChanges
        <4>2. m_ActiveDrivers[d] + 1 \in 0 .. MaxDriverChanges
          BY <1>1, <4>1
        <4>3. QED
          BY <1>1, <4>1, <4>2
      <3>2. CASE ~\E d \in Drivers : DriverChanges(d)
        BY <1>1, <1>3, <3>2 DEF AppStep, KeyTrigger, BeginCapture, FinishCaptureWriting,
           AddChildProcess, WindowsChange, ShowReplayUI, FileDeleted, RemoveHooks,
           RemoveHooksReturns, Exit, recordVars
      <3>3. QED
        BY <3>1, <3>2
    <2>4. /\ m_RequestControllerShow' \in BOOLEAN /\ m_TargetControlThreadShutdown' \in BOOLEAN
          /\ life' \in {"running", "removing", "removed", "exited"}
      BY <1>1, <1>3 DEF AppStep, KeyTrigger, BeginCapture, FinishCaptureWriting, AddChildProcess,
             DriverChanges, WindowsChange, ShowReplayUI, FileDeleted, RemoveHooks,
             RemoveHooksReturns, Exit, lifeVars
    <2>5. captureProgress' \in [Clients -> Progress]
      <3>1. ASSUME NEW p \in Progress, SetProgress(p)
            PROVE  captureProgress' \in [Clients -> Progress]
        BY <1>1, <3>1 DEF SetProgress
      <3>2. CASE BeginCapture \/ FinishCaptureWriting
        BY <3>1, <3>2 DEF BeginCapture, FinishCaptureWriting, Progress
      <3>3. CASE ~BeginCapture /\ ~FinishCaptureWriting
        BY <1>1, <1>3, <3>3 DEF AppStep, KeyTrigger, AddChildProcess, DriverChanges, WindowsChange,
           ShowReplayUI, FileDeleted, RemoveHooks, RemoveHooksReturns, Exit, threadVars
      <3>4. QED
        BY <3>2, <3>3
    <2>6. QED
      BY <1>1, <1>2, <2>1, <2>2, <2>3, <2>4, <2>5 DEF ApplicationTyped
  <1>4. CASE ServerStep \/ ServerAcceptFails
    <2>1. /\ UNCHANGED <<windows, m_ActiveDrivers, m_RequestControllerShow,
                         m_TargetControlThreadShutdown, life, captureProgress>>
          /\ m_ControlClientThreadShutdown' \in BOOLEAN
          /\ newClient' \in Clients \cup {NoClient}
      BY <1>1, <1>4 DEF ServerStep, ServerAccept, ServerLookup, ServerKick, ServerJoin, ServerClaim,
         ServerSpawn, ServerBusy, ServerStop, ServerAcceptFails, CloseListener, recordVars, lifeVars,
         serveVars, serverVars, threadVars
    <2>2. QED
      BY <1>1, <1>2, <2>1 DEF ApplicationTyped
  <1>5. ASSUME NEW c \in Clients, ThreadStep(c)
        PROVE  ApplicationTyped'
    <2>1. UNCHANGED <<windows, m_ActiveDrivers, m_ControlClientThreadShutdown, newClient,
                      m_TargetControlThreadShutdown, life>>
      BY <1>5 DEF ThreadStep, ThreadHandshake, ThreadSetCallback, ThreadValidate, ThreadTick,
         ThreadCommand, ThreadClearCallback, ThreadClearName, recordVars, lifeVars, serveVars,
         serverVars
    <2>2. m_RequestControllerShow' \in BOOLEAN /\ captureProgress' \in [Clients -> Progress]
      <3>1. CASE ~ThreadTick(c)
        BY <1>1, <1>5, <3>1 DEF ThreadStep, ThreadHandshake, ThreadSetCallback, ThreadValidate,
           ThreadCommand, ThreadClearCallback, ThreadClearName, threadVars
      <3>2. CASE ThreadTick(c)
        <4>1. CASE UNCHANGED <<captureProgress, m_RequestControllerShow>>
          BY <1>1, <4>1
        <4>2. CASE Report(c)
          BY <1>1, <4>2 DEF Report, ReportDriver, ReportCapture, ReportChild, ReportProgress,
             ReportWindows, ReportShow, ReportNothing, Progress
        <4>3. CASE /\ m_RequestControllerShow' = (m_RequestControllerShow /\ ~NewShow(c))
                   /\ UNCHANGED captureProgress
          <5>1. (m_RequestControllerShow /\ ~NewShow(c)) \in BOOLEAN
            BY ZenonT(20)
          <5>2. QED
            BY <1>1, <4>3, <5>1
        <4>4. QED
          BY <3>2, <4>1, <4>2, <4>3 DEF ThreadTick
      <3>3. QED
        BY <3>1, <3>2
    <2>3. QED
      BY <1>1, <1>2, <2>1, <2>2 DEF ApplicationTyped
  <1>6. ASSUME NEW c \in Clients, UIStep(c) \/ Break(c)
        PROVE  ApplicationTyped'
    <2>1. UNCHANGED <<windows, m_ActiveDrivers, m_ControlClientThreadShutdown, newClient, life,
                      m_TargetControlThreadShutdown, m_RequestControllerShow, captureProgress>>
      BY <1>6 DEF UIStep, UIConnect, UIReads, UIHandshake, UIReceive, UILost, UIRequest, UIDelete,
         UICopy, UISend, UIShutdown, Break, appSide, recordVars, lifeVars, serveVars, serverVars,
         threadVars
    <2>2. QED
      BY <1>1, <1>2, <2>1 DEF ApplicationTyped
  <1>7. CASE UNCHANGED vars
    BY <1>1, <1>2, <1>7 DEF ApplicationTyped, vars, recordVars, lifeVars, serveVars, serverVars, threadVars
  <1>8. QED
    BY <1>1, <1>2, <1>3, <1>4, <1>5, <1>6, <1>7 DEF Next

-----------------------------------------------------------------------------
(* The ends of the connections.                                            *)

LinkStates == {"closed", "up", "down"}
UIStates   == {"idle", "waiting", "connected", "busy", "closed"}

\* One connection at a time, the listener's refusals aside.
EndsMove ==
    /\ \/ link' = link
       \/ \E c \in Clients, l \in {"up", "down"} : link' = [link EXCEPT ![c] = l]
       \/ link' = [c \in Clients |-> IF thread[c] = "none" /\ link[c] = "up" THEN "down" ELSE link[c]]
    /\ \/ toUI' = toUI
       \/ \E c \in Clients : \E q : toUI' = [toUI EXCEPT ![c] = q]
    /\ \/ ui' = ui
       \/ \E c \in Clients, u \in UIStates \ {"idle"} : ui' = [ui EXCEPT ![c] = u]

LEMMA EndsStep ==
    ASSUME Stocks, [Next]_vars
    PROVE  EndsMove
  <1>1. CASE AppStep \/ UNCHANGED vars
    <2>1. UNCHANGED <<link, toUI, ui>>
      BY <1>1 DEF AppStep, KeyTrigger, BeginCapture, FinishCaptureWriting, AddChildProcess,
             DriverChanges, WindowsChange, ShowReplayUI, FileDeleted, RemoveHooks,
             RemoveHooksReturns, Exit, vars, socketVars, uiVars
    <2>2. QED
      BY <2>1 DEF EndsMove
  <1>2. ASSUME NEW c \in Clients, CloseServerEnd(c), UNCHANGED ui
        PROVE  EndsMove
    BY <1>2 DEF CloseServerEnd, EndsMove
  <1>3. CASE ServerStep \/ ServerAcceptFails
    <2>1. UNCHANGED ui
      BY <1>3 DEF ServerStep, ServerAccept, ServerLookup, ServerKick, ServerJoin, ServerClaim,
         ServerSpawn, ServerBusy, ServerStop, ServerAcceptFails, CloseListener, uiVars
    <2>2. CASE ServerStop \/ ServerAcceptFails
      BY <2>1, <2>2 DEF ServerStop, ServerAcceptFails, CloseListener, EndsMove
    <2>3. CASE ServerBusy
      <3>1. newClient \in Clients
        BY <2>3 DEF ServerBusy, Stocks, IInv, ClaimantIsNew, Deciding
      <3>2. /\ link' = [link EXCEPT ![newClient] = "down"]
            /\ toUI' = toUI \/ \E q : toUI' = [toUI EXCEPT ![newClient] = q]
        BY <2>3 DEF ServerBusy
      <3>3. QED
        BY <2>1, <3>1, <3>2 DEF EndsMove
    <2>4. ASSUME NEW c \in Clients, ServerAccept(c)
          PROVE  EndsMove
      <3>1. CASE CloseServerEnd(c)
        BY <1>2, <2>1, <3>1
      <3>2. CASE UNCHANGED <<link, toUI>>
        BY <2>1, <3>2 DEF EndsMove
      <3>3. QED
        BY <2>4, <3>1, <3>2 DEF ServerAccept
    <2>5. CASE UNCHANGED socketVars
      BY <2>1, <2>5 DEF socketVars, EndsMove
    <2>6. QED
      BY <1>3, <2>2, <2>3, <2>4, <2>5 DEF ServerStep, ServerLookup, ServerKick, ServerJoin,
         ServerClaim, ServerSpawn
  <1>4. ASSUME NEW c \in Clients, ThreadStep(c)
        PROVE  EndsMove
    <2>1. UNCHANGED ui
      BY <1>4 DEF ThreadStep, ThreadHandshake, ThreadSetCallback, ThreadValidate, ThreadTick,
         ThreadCommand, ThreadClearCallback, ThreadClearName, uiVars
    <2>2. CASE CloseServerEnd(c)
      BY <1>2, <2>1, <2>2
    <2>3. CASE ~CloseServerEnd(c)
      <3>1. UNCHANGED link /\ (toUI' = toUI \/ \E q : toUI' = [toUI EXCEPT ![c] = q])
        <4>1. ASSUME NEW p, Send(c, p)
              PROVE  UNCHANGED link /\ (toUI' = toUI \/ \E q : toUI' = [toUI EXCEPT ![c] = q])
          BY <4>1 DEF Send
        <4>2. CASE ThreadHandshake(c)
          BY <2>3, <4>1, <4>2 DEF ThreadHandshake
        <4>3. CASE ThreadTick(c)
          BY <2>3, <4>1, <4>3 DEF ThreadTick, Report, ReportDriver, ReportCapture, ReportChild,
             ReportProgress, ReportWindows, ReportShow, ReportNothing, socketVars
        <4>4. CASE ThreadCommand(c)
          BY <2>3, <4>4 DEF ThreadCommand, HandleCapture, HandleDelete, HandleCopy, socketVars
        <4>5. QED
          BY <1>4, <4>2, <4>3, <4>4 DEF ThreadStep, ThreadSetCallback, ThreadValidate,
             ThreadClearCallback, ThreadClearName, socketVars
      <3>2. QED
        BY <2>1, <3>1 DEF EndsMove
    <2>4. QED
      BY <2>2, <2>3
  <1>5. ASSUME NEW c \in Clients, UIStep(c) \/ Break(c)
        PROVE  EndsMove
    <2>1. CASE UIConnect(c)
      BY <2>1 DEF UIConnect, EndsMove, UIStates
    <2>2. CASE UILost(c) \/ UIShutdown(c)
      BY <2>2 DEF UILost, UIShutdown, CloseUIEnd, EndsMove, UIStates
    <2>3. CASE UIHandshake(c)
      BY <2>3 DEF UIHandshake, EndsMove, UIStates
    <2>4. CASE UIReceive(c)
      BY <2>4 DEF UIReceive, EndsMove
    <2>5. CASE UIRequest(c) \/ UIDelete(c) \/ UICopy(c)
      BY <2>5 DEF UIRequest, UIDelete, UICopy, UISend, EndsMove
    <2>6. CASE Break(c)
      BY <2>6 DEF Break, uiVars, EndsMove
    <2>7. QED
      BY <1>5, <2>1, <2>2, <2>3, <2>4, <2>5, <2>6 DEF UIStep, UIReads
  <1>6. QED
    BY <1>1, <1>3, <1>4, <1>5 DEF Next

LEMMA CommandsTyped ==
    ASSUME Stocks, RequestMove
    PROVE  /\ toServer' \in [Clients -> Seq(Command)]
           /\ \A c \in Clients : Len(toServer'[c]) <= MaxCommands + 1
  <1>1. /\ toServer \in [Clients -> Seq(Command)] /\ MaxCommands \in Nat
        /\ \A c \in Clients : Len(toServer[c]) <= MaxCommands + 1
    BY Bounds DEF Stocks, EndsTyped, QueuesBounded
  <1>2. CASE toServer' = toServer
    BY <1>1, <1>2
  <1>3. ASSUME NEW c \in Clients, NEW q \in Seq(Command), Len(q) <= MaxCommands + 1,
               toServer' = [toServer EXCEPT ![c] = q]
        PROVE  /\ toServer' \in [Clients -> Seq(Command)]
               /\ \A d \in Clients : Len(toServer'[d]) <= MaxCommands + 1
    BY <1>1, <1>3
  <1>4. CASE CommandsReset
    <2>1. PICK c \in Clients, q \in Seq(Command) :
            Len(q) <= 1 /\ toServer' = [toServer EXCEPT ![c] = q]
      BY <1>4 DEF CommandsReset
    <2>2. Len(q) <= MaxCommands + 1
      BY <1>1, <2>1
    <2>3. QED
      BY <1>3, <2>1, <2>2
  <1>5. ASSUME NEW c \in Clients, CommandRead(c)
        PROVE  /\ toServer' \in [Clients -> Seq(Command)]
               /\ \A d \in Clients : Len(toServer'[d]) <= MaxCommands + 1
    <2>1. toServer[c] # <<>> /\ toServer' = [toServer EXCEPT ![c] = Tail(toServer[c])]
      BY <1>5 DEF CommandRead
    <2>2. Tail(toServer[c]) \in Seq(Command) /\ Len(Tail(toServer[c])) <= MaxCommands + 1
      BY <1>1, <2>1
    <2>3. QED
      BY <1>3, <2>1, <2>2
  <1>6. ASSUME NEW c \in Clients, NEW cmd \in Command, CommandSent(c, cmd)
        PROVE  /\ toServer' \in [Clients -> Seq(Command)]
               /\ \A d \in Clients : Len(toServer'[d]) <= MaxCommands + 1
    <2>1. /\ Len(toServer[c]) < MaxCommands
          /\ toServer' = [toServer EXCEPT ![c] = Append(toServer[c], cmd)]
      BY <1>6 DEF CommandSent
    <2>2. Append(toServer[c], cmd) \in Seq(Command)
          /\ Len(Append(toServer[c], cmd)) <= MaxCommands + 1
      BY <1>1, <2>1
    <2>3. QED
      BY <1>3, <2>1, <2>2
  <1>7. QED
    BY <1>2, <1>4, <1>5, <1>6 DEF RequestMove, NothingAsked, RequestRead, RequestMade

LEMMA StreamBounded ==
    ASSUME Stocks, NEW c \in Clients, StreamMove(c)
    PROVE  /\ Len(toUI'[c]) <= MaxQueue + 1
           /\ link'[c] = "up" => Len(toUI'[c]) <= MaxQueue
  <1>1. /\ toUI[c] \in Seq(Packet) /\ MaxQueue \in Nat /\ MaxQueue >= 1
        /\ Len(toUI[c]) \in Nat /\ Len(toUI[c]) <= MaxQueue + 1
        /\ link[c] = "up" => Len(toUI[c]) <= MaxQueue
    BY Bounds DEF Stocks, EndsTyped, QueuesBounded
  <1>2. CASE StreamKept(c)
    BY <1>1, <1>2 DEF StreamKept
  <1>3. CASE StreamCut(c)
    BY <1>1, <1>3 DEF StreamCut
  <1>4. CASE StreamOpened(c)
    BY <1>1, <1>4 DEF StreamOpened
  <1>5. CASE PacketSent(c)
    <2>1. PICK p \in Packet : toUI'[c] = Append(toUI[c], p)
      BY <1>5 DEF PacketSent
    <2>2. Len(toUI'[c]) = Len(toUI[c]) + 1
      BY <1>1, <2>1
    <2>3. QED
      BY <1>1, <1>5, <2>2 DEF PacketSent
  <1>6. CASE CaptureReported(c)
    <2>1. CASE toUI'[c] = toUI[c] /\ link[c] # "up"
      BY <1>1, <1>6, <2>1 DEF CaptureReported
    <2>2. CASE Len(toUI[c]) < MaxQueue /\ toUI'[c] = Append(toUI[c], CaptureReport(c))
      <3>1. Len(toUI'[c]) = Len(toUI[c]) + 1
        BY <1>1, <2>2
      <3>2. QED
        BY <1>1, <2>2, <3>1
    <2>3. QED
      BY <1>6, <2>1, <2>2 DEF CaptureReported
  <1>7. CASE PacketRead(c)
    <2>1. Len(toUI'[c]) = Len(toUI[c]) - 1 /\ link'[c] = link[c]
      BY <1>1, <1>7 DEF PacketRead
    <2>2. QED
      BY <1>1, <2>1
  <1>8. QED
    BY <1>2, <1>3, <1>4, <1>5, <1>6, <1>7 DEF StreamMove

LEMMA EndsKept ==
    ASSUME Stocks, [Next]_vars
    PROVE  EndsTyped' /\ QueuesBounded'
  <1>1. /\ link \in [Clients -> LinkStates] /\ ui \in [Clients -> UIStates]
        /\ toUI \in [Clients -> Seq(Packet)]
    BY DEF Stocks, EndsTyped, LinkStates, UIStates
  <1>2. EndsMove /\ RequestMove
    BY EndsStep, RequestsMove
  <1>3. link' \in [Clients -> LinkStates] /\ ui' \in [Clients -> UIStates]
    BY <1>1, <1>2 DEF EndsMove, LinkStates
  <1>4. \A c \in Clients : /\ toUI'[c] \in Seq(Packet) /\ Len(toUI'[c]) <= MaxQueue + 1
                           /\ link'[c] = "up" => Len(toUI'[c]) <= MaxQueue
    BY Streams, StreamTyped, StreamBounded
  <1>5. toUI' \in [Clients -> Seq(Packet)]
    <2>1. toUI' = [c \in Clients |-> toUI'[c]]
      BY <1>1, <1>2 DEF EndsMove
    <2>2. QED
      BY <1>4, <2>1
  <1>6. QED
    BY <1>2, <1>3, <1>4, <1>5, CommandsTyped DEF EndsTyped, QueuesBounded, LinkStates, UIStates

-----------------------------------------------------------------------------
(* What the ends know of each other.                                       *)

LEMMA SentTyped ==
    ASSUME Stocks, NEW c \in Clients, InLoop(c), Report(c)
    PROVE  /\ sent' \in [Clients -> SentRec]
           /\ \A d \in Clients : sent'[d].children <= m_Children
  <1>1. /\ sent \in [Clients -> SentRec] /\ captureProgress \in [Clients -> Progress]
        /\ \A d \in Clients : sent[d].children <= m_Children
        /\ m_ActiveDrivers \in Status /\ windows \in 0 .. MaxWindows
        /\ m_Children \in 0 .. MaxChildren /\ MaxChildren \in Nat /\ MaxCaptures \in Nat
    BY Bounds DEF Stocks, KnownTyped, ApplicationTyped
  <1> DEFINE old == sent[c]
  <1>2. /\ old \in SentRec /\ old.captures \in 0 .. MaxCaptures /\ old.children \in 0 .. MaxChildren
        /\ old.drivers \in Status /\ old.windows \in 0 .. MaxWindows /\ old.progress \in Progress
        /\ old = [captures |-> old.captures, children |-> old.children, drivers |-> old.drivers,
                  windows |-> old.windows, progress |-> old.progress]
    BY <1>1 DEF SentRec
  <1>3. ASSUME NEW new \in SentRec, sent' = [sent EXCEPT ![c] = new], new.children <= m_Children
        PROVE  /\ sent' \in [Clients -> SentRec]
               /\ \A d \in Clients : sent'[d].children <= m_Children
    BY <1>1, <1>3
  <1>4. CASE ReportDriver(c)
    <2>1. PICK v \in Drivers :
            sent' = [sent EXCEPT ![c] = [old EXCEPT !.drivers = [old.drivers EXCEPT ![v] = m_ActiveDrivers[v]]]]
      BY <1>4 DEF ReportDriver
    <2> DEFINE drivers == [old.drivers EXCEPT ![v] = m_ActiveDrivers[v]]
               new == [captures |-> old.captures, children |-> old.children, drivers |-> drivers,
                       windows |-> old.windows, progress |-> old.progress]
    <2>2. drivers \in Status
      BY <1>1, <1>2 DEF Status
    <2>3. new = [old EXCEPT !.drivers = drivers]
      <3> HIDE DEF drivers
      <3>1. QED
        BY <1>2
    <2>4. new \in SentRec /\ new.children = old.children
      <3> HIDE DEF drivers
      <3>1. QED
        BY <1>2, <2>2 DEF SentRec
    <2>5. sent' = [sent EXCEPT ![c] = new]
      BY <2>1, <2>3
    <2> HIDE DEF new
    <2>6. QED
      BY <1>1, <1>3, <2>4, <2>5
  <1>5. CASE ReportCapture(c)
    <2> DEFINE new == [captures |-> old.captures + 1, children |-> old.children,
                       drivers |-> old.drivers, windows |-> old.windows, progress |-> old.progress]
    <2>1. sent' = [sent EXCEPT ![c] = [old EXCEPT !.captures = old.captures + 1]] /\ NewCapture(c)
      BY <1>5 DEF ReportCapture
    <2>2. old.captures + 1 \in 0 .. MaxCaptures
      <3>1. old.captures <= Len(m_Captures) /\ old.captures # Len(m_Captures)
        BY <2>1 DEF NewCapture, Stocks, SentIsInTheList
      <3>2. Len(m_Captures) \in 0 .. MaxCaptures
        BY WrittenBounded
      <3>3. QED
        BY <1>1, <1>2, <3>1, <3>2
    <2>3. new = [old EXCEPT !.captures = old.captures + 1]
      BY <1>2
    <2>4. new \in SentRec /\ new.children = old.children
      BY <1>2, <2>2 DEF SentRec
    <2>5. sent' = [sent EXCEPT ![c] = new]
      BY <2>1, <2>3
    <2> HIDE DEF new
    <2>6. QED
      BY <1>1, <1>3, <2>4, <2>5
  <1>6. CASE ReportChild(c)
    <2> DEFINE new == [captures |-> old.captures, children |-> old.children + 1,
                       drivers |-> old.drivers, windows |-> old.windows, progress |-> old.progress]
    <2>1. sent' = [sent EXCEPT ![c] = [old EXCEPT !.children = old.children + 1]]
          /\ old.children # m_Children
      BY <1>6 DEF ReportChild, NewChild
    <2>2. old.children + 1 \in 0 .. MaxChildren /\ old.children + 1 <= m_Children
      BY <1>1, <1>2, <2>1
    <2>3. new = [old EXCEPT !.children = old.children + 1]
      BY <1>2
    <2>4. new \in SentRec /\ new.children <= m_Children
      BY <1>2, <2>2 DEF SentRec
    <2>5. sent' = [sent EXCEPT ![c] = new]
      BY <2>1, <2>3
    <2> HIDE DEF new
    <2>6. QED
      BY <1>3, <2>4, <2>5
  <1>7. ASSUME NEW p \in Progress, sent' = [sent EXCEPT ![c].progress = p]
        PROVE  /\ sent' \in [Clients -> SentRec]
               /\ \A d \in Clients : sent'[d].children <= m_Children
    <2> DEFINE new == [captures |-> old.captures, children |-> old.children,
                       drivers |-> old.drivers, windows |-> old.windows, progress |-> p]
    <2>1. sent' = [sent EXCEPT ![c] = [old EXCEPT !.progress = p]]
      BY <1>7
    <2>2. new = [old EXCEPT !.progress = p]
      BY <1>2
    <2>3. new \in SentRec /\ new.children = old.children
      BY <1>2 DEF SentRec
    <2>4. sent' = [sent EXCEPT ![c] = new]
      BY <2>1, <2>2
    <2> HIDE DEF new
    <2>5. QED
      BY <1>1, <1>3, <2>3, <2>4
  <1>8. CASE ReportProgress(c) \/ ReportShow(c) \/ ReportNothing(c)
    <2>1. CASE sent' = sent
      BY <1>1, <2>1
    <2>2. CASE sent' # sent
      <3>1. \E p \in Progress : sent' = [sent EXCEPT ![c].progress = p]
        BY <1>1, <1>8, <2>2 DEF ReportProgress, ReportShow, ReportNothing, Progress
      <3>2. QED
        BY <1>7, <3>1
    <2>3. QED
      BY <2>1, <2>2
  <1>9. CASE ReportWindows(c)
    <2> DEFINE new == [captures |-> old.captures, children |-> old.children,
                       drivers |-> old.drivers, windows |-> windows, progress |-> old.progress]
    <2>1. sent' = [sent EXCEPT ![c] = [old EXCEPT !.windows = windows]]
      BY <1>9 DEF ReportWindows
    <2>2. new = [old EXCEPT !.windows = windows]
      BY <1>2
    <2>3. new \in SentRec /\ new.children = old.children
      BY <1>1, <1>2 DEF SentRec
    <2>4. sent' = [sent EXCEPT ![c] = new]
      BY <2>1, <2>2
    <2> HIDE DEF new
    <2>5. QED
      BY <1>1, <1>3, <2>3, <2>4
  <1>10. QED
    BY <1>4, <1>5, <1>6, <1>8, <1>9 DEF Report

LEMMA ViewTyped ==
    ASSUME Stocks, NEW c \in Clients, UIReceive(c)
    PROVE  view' \in [Clients -> ViewRec] /\ m_CaptureCopies' \in [Clients -> [Ids -> Paths \cup {NoPath}]]
  <1>1. /\ view \in [Clients -> ViewRec] /\ toUI[c] \in Seq(Packet) /\ toUI[c] # <<>>
        /\ m_CaptureCopies \in [Clients -> [Ids -> Paths \cup {NoPath}]]
    BY DEF Stocks, KnownTyped, EndsTyped, UIReceive
  <1> DEFINE old == view[c]
             packet == Head(toUI[c])
  <1>2. packet \in Packet
    BY <1>1
  <1>3. /\ packet.type = "NewCapture" => packet.file \in Ids
        /\ packet.type = "APIUse" => packet.driver \in Drivers /\ packet.status \in 0 .. MaxDriverChanges
        /\ packet.type = "Progress" => packet.progress \in Progress
        /\ packet.type = "Windows" => packet.windows \in 0 .. MaxWindows
    BY <1>2, PacketFields
  <1>4. /\ old.captures \in Seq(Ids) /\ old.children \in Nat
        /\ old.drivers \in Status /\ old.windows \in 0 .. MaxWindows /\ old.progress \in Progress
        /\ old = [captures |-> old.captures, children |-> old.children, drivers |-> old.drivers,
                  windows |-> old.windows, progress |-> old.progress]
    BY <1>1 DEF ViewRec
  <1>5. ASSUME NEW new \in ViewRec, view' = [view EXCEPT ![c] = new]
        PROVE  view' \in [Clients -> ViewRec]
    BY <1>1, <1>5
  <1>6. m_CaptureCopies' \in [Clients -> [Ids -> Paths \cup {NoPath}]]
    <2>1. \/ m_CaptureCopies' = m_CaptureCopies
          \/ m_CaptureCopies' = [m_CaptureCopies EXCEPT ![c][packet.id] = NoPath]
      BY DEF UIReceive
    <2>2. QED
      BY <1>1, <2>1
  <1>7. CASE view' = view
    BY <1>1, <1>6, <1>7
  <1>8. CASE packet.type = "APIUse" /\ view' = [view EXCEPT ![c].drivers[packet.driver] = packet.status]
    <2> DEFINE drivers == [old.drivers EXCEPT ![packet.driver] = packet.status]
               new == [captures |-> old.captures, children |-> old.children, drivers |-> drivers,
                       windows |-> old.windows, progress |-> old.progress]
    <2>1. view' = [view EXCEPT ![c] = [old EXCEPT !.drivers = drivers]]
      BY <1>8
    <2>2. drivers \in Status
      BY <1>3, <1>4, <1>8 DEF Status
    <2>3. new = [old EXCEPT !.drivers = drivers] /\ new \in ViewRec
      <3> HIDE DEF drivers
      <3>1. QED
        BY <1>4, <2>2 DEF ViewRec
    <2>4. view' = [view EXCEPT ![c] = new]
      BY <2>1, <2>3
    <2> HIDE DEF new
    <2>5. QED
      BY <1>5, <1>6, <2>3, <2>4
  <1>9. CASE packet.type = "NewCapture" /\ view' = [view EXCEPT ![c].captures = Append(@, packet.file)]
    <2> DEFINE captures == Append(old.captures, packet.file)
               new == [captures |-> captures, children |-> old.children, drivers |-> old.drivers,
                       windows |-> old.windows, progress |-> old.progress]
    <2>1. view' = [view EXCEPT ![c] = [old EXCEPT !.captures = captures]]
      BY <1>9
    <2>2. captures \in Seq(Ids)
      BY <1>3, <1>4, <1>9
    <2>3. new = [old EXCEPT !.captures = captures] /\ new \in ViewRec
      <3> HIDE DEF captures
      <3>1. QED
        BY <1>4, <2>2 DEF ViewRec
    <2>4. view' = [view EXCEPT ![c] = new]
      BY <2>1, <2>3
    <2> HIDE DEF new
    <2>5. QED
      BY <1>5, <1>6, <2>3, <2>4
  <1>10. CASE view' = [view EXCEPT ![c].children = @ + 1]
    <2> DEFINE new == [captures |-> old.captures, children |-> old.children + 1, drivers |-> old.drivers,
                       windows |-> old.windows, progress |-> old.progress]
    <2>1. view' = [view EXCEPT ![c] = [old EXCEPT !.children = old.children + 1]]
      BY <1>10
    <2>2. old.children + 1 \in Nat
      BY <1>4
    <2>3. new = [old EXCEPT !.children = old.children + 1] /\ new \in ViewRec
      <3> HIDE DEF packet
      <3>1. QED
        BY <1>4, <2>2 DEF ViewRec
    <2>4. view' = [view EXCEPT ![c] = new]
      BY <2>1, <2>3
    <2> HIDE DEF new
    <2>5. QED
      BY <1>5, <1>6, <2>3, <2>4
  <1>11. CASE packet.type = "Progress" /\ view' = [view EXCEPT ![c].progress = packet.progress]
    <2> DEFINE new == [captures |-> old.captures, children |-> old.children, drivers |-> old.drivers,
                       windows |-> old.windows, progress |-> packet.progress]
    <2>1. view' = [view EXCEPT ![c] = [old EXCEPT !.progress = packet.progress]]
      BY <1>11
    <2>2. packet.progress \in Progress
      BY <1>3, <1>11
    <2>3. new = [old EXCEPT !.progress = packet.progress] /\ new \in ViewRec
      <3> HIDE DEF packet
      <3>1. QED
        BY <1>4, <2>2 DEF ViewRec
    <2>4. view' = [view EXCEPT ![c] = new]
      BY <2>1, <2>3
    <2> HIDE DEF new
    <2>5. QED
      BY <1>5, <1>6, <2>3, <2>4
  <1>12. CASE packet.type = "Windows" /\ view' = [view EXCEPT ![c].windows = packet.windows]
    <2> DEFINE new == [captures |-> old.captures, children |-> old.children, drivers |-> old.drivers,
                       windows |-> packet.windows, progress |-> old.progress]
    <2>1. view' = [view EXCEPT ![c] = [old EXCEPT !.windows = packet.windows]]
      BY <1>12
    <2>2. packet.windows \in 0 .. MaxWindows
      BY <1>3, <1>12
    <2>3. new = [old EXCEPT !.windows = packet.windows] /\ new \in ViewRec
      <3> HIDE DEF packet
      <3>1. QED
        BY <1>4, <2>2 DEF ViewRec
    <2>4. view' = [view EXCEPT ![c] = new]
      BY <2>1, <2>3
    <2> HIDE DEF new
    <2>5. QED
      BY <1>5, <1>6, <2>3, <2>4
  <1>13. QED
    BY <1>7, <1>8, <1>9, <1>10, <1>11, <1>12 DEF UIReceive

LEMMA KnownKept ==
    ASSUME Stocks, [Next]_vars
    PROVE  KnownTyped' /\ askedFor \subseteq askedFor'
  <1>1. /\ sent \in [Clients -> SentRec] /\ view \in [Clients -> ViewRec]
        /\ \A d \in Clients : sent[d].children <= m_Children
        /\ m_CaptureCopies \in [Clients -> [Ids -> Paths \cup {NoPath}]]
        /\ askedFor \subseteq Ids
    BY DEF Stocks, KnownTyped
  <1>2. /\ m_Children \in Nat /\ m_Children' \in Nat /\ m_Children <= m_Children'
    BY ApplicationKept DEF Stocks, ApplicationTyped
  <1>3. ASSUME /\ sent' \in [Clients -> SentRec]
               /\ \A d \in Clients : sent'[d].children <= m_Children,
               view' \in [Clients -> ViewRec],
               m_CaptureCopies' \in [Clients -> [Ids -> Paths \cup {NoPath}]],
               askedFor' \subseteq Ids
        PROVE  KnownTyped'
    <2>1. ASSUME NEW d \in Clients
          PROVE  sent'[d].children <= m_Children'
      <3>1. sent'[d].children \in Nat
        BY <1>3 DEF SentRec
      <3>2. sent'[d].children <= m_Children
        BY <1>3
      <3>3. QED
        BY <1>2, <3>1, <3>2
    <2>2. QED
      BY <1>3, <2>1 DEF KnownTyped
  <1>4. CASE UNCHANGED <<sent, view, m_CaptureCopies, askedFor>>
    BY <1>1, <1>3, <1>4
  <1>5. ASSUME NEW c \in Clients, ThreadStep(c)
        PROVE  KnownTyped' /\ askedFor \subseteq askedFor'
    <2>1. UNCHANGED <<view, m_CaptureCopies, askedFor>>
      BY <1>5 DEF ThreadStep, ThreadHandshake, ThreadSetCallback, ThreadValidate, ThreadTick,
         ThreadCommand, ThreadClearCallback, ThreadClearName, uiVars
    <2>2. CASE sent' = sent
      BY <1>4, <2>1, <2>2
    <2>3. CASE sent' # sent
      <3>1. ThreadTick(c)
        BY <1>5, <2>3 DEF ThreadStep, ThreadHandshake, ThreadSetCallback, ThreadValidate,
           ThreadCommand, ThreadClearCallback, ThreadClearName
      <3>2. InLoop(c) /\ Report(c)
        BY <2>3, <3>1 DEF ThreadTick, InLoop
      <3>3. QED
        BY <1>1, <1>3, <2>1, <3>2, SentTyped
    <2>4. QED
      BY <2>2, <2>3
  <1>6. ASSUME NEW c \in Clients, UIStep(c) \/ Break(c)
        PROVE  KnownTyped' /\ askedFor \subseteq askedFor'
    <2>1. UNCHANGED sent
      BY <1>6 DEF UIStep, UIConnect, UIReads, UIHandshake, UIReceive, UILost, UIRequest, UIDelete,
         UICopy, UISend, UIShutdown, Break, appSide, threadVars
    <2>2. CASE UIReceive(c)
      <3>1. askedFor' = askedFor
        BY <2>2 DEF UIReceive
      <3>2. QED
        BY <1>1, <1>3, <2>1, <2>2, <3>1, ViewTyped
    <2>3. CASE UIDelete(c) \/ UICopy(c)
      <3>1. view[c].captures \in Seq(Ids)
        BY <1>1 DEF ViewRec
      <3>2. \A id \in DOMAIN view[c].captures : view[c].captures[id] \in Ids
        BY <3>1
      <3>3. view' = view /\ (\E id \in DOMAIN view[c].captures :
                               askedFor' = askedFor \cup {view[c].captures[id]})
        BY <2>3 DEF UIDelete, UICopy, UISend
      <3>4. \/ m_CaptureCopies' = m_CaptureCopies
            \/ \E id \in DOMAIN view[c].captures, path \in Paths :
                 m_CaptureCopies' = [m_CaptureCopies EXCEPT ![c][id] = path]
        BY <2>3 DEF UIDelete, UICopy
      <3>5. m_CaptureCopies' \in [Clients -> [Ids -> Paths \cup {NoPath}]]
        <4>1. ASSUME NEW id, NEW path \in Paths, m_CaptureCopies' = [m_CaptureCopies EXCEPT ![c][id] = path]
              PROVE  m_CaptureCopies' \in [Clients -> [Ids -> Paths \cup {NoPath}]]
          <5> DEFINE copies == [m_CaptureCopies[c] EXCEPT ![id] = path]
          <5>1. copies \in [Ids -> Paths \cup {NoPath}]
            BY <1>1
          <5>2. m_CaptureCopies' = [m_CaptureCopies EXCEPT ![c] = copies]
            BY <4>1
          <5> HIDE DEF copies
          <5>3. QED
            BY <1>1, <5>1, <5>2
        <4>2. QED
          BY <1>1, <3>4, <4>1
      <3>6. QED
        BY <1>1, <1>3, <2>1, <3>2, <3>3, <3>5
    <2>4. CASE ~UIReceive(c) /\ ~UIDelete(c) /\ ~UICopy(c)
      <3>1. UNCHANGED <<view, m_CaptureCopies, askedFor>>
        BY <1>6, <2>4 DEF UIStep, UIConnect, UIReads, UIHandshake, UILost, UIRequest, UISend,
           UIShutdown, Break, uiVars
      <3>2. QED
        BY <1>4, <2>1, <3>1
    <2>5. QED
      BY <2>2, <2>3, <2>4
  <1>7. CASE ServerStep \/ ServerAcceptFails
    BY <1>4, <1>7 DEF ServerStep, ServerAccept, ServerLookup, ServerKick, ServerJoin, ServerClaim,
       ServerSpawn, ServerBusy, ServerStop, ServerAcceptFails, CloseListener, uiVars, threadVars
  <1>8. CASE AppStep \/ UNCHANGED vars
    BY <1>4, <1>8 DEF AppStep, KeyTrigger, BeginCapture, FinishCaptureWriting, AddChildProcess,
       DriverChanges, WindowsChange, ShowReplayUI, FileDeleted, RemoveHooks, RemoveHooksReturns, Exit,
       vars, uiVars, threadVars
  <1>9. QED
    BY <1>5, <1>6, <1>7, <1>8 DEF Next

-----------------------------------------------------------------------------
(* Before the connection, and what the UI asked for.                       *)

LEMMA IdleKept ==
    ASSUME Stocks, [Next]_vars
    PROVE  IdleIsUntouched'
  <1> SUFFICES ASSUME NEW d \in Clients, ui'[d] = "idle"
               PROVE  /\ link'[d] = "closed" /\ thread'[d] = "none" /\ toUI'[d] = <<>>
                      /\ ~(serverPC' \in Deciding /\ newClient' = d)
    BY DEF IdleIsUntouched
  <1>1. /\ link \in [Clients -> LinkStates] /\ ui \in [Clients -> UIStates]
        /\ toUI \in [Clients -> Seq(Packet)] /\ thread \in [Clients -> ThreadPC]
    BY DEF Stocks, EndsTyped, LinkStates, UIStates, IInv, CoreTypes
  <1>2. ui[d] = "idle"
    BY <1>1, EndsStep DEF EndsMove
  <1>3. /\ link[d] = "closed" /\ thread[d] = "none" /\ toUI[d] = <<>>
        /\ ~(serverPC \in Deciding /\ newClient = d)
    BY <1>2 DEF Stocks, IdleIsUntouched
  <1>4. CASE AppStep \/ UNCHANGED vars
    <2>1. UNCHANGED <<link, toUI, thread, serverPC, newClient>>
      BY <1>4 DEF AppStep, KeyTrigger, BeginCapture, FinishCaptureWriting, AddChildProcess,
         DriverChanges, WindowsChange, ShowReplayUI, FileDeleted, RemoveHooks, RemoveHooksReturns,
         Exit, vars, socketVars, threadVars, serverVars
    <2>2. QED
      BY <1>3, <2>1
  <1>5. CASE ServerStep \/ ServerAcceptFails
    <2>1. ASSUME NEW c \in Clients, ServerAccept(c)
          PROVE  /\ link'[d] = "closed" /\ thread'[d] = "none" /\ toUI'[d] = <<>>
                 /\ ~(serverPC' \in Deciding /\ newClient' = d)
      <3>1. c # d /\ UNCHANGED thread
        BY <1>3, <2>1 DEF ServerAccept, threadVars
      <3>2. CASE CloseServerEnd(c) /\ UNCHANGED serverVars
        BY <1>1, <1>3, <3>1, <3>2 DEF CloseServerEnd, serverVars
      <3>3. CASE UNCHANGED <<link, toUI>> /\ newClient' = c
        BY <1>3, <3>1, <3>3
      <3>4. QED
        BY <2>1, <3>2, <3>3 DEF ServerAccept
    <2>2. CASE ServerSpawn
      <3>1. /\ newClient # d /\ newClient' = NoClient /\ UNCHANGED <<link, toUI>>
            /\ thread' = [thread EXCEPT ![newClient] = "handshake"]
        BY <1>3, <2>2 DEF ServerSpawn, Deciding, socketVars
      <3>2. QED
        BY <1>1, <1>3, <3>1, ClientsAssumption
    <2>3. CASE ServerBusy
      <3>1. /\ newClient # d /\ newClient' = NoClient /\ UNCHANGED thread
            /\ link' = [link EXCEPT ![newClient] = "down"]
            /\ toUI' = toUI \/ \E q : toUI' = [toUI EXCEPT ![newClient] = q]
        BY <1>3, <2>3 DEF ServerBusy, Deciding, threadVars
      <3>2. QED
        BY <1>1, <1>3, <3>1, ClientsAssumption
    <2>4. CASE ServerStop \/ ServerAcceptFails
      <3>1. /\ UNCHANGED <<thread, toUI>> /\ serverPC' = "stopped" /\ link'[d] = link[d]
        BY <1>1, <1>3, <2>4 DEF ServerStop, ServerAcceptFails, CloseListener, threadVars
      <3>2. QED
        BY <1>3, <3>1 DEF Deciding
    <2>5. CASE ServerLookup \/ ServerKick \/ ServerJoin \/ ServerClaim
      <3>1. UNCHANGED <<link, toUI, thread, newClient>> /\ serverPC \in Deciding
        BY <2>5 DEF ServerLookup, ServerKick, ServerJoin, ServerClaim, Deciding, socketVars, threadVars
      <3>2. QED
        BY <1>3, <3>1
    <2>6. QED
      BY <1>5, <2>1, <2>2, <2>3, <2>4, <2>5 DEF ServerStep
  <1>6. ASSUME NEW c \in Clients, c # d, UNCHANGED <<serverPC, newClient>>,
               thread' = thread \/ \E pc : thread' = [thread EXCEPT ![c] = pc],
               link' = link \/ \E l : link' = [link EXCEPT ![c] = l],
               toUI' = toUI \/ \E q : toUI' = [toUI EXCEPT ![c] = q]
        PROVE  /\ link'[d] = "closed" /\ thread'[d] = "none" /\ toUI'[d] = <<>>
               /\ ~(serverPC' \in Deciding /\ newClient' = d)
    BY <1>1, <1>3, <1>6
  <1>7. ASSUME NEW c \in Clients, ThreadStep(c)
        PROVE  /\ link'[d] = "closed" /\ thread'[d] = "none" /\ toUI'[d] = <<>>
               /\ ~(serverPC' \in Deciding /\ newClient' = d)
    <2>1. c # d
      BY <1>3, <1>7 DEF ThreadStep, ThreadHandshake, ThreadSetCallback, ThreadValidate, ThreadTick,
         ThreadCommand, ThreadClearCallback, ThreadClearName
    <2>2. UNCHANGED <<serverPC, newClient>> /\ \E pc : thread' = [thread EXCEPT ![c] = pc]
      BY <1>7 DEF ThreadStep, ThreadHandshake, ThreadSetCallback, ThreadValidate, ThreadTick,
         ThreadCommand, HandleCapture, HandleDelete, HandleCopy, ThreadClearCallback,
         ThreadClearName, Goto, serverVars
    <2>3. /\ link' = link \/ \E l : link' = [link EXCEPT ![c] = l]
          /\ toUI' = toUI \/ \E q : toUI' = [toUI EXCEPT ![c] = q]
      <3>1. CASE CloseServerEnd(c)
        BY <3>1 DEF CloseServerEnd
      <3>2. ASSUME NEW p, Send(c, p)
            PROVE  UNCHANGED link /\ (toUI' = toUI \/ \E q : toUI' = [toUI EXCEPT ![c] = q])
        BY <3>2 DEF Send
      <3>3. CASE ThreadTick(c)
        BY <3>1, <3>2, <3>3 DEF ThreadTick, Report, ReportDriver, ReportCapture, ReportChild,
           ReportProgress, ReportWindows, ReportShow, ReportNothing, socketVars
      <3>4. CASE ThreadCommand(c)
        BY <3>1, <3>4 DEF ThreadCommand, HandleCapture, HandleDelete, HandleCopy, socketVars
      <3>5. CASE ThreadHandshake(c)
        BY <3>1, <3>2, <3>5 DEF ThreadHandshake
      <3>6. QED
        BY <1>7, <3>3, <3>4, <3>5 DEF ThreadStep, ThreadSetCallback, ThreadValidate,
           ThreadClearCallback, ThreadClearName, socketVars
    <2>4. QED
      BY <1>6, <2>1, <2>2, <2>3
  <1>8. ASSUME NEW c \in Clients, UIStep(c) \/ Break(c)
        PROVE  /\ link'[d] = "closed" /\ thread'[d] = "none" /\ toUI'[d] = <<>>
               /\ ~(serverPC' \in Deciding /\ newClient' = d)
    <2>1. c # d
      <3>1. CASE UIConnect(c)
        <4>1. ui'[c] = "waiting"
          BY <1>1, <3>1 DEF UIConnect
        <4>2. QED
          BY <4>1
      <3>2. CASE Break(c)
        BY <1>3, <3>2 DEF Break
      <3>3. QED
        BY <1>2, <1>8, <3>1, <3>2 DEF UIStep, UIReads, UIHandshake, UIReceive, UILost, UIRequest,
           UIDelete, UICopy, UISend, UIShutdown
    <2>2. UNCHANGED <<serverPC, newClient, thread>>
      BY <1>8 DEF UIStep, UIConnect, UIReads, UIHandshake, UIReceive, UILost, UIRequest, UIDelete,
         UICopy, UISend, UIShutdown, Break, appSide, threadVars, serverVars
    <2>3. /\ link' = link \/ \E l : link' = [link EXCEPT ![c] = l]
          /\ toUI' = toUI \/ \E q : toUI' = [toUI EXCEPT ![c] = q]
      BY <1>8 DEF UIStep, UIConnect, UIReads, UIHandshake, UIReceive, UILost, UIRequest, UIDelete,
         UICopy, UISend, UIShutdown, CloseUIEnd, Break
    <2>4. QED
      BY <1>6, <2>1, <2>2, <2>3
  <1>9. QED
    BY <1>4, <1>5, <1>7, <1>8 DEF Next

\* A UI never loses a capture it saw.
LEMMA SeenGrows ==
    ASSUME Stocks, NEW c \in Clients, StreamMove(c)
    PROVE  /\ Len(view[c].captures) \in Nat /\ Len(view'[c].captures) \in Nat
           /\ Len(view[c].captures) <= Len(view'[c].captures)
           /\ \A id \in 1 .. Len(view[c].captures) : view'[c].captures[id] = view[c].captures[id]
  <1>1. toUI[c] \in Seq(Packet) /\ view[c].captures \in Seq(Ids)
    BY DEF Stocks, EndsTyped, KnownTyped, ViewRec
  <1>2. CASE view'[c].captures = view[c].captures
    BY <1>1, <1>2
  <1>3. CASE view'[c].captures # view[c].captures
    <2>1. /\ toUI[c] # <<>> /\ Head(toUI[c]).type = "NewCapture"
          /\ view'[c].captures = Append(view[c].captures, Head(toUI[c]).file)
      BY <1>3 DEF StreamMove, StreamKept, StreamCut, StreamOpened, PacketSent, CaptureReported,
         PacketRead, SameSeen
    <2>2. Head(toUI[c]) \in Packet
      BY <1>1, <2>1
    <2>3. Head(toUI[c]).file \in Ids
      BY <2>1, <2>2, PacketFields
    <2>4. QED
      BY <1>1, <2>1, <2>3
  <1>4. QED
    BY <1>2, <1>3

\* Commands keep naming captures their UI saw.
LEMMA CommandsKept ==
    ASSUME Stocks, RequestMove, askedFor \subseteq askedFor', NEW d \in Clients, StreamMove(d)
    PROVE  CommandsSeen(d)'
  <1> DEFINE Seen(cmd) == /\ cmd.id \in 1 .. Len(view[d].captures)
                          /\ cmd.file = view[d].captures[cmd.id]
                          /\ cmd.file \in askedFor'
  <1>1. /\ toServer \in [Clients -> Seq(Command)]
        /\ \A i \in 1 .. Len(toServer[d]) :
             toServer[d][i].type \in {"Delete", "Copy"} => Seen(toServer[d][i])
    BY DEF Stocks, EndsTyped, CommandsSeen
  <1>2. ASSUME NEW cmd, Seen(cmd)
        PROVE  /\ cmd.id \in 1 .. Len(view'[d].captures)
               /\ cmd.file = view'[d].captures[cmd.id]
               /\ cmd.file \in askedFor'
    BY <1>2, SeenGrows
  <1>3. SUFFICES ASSUME NEW i \in 1 .. Len(toServer'[d]), toServer'[d][i].type \in {"Delete", "Copy"}
                 PROVE  Seen(toServer'[d][i])
    BY <1>2, <1>3 DEF CommandsSeen
  <1> HIDE DEF Seen
  <1>4. CASE toServer'[d] = toServer[d]
    BY <1>1, <1>3, <1>4
  <1>5. CASE CommandsReset
    <2>1. PICK c \in Clients, q \in Seq(Command) :
            /\ \A j \in 1 .. Len(q) : q[j].type = "Handshake"
            /\ toServer' = [toServer EXCEPT ![c] = q]
      BY <1>5 DEF CommandsReset
    <2>2. CASE c = d
      BY <1>1, <1>3, <2>1, <2>2
    <2>3. CASE c # d
      BY <1>1, <1>4, <2>1, <2>3
    <2>4. QED
      BY <2>2, <2>3
  <1>6. ASSUME NEW c \in Clients, CommandRead(c)
        PROVE  Seen(toServer'[d][i])
    <2>1. CASE c = d
      <3>1. toServer[d] # <<>> /\ toServer'[d] = Tail(toServer[d])
        BY <1>1, <1>6, <2>1 DEF CommandRead
      <3>2. i + 1 \in 1 .. Len(toServer[d]) /\ toServer'[d][i] = toServer[d][i + 1]
        BY <1>1, <3>1
      <3>3. QED
        BY <1>1, <1>3, <3>2
    <2>2. CASE c # d
      BY <1>1, <1>4, <1>6, <2>2 DEF CommandRead
    <2>3. QED
      BY <2>1, <2>2
  <1>7. ASSUME NEW c \in Clients, NEW cmd \in Command, CommandSent(c, cmd)
        PROVE  Seen(toServer'[d][i])
    <2>1. CASE c = d
      <3>1. toServer'[d] = Append(toServer[d], cmd)
        BY <1>1, <1>7, <2>1 DEF CommandSent
      <3>2. CASE i = Len(toServer[d]) + 1
        <4>1. toServer'[d][i] = cmd
          BY <1>1, <3>1, <3>2
        <4>2. QED
          BY <1>3, <1>7, <2>1, <4>1 DEF CommandSent, Seen
      <3>3. CASE i # Len(toServer[d]) + 1
        <4>1. i \in 1 .. Len(toServer[d]) /\ toServer'[d][i] = toServer[d][i]
          BY <1>1, <3>1, <3>3
        <4>2. QED
          BY <1>1, <1>3, <4>1
      <3>4. QED
        BY <3>2, <3>3
    <2>2. CASE c # d
      BY <1>1, <1>4, <1>7, <2>2 DEF CommandSent
    <2>3. QED
      BY <2>1, <2>2
  <1>8. QED
    BY <1>4, <1>5, <1>6, <1>7 DEF RequestMove, NothingAsked, RequestRead, RequestMade

LEMMA AskedForKept ==
    ASSUME Stocks, ListMove, askedFor \subseteq askedFor'
    PROVE  OnlyAskedForAreRetrieved'
  <1> DEFINE Fine(captures) == \A i \in 1 .. Len(captures) :
                                 captures[i].retrieved => captures[i].file \in askedFor
  <1>1. m_Captures \in Seq(Entry) /\ m_Captures' \in Seq(Entry)
    BY ListTyped DEF Stocks, RecordsTyped
  <1>2. DOMAIN m_Captures = 1 .. Len(m_Captures) /\ DOMAIN m_Captures' = 1 .. Len(m_Captures')
    BY <1>1
  <1>3. Fine(m_Captures)
    BY <1>2 DEF Stocks, OnlyAskedForAreRetrieved, Retrieved
  <1>4. SUFFICES Fine(m_Captures')
    BY <1>2, <1>4 DEF OnlyAskedForAreRetrieved, Retrieved
  <1>5. CASE ListKept
    BY <1>3, <1>5 DEF ListKept
  <1>6. CASE ListGrown
    <2> DEFINE entry == [file |-> written + 1, retrieved |-> FALSE]
    <2>1. m_Captures' = Append(m_Captures, entry) /\ entry.retrieved = FALSE
      BY <1>6 DEF ListGrown
    <2> HIDE DEF entry
    <2>2. /\ Len(m_Captures') = Len(m_Captures) + 1 /\ m_Captures'[Len(m_Captures) + 1] = entry
          /\ \A i \in 1 .. Len(m_Captures) : m_Captures'[i] = m_Captures[i]
      BY <1>1, <2>1
    <2>3. ASSUME NEW i \in 1 .. Len(m_Captures'), m_Captures'[i].retrieved
          PROVE  m_Captures'[i].file \in askedFor
      <3>1. i # Len(m_Captures) + 1
        BY <2>1, <2>2, <2>3
      <3>2. i \in 1 .. Len(m_Captures)
        BY <1>1, <2>2, <3>1
      <3>3. QED
        BY <1>3, <2>2, <2>3, <3>2
    <2>4. QED
      BY <2>3
  <1>7. CASE ListMarked
    <2>1. PICK c \in Clients, id \in Nat :
            /\ m_Captures' = IF id \in 1 .. Len(m_Captures)
                               THEN [m_Captures EXCEPT ![id].retrieved = TRUE] ELSE m_Captures
            /\ InLoop(c) /\ id \in 1 .. Len(view[c].captures)
            /\ view[c].captures[id] \in askedFor
      BY <1>7 DEF ListMarked
    <2>2. m_Captures[id].file = view[c].captures[id]
      BY <2>1 DEF Stocks, SentIsInTheList
    <2>3. CASE id \notin 1 .. Len(m_Captures)
      BY <1>3, <2>1, <2>3
    <2>4. CASE id \in 1 .. Len(m_Captures)
      <3>1. \A i \in 1 .. Len(m_Captures) : m_Captures[i] \in Entry
        BY <1>1
      <3>2. /\ Len(m_Captures') = Len(m_Captures)
            /\ \A i \in 1 .. Len(m_Captures) : i # id => m_Captures'[i] = m_Captures[i]
            /\ m_Captures'[id].file = m_Captures[id].file
        BY <1>1, <2>1, <2>4, <3>1 DEF Entry
      <3>3. QED
        BY <1>3, <2>1, <2>2, <3>2
    <2>5. QED
      BY <2>3, <2>4
  <1>8. CASE ListCompacted
    <2>1. m_Captures' = Surviving(m_Captures, disk)
      BY <1>8 DEF ListCompacted
    <2>2. \A i \in 1 .. Len(m_Captures') : \E j \in 1 .. Len(m_Captures) : m_Captures'[i] = m_Captures[j]
      BY <1>1, <2>1, SurvivingIs
    <2>3. QED
      BY <1>3, <2>2
  <1>9. QED
    BY <1>5, <1>6, <1>7, <1>8 DEF ListMove

-----------------------------------------------------------------------------
(* The theorems about the lists.                                           *)

LEMMA InitStocks == Init => Stocks
  <1> SUFFICES ASSUME Init
               PROVE  Stocks
    OBVIOUS
  <1>1. IInv
    BY InitEstablishes
  <1>2. RecordsTyped
    <2>1. m_Captures = <<>> /\ written = 0 /\ disk = {} /\ requested = 0 /\ m_Cap = 0
          /\ m_QueuedFrameCaptures = 0 /\ capturing = FALSE /\ scenario \in Scenarios
      BY DEF Init
    <2>2. m_Captures \in Seq(Entry) /\ Len(m_Captures) <= written
      BY <2>1
    <2>3. QED
      BY <2>1, <2>2 DEF RecordsTyped
  <1>3. Counted
    <2>1. InFlightOf(toServer) = {}
      BY DEF Init, InFlightOf
    <2>2. IsFiniteSet(InFlightOf(toServer)) /\ Cardinality(InFlightOf(toServer)) = 0
      BY <2>1, FS_EmptySet
    <2>3. Load = 0
      BY DEF Init, Load, LoadOf
    <2>4. scenario.captures \in 0 .. MaxCaptures /\ requested = 0
      BY ScenariosAssumption DEF Init
    <2>5. Load + Cardinality(InFlightOf(toServer)) = 0
      BY <2>2, <2>3
    <2>6. QED
      BY <2>2, <2>4, <2>5, Bounds DEF Counted
  <1> DEFINE nothing == [captures |-> 0, children |-> 0, drivers |-> NoDrivers, windows |-> 0,
                         progress |-> "none"]
             blank == [captures |-> <<>>, children |-> 0, drivers |-> NoDrivers, windows |-> 0,
                       progress |-> "none"]
  <1>4. NoDrivers \in Status /\ 0 \in 0 .. MaxChildren /\ 0 \in 0 .. MaxWindows
        /\ 0 \in 0 .. MaxCaptures /\ "none" \in Progress
    BY Bounds DEF NoDrivers, Status, Progress
  <1>5. nothing \in SentRec
    BY <1>4 DEF SentRec
  <1>6. blank \in ViewRec
    <2>1. <<>> \in Seq(Ids)
      OBVIOUS
    <2>2. QED
      BY <1>4, <2>1 DEF ViewRec
  <1>7. /\ sent = [c \in Clients |-> nothing] /\ view = [c \in Clients |-> blank]
    BY DEF Init, Known
  <1>8. ApplicationTyped
    BY <1>4 DEF Init, ApplicationTyped
  <1>9. EndsTyped
    <2>1. <<>> \in Seq(Command) /\ <<>> \in Seq(Packet)
      OBVIOUS
    <2>2. QED
      BY <2>1 DEF Init, EndsTyped
  <1>10. QueuesBounded
    <2>1. \A c \in Clients : Len(toServer[c]) = 0 /\ Len(toUI[c]) = 0
      BY DEF Init
    <2>2. QED
      BY <2>1, Bounds DEF QueuesBounded
  <1>11. \A c \in Clients : sent[c].captures = 0 /\ sent[c].children = 0 /\ view[c].captures = <<>>
    BY <1>7
  <1>12. KnownTyped
    <2>1. sent \in [Clients -> SentRec] /\ view \in [Clients -> ViewRec]
      <3> HIDE DEF nothing, blank
      <3>1. QED
        BY <1>5, <1>6, <1>7
    <2>2. m_CaptureCopies \in [Clients -> [Ids -> Paths \cup {NoPath}]] /\ askedFor \subseteq Ids
      BY DEF Init
    <2>3. m_Children = 0
      BY DEF Init
    <2>4. QED
      BY <1>11, <2>1, <2>2, <2>3 DEF KnownTyped
  <1>13. IdleIsUntouched
    BY DEF Init, IdleIsUntouched, Deciding
  <1>14. ASSUME NEW c \in Clients
         PROVE  ReportsArrive(c) /\ SentIsInTheList(c) /\ CommandsSeen(c)
    <2>1. toUI[c] = <<>> /\ toServer[c] = <<>> /\ thread[c] = "none" /\ link[c] = "closed"
      BY DEF Init
    <2>2. QED
      BY <1>11, <2>1 DEF ReportsArrive, SentIsInTheList, CommandsSeen, InOrder, InLoop
  <1>15. OnlyAskedForAreRetrieved
    BY DEF Init, OnlyAskedForAreRetrieved, Retrieved
  <1>16. QED
    BY <1>1, <1>2, <1>3, <1>8, <1>9, <1>10, <1>12, <1>13, <1>14, <1>15 DEF Stocks

LEMMA StocksStep == Stocks /\ [Next]_vars => Stocks'
  <1> SUFFICES ASSUME Stocks, [Next]_vars
               PROVE  Stocks'
    OBVIOUS
  <1>1. IInv'
    BY StepPreserves DEF Stocks
  <1>2. RecordsTyped'
    BY RecordsKept
  <1>3. RequestMove /\ ListMove /\ \A c \in Clients : StreamMove(c)
    BY RequestsMove, Lists, Streams
  <1>4. Counted'
    BY <1>2, <1>3, CountKept
  <1>5. ApplicationTyped' /\ EndsTyped' /\ QueuesBounded'
    BY ApplicationKept, EndsKept
  <1>6. KnownTyped' /\ askedFor \subseteq askedFor'
    BY KnownKept
  <1>7. IdleIsUntouched'
    BY IdleKept
  <1>8. \A c \in Clients : ReportsArrive(c)' /\ SentIsInTheList(c)' /\ CommandsSeen(c)'
    BY <1>3, <1>6, ReportsKept, SentKept, CommandsKept
  <1>9. OnlyAskedForAreRetrieved'
    BY <1>3, <1>6, AskedForKept
  <1>10. QED
    BY <1>1, <1>2, <1>4, <1>5, <1>6, <1>7, <1>8, <1>9 DEF Stocks

LEMMA StocksHold == Spec => []Stocks
  BY InitStocks, StocksStep, PTL DEF Spec

\* Every variable stays in its type and every count within its bound, for any
\* number of clients and captures and any bounds: a capture is counted once,
\* as a command in flight, waiting, being written or in the list.
THEOREM TargetControlTypeCorrect == Spec => []TargetControlTypeOK
  <1>1. Stocks => TargetControlTypeOK
    <2> SUFFICES ASSUME Stocks
                 PROVE  TargetControlTypeOK
      OBVIOUS
    <2>1. /\ m_Captures \in Seq(Entry) /\ Len(m_Captures) <= written
          /\ {m_Cap, m_QueuedFrameCaptures, written} \subseteq Nat
          /\ capturing \in BOOLEAN /\ disk \subseteq 1 .. written
      BY DEF Stocks, RecordsTyped
    <2>2. requested <= scenario.captures
      BY DEF Stocks, Counted
    <2>3. written + (IF capturing THEN 1 ELSE 0) + m_Cap + m_QueuedFrameCaptures <= requested
      <3>1. PICK n \in Nat : n = Cardinality(InFlightOf(toServer))
        BY FS_CardinalityType DEF Stocks, Counted
      <3>2. PICK l \in Nat, r \in Nat : l = Load /\ r = requested
        BY LoadTyped DEF Stocks, RecordsTyped
      <3>3. l + n <= r
        BY <3>1, <3>2 DEF Stocks, Counted
      <3>4. l <= r
        BY <3>3
      <3>5. QED
        BY <3>2, <3>4 DEF Load, LoadOf
    <2>4. /\ m_Children \in 0 .. MaxChildren /\ windows \in 0 .. MaxWindows
          /\ m_ActiveDrivers \in [Drivers -> 0 .. MaxDriverChanges]
          /\ newClient \in Clients \cup {NoClient}
          /\ {m_RequestControllerShow, m_ControlClientThreadShutdown, m_TargetControlThreadShutdown}
               \subseteq BOOLEAN
          /\ life \in {"running", "removing", "removed", "exited"}
          /\ captureProgress \in [Clients -> Progress]
      BY DEF Stocks, ApplicationTyped, Status
    <2>5. /\ m_SingleClientName \in Clients \cup {NoClient}
          /\ progressCallback \in Clients \cup {NoClient}
          /\ clientThread \in Clients \cup {NoClient}
          /\ thread \in [Clients -> ThreadPC] /\ serverPC \in ServerPC
      BY DEF Stocks, IInv, CoreTypes
    <2>6. /\ link \in [Clients -> {"closed", "up", "down"}]
          /\ ui \in [Clients -> {"idle", "waiting", "connected", "busy", "closed"}]
      BY DEF Stocks, EndsTyped
    <2>7. \A c \in Clients :
            /\ Len(toUI[c]) <= MaxQueue + 1 /\ Len(toServer[c]) <= MaxCommands + 1
            /\ sent[c].captures <= MaxCaptures /\ sent[c].children <= MaxChildren
            /\ m_CaptureCopies[c] \in [Ids -> Paths \cup {NoPath}]
      BY Bounds DEF Stocks, QueuesBounded, KnownTyped, SentRec
    <2>8. askedFor \subseteq Ids
      BY DEF Stocks, KnownTyped
    <2>9. QED
      BY <2>1, <2>2, <2>3, <2>4, <2>5, <2>6, <2>7, <2>8 DEF TargetControlTypeOK, Entry
  <1>2. QED
    BY <1>1, StocksHold, PTL

\* A command for a capture reaches the capture the UI saw under its id, and
\* only what some UI asked for is marked and deleted at exit, although the
\* list is compacted and grows while reports and commands are on their way.
THEOREM CommandsReach == Spec => []CommandsReachTheirCapture
  <1>1. Stocks => CommandsReachTheirCapture
    <2> SUFFICES ASSUME Stocks
                 PROVE  CommandsReachTheirCapture
      OBVIOUS
    <2>1. ASSUME NEW c \in Clients, InLoop(c), NEW i \in DOMAIN toServer[c],
                 toServer[c][i].type \in {"Delete", "Copy"}
          PROVE  /\ toServer[c][i].id \in DOMAIN m_Captures
                 /\ m_Captures[toServer[c][i].id].file = toServer[c][i].file
      <3> DEFINE cmd == toServer[c][i]
      <3>1. i \in 1 .. Len(toServer[c]) /\ DOMAIN m_Captures = 1 .. Len(m_Captures)
            /\ Len(m_Captures) \in Nat /\ Len(view[c].captures) \in Nat
            /\ sent[c].captures \in Nat
        BY Bounds DEF Stocks, EndsTyped, RecordsTyped, KnownTyped, ViewRec, SentRec
      <3>2. cmd.id \in 1 .. Len(view[c].captures) /\ cmd.file = view[c].captures[cmd.id]
        BY <2>1, <3>1 DEF Stocks, CommandsSeen
      <3>3. Len(view[c].captures) <= sent[c].captures /\ sent[c].captures <= Len(m_Captures)
        BY <2>1 DEF Stocks, ReportsArrive, InOrder, SentIsInTheList
      <3>4. cmd.id \in 1 .. Len(m_Captures)
        <4> HIDE DEF cmd
        <4>1. QED
          BY <3>1, <3>2, <3>3
      <3>5. m_Captures[cmd.id].file = view[c].captures[cmd.id]
        BY <2>1, <3>2 DEF Stocks, SentIsInTheList
      <3>6. QED
        BY <3>1, <3>2, <3>4, <3>5
    <2>2. CommandIdsMeanWhatWasSeen
      BY <2>1 DEF CommandIdsMeanWhatWasSeen
    <2>3. QED
      BY <2>2 DEF CommandsReachTheirCapture, Stocks
  <1>2. QED
    BY <1>1, StocksHold, PTL
=============================================================================
