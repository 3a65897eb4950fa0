---------------------------- MODULE SessionService ----------------------------
(***************************************************************************)
(* What a remote server promises about its sessions: a connection becomes  *)
(* the active one only when there is none, it stays the active one until   *)
(* its session is over, and only when the service ends is that given up.   *)
(* While the service is on, no two sessions overlap.                       *)
(***************************************************************************)
CONSTANTS Clients, NoClient

VARIABLES serving,    \* the service is on
          holder,     \* the active connection
          working     \* connections with a session

Init == serving = TRUE /\ holder = NoClient /\ working = {}

Begin(c) ==
    /\ holder = NoClient /\ c \notin working
    /\ serving => working = {}
    /\ holder' = c /\ working' = working \cup {c}
    /\ UNCHANGED serving

\* The session ends first; the place is given up later.
End(c) ==
    /\ c \in working /\ working' = working \ {c}
    /\ UNCHANGED <<serving, holder>>

GiveUp ==
    /\ holder # NoClient /\ holder \notin working
    /\ holder' = NoClient
    /\ UNCHANGED <<serving, working>>

Stop ==
    /\ serving /\ serving' = FALSE /\ holder' \in {holder, NoClient}
    /\ UNCHANGED working

Next == (\E c \in Clients : Begin(c) \/ End(c)) \/ GiveUp \/ Stop

Spec == Init /\ [][Next]_<<serving, holder, working>>
=============================================================================
