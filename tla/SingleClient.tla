----------------------------- MODULE SingleClient -----------------------------
(***************************************************************************)
(* What target control promises about its clients, whatever the threads    *)
(* do: one client at a time holds the application, the thread that works   *)
(* for a client runs only while that client holds it, the hold ends with   *)
(* the thread, and no connection is served twice.  A new client, kicking   *)
(* or not, can therefore only take over an application nobody holds and    *)
(* no thread works for.                                                    *)
(***************************************************************************)
CONSTANTS Clients, NoClient

VARIABLES holder,     \* the client named as connected
          working,    \* clients some thread works for
          served      \* clients a thread was started for

Init == holder = NoClient /\ working = {} /\ served = {}

Claim(c) ==
    /\ holder = NoClient /\ working = {} /\ c \notin served
    /\ holder' = c
    /\ UNCHANGED <<working, served>>

Start(c) ==
    /\ holder = c /\ working = {} /\ c \notin served
    /\ working' = {c} /\ served' = served \cup {c}
    /\ UNCHANGED holder

Finish(c) ==
    /\ holder = c /\ working = {c}
    /\ working' = {} /\ holder' = NoClient
    /\ UNCHANGED served

Next == \E c \in Clients : Claim(c) \/ Start(c) \/ Finish(c)

Spec == Init /\ [][Next]_<<holder, working, served>>
=============================================================================
