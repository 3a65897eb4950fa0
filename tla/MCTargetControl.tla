--------------------------- MODULE MCTargetControl ---------------------------
(* Constants for the runs of TargetControl.                                *)
EXTENDS TargetControl

CONSTANTS ui1, ui2, ui3

CurrentVersions == [c \in Clients |-> 9]
\* The third client is too old to be served at all.
OneTooOld       == [c \in Clients |-> IF c = ui3 THEN 1 ELSE 9]

\* Three UIs that only come and go.
HandOver   == [clients |-> Clients, captures |-> 0, may |-> {"shutdown"}]
\* One UI and a capture, with every command, fault and ending.
Everything == [clients |-> {ui1}, captures |-> 1, may |-> CommandTypes \cup Events]
\* Two UIs take over from each other and delete captures, while files vanish.
TakeOver   == [clients |-> {ui1, ui2}, captures |-> 2, may |-> {"Delete", "vanish"}]
\* One UI triggers captures of an application that presents.
Presenting == [clients |-> Clients, captures |-> 2, may |-> {"Trigger", "show"}]

ServeScenarios   == {HandOver}
CommandScenarios == {Everything, TakeOver}
PresentScenarios == {Presenting}
=============================================================================
