------------------------------- MODULE ByteSink -------------------------------
(* What a file writer promises to the stream writer above it: the bytes it    *)
(* accepts reach the file in their order and at most once, what a flush that  *)
(* succeeds has confirmed is in the file, and so is everything when the       *)
(* writer is closed, unless something could not be written: then no flush     *)
(* succeeds any more.                                                         *)
EXTENDS Naturals, Sequences

VARIABLES accepted,   \* number of bytes accepted
          stored,     \* the bytes in the file, in their order, by their position
          confirmed,  \* number of bytes the last successful flush confirmed
          lost,       \* some bytes could not be written
          closed

vars == <<accepted, stored, confirmed, lost, closed>>

\* The first n bytes, each of them its own position.
FirstBytes(n) == [i \in 1 .. n |-> i]

Init == accepted = 0 /\ stored = <<>> /\ confirmed = 0 /\ ~lost /\ ~closed

Accept ==
    /\ ~closed /\ accepted' > accepted
    /\ UNCHANGED <<stored, confirmed, lost, closed>>

\* A part of what was accepted goes on to the file.
Store ==
    /\ ~lost /\ ~closed
    /\ \E n \in Len(stored) + 1 .. accepted : stored' = FirstBytes(n)
    /\ UNCHANGED <<accepted, confirmed, lost, closed>>

\* A write without a buffer accepts and stores.
AcceptAndStore ==
    /\ ~lost /\ ~closed /\ stored = FirstBytes(accepted)
    /\ accepted' > accepted /\ stored' = FirstBytes(accepted')
    /\ UNCHANGED <<confirmed, lost, closed>>

\* From the first failure on the file may hold anything.
Lose ==
    /\ ~closed /\ lost' /\ accepted' >= accepted
    /\ UNCHANGED <<confirmed, closed>>

Confirm ==
    /\ ~lost /\ ~closed /\ stored = FirstBytes(accepted)
    /\ confirmed' = accepted
    /\ UNCHANGED <<accepted, stored, lost, closed>>

Close ==
    /\ ~closed /\ closed'
    /\ lost \/ stored = FirstBytes(accepted)
    /\ UNCHANGED <<accepted, stored, confirmed, lost>>

Next == Accept \/ Store \/ AcceptAndStore \/ Lose \/ Confirm \/ Close

Spec == Init /\ [][Next]_vars
===============================================================================
