-------------------------------- MODULE Fifo --------------------------------
(***************************************************************************)
(* What dsp::RingBuffer promises its two threads: a bounded queue.  What   *)
(* was put comes out once, in order; a write or a read may be short; a     *)
(* clear empties it.                                                       *)
(***************************************************************************)
EXTENDS Naturals, Sequences

CONSTANTS
    Items,  \* what can be queued
    Room    \* how much of it at a time

VARIABLES
    queue,  \* what was put and not yet got
    got     \* what the last read returned

vars == <<queue, got>>

Init == queue = <<>> /\ got = <<>>

Put ==
    \E n \in 0 .. (Room - Len(queue)) :
        \E data \in [1..n -> Items] : queue' = queue \o data
    /\ UNCHANGED got

Get ==
    \E n \in 0 .. Len(queue) :
        /\ got' = SubSeq(queue, 1, n)
        /\ queue' = SubSeq(queue, n + 1, Len(queue))

Clear == queue' = <<>> /\ UNCHANGED got

Next == Put \/ Get \/ Clear

Spec == Init /\ [][Next]_vars
=============================================================================
