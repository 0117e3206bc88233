----------------------------- MODULE GapStream ------------------------------
(***************************************************************************)
(* What radio::RawSampleTap promises its decoder, with no ring, no threads *)
(* and no handshake: a source offers samples 0, 1, 2, ... and the decoder  *)
(* is handed blocks.  A block is one unbroken run of the stream and comes  *)
(* with the number of samples skipped since the previous one, so the       *)
(* decoder always knows its own position exactly.  (The class comment,     *)
(* src/src/radio/receiver_model.hpp 56-101.)                               *)
(***************************************************************************)
EXTENDS Naturals

VARIABLES
    head,    \* the next sample the source will offer
    pos,     \* the next sample in the decoder's view of the stream
    handed   \* the block being handed over: a sequence of none or one

vars == <<head, pos, handed>>

Init == head = 0 /\ pos = 0 /\ handed = <<>>

Offer ==
    /\ head' \in Nat /\ head' > head
    /\ UNCHANGED <<pos, handed>>

(* skipped = 0 and a block with no samples are both possible.              *)
Deliver(skipped, size) ==
    /\ handed = <<>>
    /\ pos + skipped + size <= head
    /\ handed' = <<[lost_before |-> skipped,
                    samples |-> [k \in 0 .. (size - 1) |-> pos + skipped + k]]>>
    /\ pos' = pos + skipped + size
    /\ UNCHANGED head

Accept ==
    /\ handed # <<>>
    /\ handed' = <<>>
    /\ UNCHANGED <<head, pos>>

(* The subscription is closed; the next one starts at the stream's head.   *)
Resubscribe ==
    /\ handed = <<>>
    /\ pos' = head
    /\ UNCHANGED <<head, handed>>

Next ==
    \/ Offer \/ Accept \/ Resubscribe
    \/ \E skipped, size \in 0 .. (head - pos) : Deliver(skipped, size)

Spec == Init /\ [][Next]_vars
=============================================================================
