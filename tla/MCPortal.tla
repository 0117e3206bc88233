------------------------------ MODULE MCPortal ------------------------------
(* Instances of Portal for TLC: what may happen in one behaviour.           *)
EXTENDS Portal

\* Frames of two runs of the program, or one key pressed and released.
EitherSide == {[seq |-> 2, runs |-> 2, events |-> 0], [seq |-> 0, runs |-> 1, events |-> 2]}

\* The key alone.
KeyOnly == {[seq |-> 0, runs |-> 1, events |-> 2]}
=============================================================================
