-------------------------- MODULE MCReceiverModel --------------------------
(* Radios for the runs of ReceiverModel, in small units.                   *)
EXTENDS ReceiverModel

\* Rates of 5 to 10: what is asked for below or above is rounded.
SlowRadio == [min |-> 5, max |-> 10, step |-> 0]

\* A filter that is narrower than the fastest rate.
NarrowFilter == [min |-> 4, max |-> 8, step |-> 0]

SomeGain == [min |-> 1, max |-> 2, step |-> 0]
=============================================================================
