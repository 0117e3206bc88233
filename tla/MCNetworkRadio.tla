--------------------------- MODULE MCNetworkRadio ---------------------------
(* Small devices for NetworkRadio.                                         *)
EXTENDS NetworkRadio, TLC

CONSTANTS lowest, unset, default, freq, lo, fine, rounded

\* A frequency is replayed; the oscillator offset is not, nor seeded by open().
Tunings == {freq}
AllSettings == {freq, lo}

\* A fine value is rounded by the device; the rounded one is kept.
Exactly == (rounded :> rounded) @@ (lowest :> lowest) @@ (unset :> lowest)
Rounding == (fine :> rounded) @@ Exactly
=============================================================================
