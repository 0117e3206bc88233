---------------------------- MODULE Capabilities ----------------------------
(***************************************************************************)
(* What the program makes of the ranges a radio publishes: the sample rate *)
(* an application gets (src/src/radio/rate_policy.cpp), the analog filter  *)
(* that follows the rate, the gain (capability_policy.cpp), and the clamp  *)
(* of a range (radio_device.cpp).  All of it is arithmetic on whole        *)
(* numbers of one unit; what the code allows for rounding is Tolerance in  *)
(* that unit, and its two other tolerances are for divisions that are      *)
(* exact here.                                                             *)
(*                                                                         *)
(* NotReal stands for what is no finite number, and Denormal for a number  *)
(* so small that a division by it is not finite.  Neither is an integer.   *)
(*                                                                         *)
(* DownBelowMinimum and UpBeforeDown are faulty variants of the            *)
(* definitions they precede; nothing uses them.                            *)
(***************************************************************************)
EXTENDS Integers

CONSTANTS NotReal, Denormal, Tolerance

ASSUME SpecialAssumption == NotReal \notin Int /\ Denormal \notin Int
ASSUME ToleranceAssumption == Tolerance \in Nat

Finite(v) == v # NotReal
Positive(v) == Finite(v) /\ (v = Denormal \/ v > 0)

Bounded(v, low, high) == IF v < low THEN low ELSE IF v > high THEN high ELSE v

\* A range that says nothing clamps nothing.
Clamp(range, v) ==
    IF range.max <= range.min THEN v ELSE Bounded(v, range.min, range.max)

\* All zeros is what a server leaves that says nothing of this range.
Usable(range) ==
    /\ Finite(range.min) /\ Finite(range.max)
    /\ range.min >= 0 /\ range.max > 0 /\ range.max >= range.min

-----------------------------------------------------------------------------
(* choose_rx_rate                                                          *)

\* Anything not positive and finite is no opinion, and no opinion is 0.
Opinion(v) == IF Positive(v) THEN v ELSE 0

\* The number the outcome is measured against: the ceiling of what is useful
\* lowers it, and the floor of what works raises it again.
IdealRate(want) ==
    LET asked == Opinion(want.ideal)
        minimum == Opinion(want.minimum)
        useful == Opinion(want.useful)
        target == IF asked > 0 THEN asked
                  ELSE IF minimum > 0 THEN minimum ELSE useful
        capped == IF useful > 0 /\ target > useful THEN useful ELSE target
    IN  IF minimum > 0 /\ capped < minimum THEN minimum ELSE capped

SnapToStep(v, range) ==
    IF ~Positive(range.step) THEN v
    ELSE IF v <= range.min THEN range.min
    ELSE range.min + ((v - range.min) \div range.step) * range.step

OnStepGrid(v, range) == SnapToStep(v, range) = v

FloorMultiple(v, m) == IF m = Denormal THEN NotReal ELSE (v \div m) * m
CeilMultiple(v, m) == IF m = Denormal THEN NotReal ELSE -((-v) \div m) * m

DownBelowMinimum(down, rate, want, range) ==
    /\ Positive(down) /\ down <= rate /\ down >= range.min
    /\ OnStepGrid(down, range)

DownFits(down, rate, want, range) ==
    /\ Positive(down) /\ down <= rate /\ down >= range.min
    /\ down >= Opinion(want.minimum) - Tolerance
    /\ OnStepGrid(down, range)

UpFits(up, rate, want, range) ==
    /\ Positive(up) /\ up >= rate /\ up >= range.min /\ up <= range.max
    /\ up <= Tolerance + (IF Opinion(want.useful) > 0
                          THEN Opinion(want.useful) ELSE range.max)
    /\ OnStepGrid(up, range)

UpBeforeDown(rate, want, range) ==
    LET up == CeilMultiple(rate, want.multiple)
    IN  IF Opinion(want.multiple) = 0 \/ ~Positive(up) \/ up > range.max
        THEN rate ELSE up

PreferMultiple(rate, want, range) ==
    IF Opinion(want.multiple) = 0 THEN rate
    ELSE LET down == FloorMultiple(rate, want.multiple)
             up == CeilMultiple(rate, want.multiple)
         IN  IF DownFits(down, rate, want, range) THEN down
             ELSE IF UpFits(up, rate, want, range) THEN up
             ELSE rate

\* Clamped, moved down onto the grid of the device, and never zero.
DeviceRate(ideal, range) ==
    LET snapped == SnapToStep(Bounded(ideal, range.min, range.max), range)
    IN  IF snapped > 0 THEN snapped ELSE range.max

RateOutcome(rate, ideal, want) ==
    IF Opinion(want.minimum) > 0 /\ rate < want.minimum - Tolerance
    THEN "BelowMinimum"
    ELSE IF rate < ideal - Tolerance THEN "Reduced"
    ELSE IF rate > ideal + Tolerance THEN "Raised"
    ELSE "Ideal"

ChooseRxRate(range, want) ==
    LET ideal == IdealRate(want)
        rate == PreferMultiple(DeviceRate(ideal, range), want, range)
    IN  IF ~Usable(range) THEN [rate |-> ideal, outcome |-> "CapsUnusable"]
        ELSE [rate |-> rate, outcome |-> RateOutcome(rate, ideal, want)]

-----------------------------------------------------------------------------
(* choose_rx_bandwidth and choose_gain: what to write to the radio, if     *)
(* anything.                                                               *)

\* The filter is as wide as the rate (kRxAnalogBandwidthRatio is 1).
ChooseRxBandwidth(range, rate) ==
    IF ~Positive(rate) THEN [bandwidth |-> 0, outcome |-> "NoRate"]
    ELSE IF ~Usable(range) THEN [bandwidth |-> 0, outcome |-> "CapsUnusable"]
    ELSE LET width == Bounded(rate, range.min, range.max)
         IN  [bandwidth |-> width,
              outcome |-> IF width > rate + Tolerance THEN "Widened"
                          ELSE IF width < rate - Tolerance THEN "Narrowed"
                          ELSE "Matched"]

AppliesBandwidth(choice) ==
    choice.bandwidth > 0 /\ choice.outcome \notin {"NoRate", "CapsUnusable"}

UsableGain(range) ==
    Finite(range.min) /\ Finite(range.max) /\ range.max > range.min

ChooseGain(range, requested) ==
    IF ~Finite(requested) THEN [gain |-> 0, outcome |-> "Invalid"]
    ELSE IF ~UsableGain(range)
    THEN [gain |-> requested, outcome |-> "Unvalidated"]
    ELSE [gain |-> Bounded(requested, range.min, range.max),
          outcome |-> IF requested < range.min THEN "ClampedLow"
                      ELSE IF requested > range.max THEN "ClampedHigh"
                      ELSE "Applied"]

AppliesGain(choice) == choice.outcome # "Invalid"
=============================================================================
