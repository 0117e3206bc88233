----------------------------- MODULE RatePolicy -----------------------------
(***************************************************************************)
(* The choice of a receive sample rate against what its header promises    *)
(* (src/src/radio/rate_policy.hpp): radios come and go, an application     *)
(* states what it wants of the rate, and asks.  The rate itself is chosen  *)
(* by module Capabilities.                                                 *)
(*                                                                         *)
(* Ranges, and Ideals, Bounds and Multiples for the opinions, are tried;   *)
(* they bound the model and nothing else does.  The promises are stated    *)
(* here a second time, as the reference the code is measured against, by   *)
(* quantification over the rates the radio has and not by calculation.     *)
(***************************************************************************)
EXTENDS Capabilities, FiniteSets

CONSTANTS Ranges, Ideals, Bounds, Multiples

\* A step so small that a division by it is not finite is left out.
Whole == Int \cup {NotReal}
Published == [min : Whole, max : Whole, step : Whole]
WellFormed ==
    /\ Ranges \subseteq Published
    /\ Ideals \cup Bounds \subseteq Whole
    /\ Multiples \subseteq Whole \cup {Denormal}

ASSUME InputsAssumption == WellFormed

VARIABLES range, want, choice

policyVars == <<range, want, choice>>

Preferences ==
    [ideal : Ideals, minimum : Bounds, useful : Bounds, multiple : Multiples]

\* DeviceCaps{} and RatePreference{}.
NoRadio == [min |-> 0, max |-> 0, step |-> 0]
NoPreference == [ideal |-> 0, minimum |-> 0, useful |-> 0, multiple |-> 0]

PolicyInit ==
    /\ range = NoRadio
    /\ want = NoPreference
    /\ choice = ChooseRxRate(range, want)

\* Another radio, or none, and the application opened again.
Attach ==
    /\ range' \in Ranges \cup {NoRadio}
    /\ want' = want
    /\ choice' = ChooseRxRate(range', want')

\* An application that changes one field of what it wants.
Prefer ==
    /\ \E field \in DOMAIN want, v \in Ideals \cup Bounds \cup Multiples :
          want' = [want EXCEPT ![field] = v]
    /\ want' \in Preferences
    /\ range' = range
    /\ choice' = ChooseRxRate(range', want')

PolicyNext == Attach \/ Prefer

PolicySpec == PolicyInit /\ [][PolicyNext]_policyVars

-----------------------------------------------------------------------------
(* The rates a radio has.  A radio without a step has every rate of its    *)
(* range; its least rate is a rate, so zero has to be left out by hand.    *)

RadioRates ==
    {v \in 1..range.max :
        v >= range.min /\ (Positive(range.step) =>
                              (v - range.min) % range.step = 0)}

\* Below its first step a radio whose range begins at zero has no rate to
\* move down to, and gets its ceiling, whatever is useful.
FallsToZero ==
    /\ range.min = 0 /\ Positive(range.step)
    /\ IdealRate(want) < range.step \/ range.max < range.step

Sane == Opinion(want.useful) = 0 \/ Opinion(want.useful) >= Opinion(want.minimum)

\* rate_policy.hpp, guarantees 1, 2 and 5: the rate is one the radio has; it is
\* above what is useful only when every rate of the radio is; it is never
\* anything but a number, and zero only if nothing at all was said.  Left out of
\* 1 and 2 is a radio that FallsToZero, of 2 contradictory bounds (~Sane).
WithinTheLimits ==
    LET useful == Opinion(want.useful)
    IN  /\ Finite(choice.rate)
        /\ choice.rate = 0 => ~Usable(range) /\ IdealRate(want) = 0
        /\ Usable(range) /\ ~FallsToZero =>
              /\ choice.rate \in RadioRates
              /\ useful > 0 /\ Sane /\ choice.rate > useful + Tolerance =>
                    \A v \in RadioRates : v > useful

\* The rates an application may be given, and the multiples among them: none
\* below its minimum, of which guarantee 3 says nothing.
Allowed ==
    {v \in RadioRates :
        Opinion(want.useful) > 0 => v <= Opinion(want.useful) + Tolerance}
Candidates ==
    {v \in Allowed :
        v % want.multiple = 0 /\ v >= Opinion(want.minimum) - Tolerance}

Distance(a, b) == IF a > b THEN a - b ELSE b - a

Nearest(S, ideal) ==
    {v \in S : \A w \in S : Distance(v, ideal) <= Distance(w, ideal)}

\* The rate without a multiple: a radio with a step is only ever moved down
\* onto it, so a rate above the ideal is not looked at while there is one below.
NearestRate(ideal) ==
    LET below == {v \in RadioRates : v <= ideal}
    IN  CHOOSE v \in Nearest(IF Positive(range.step) /\ below # {}
                             THEN below ELSE RadioRates, ideal) : TRUE

\* The multiples the code looks at: with a step only the two beside the rate,
\* of which neither may be a rate of the radio although another one is.
Considered(best) ==
    IF Opinion(want.multiple) = 0 \/ want.multiple = Denormal THEN {}
    ELSE {v \in Candidates : Positive(range.step) => Distance(v, best) < want.multiple}

\* Guarantees 3 and 4 as far as they are kept, and the outcome.  With no
\* preferred multiple, or none that is allowed, the rate is the nearest to the
\* ideal; otherwise a multiple next to it, from below if one will do.  With a
\* step both are narrower than the header says (NearestRate, Considered).  On a
\* radio without one, an application is told that it cannot work exactly if the
\* radio is too slow for it.  Left out are the ceiling of FallsToZero, an
\* application whose bounds contradict each other (~Sane), and one that asks for
\* no rate at all.
NearestToIdeal ==
    Usable(range) /\ ~FallsToZero /\ Sane /\ IdealRate(want) > 0 =>
        LET best == NearestRate(IdealRate(want))
            multiples == Considered(best)
            below == {v \in multiples : v <= best}
        IN  /\ choice.rate \in
                  IF below # {} THEN Nearest(below, best)
                  ELSE IF multiples # {} THEN Nearest(multiples, best)
                  ELSE {best}
            /\ ~Positive(range.step) =>
                  (choice.outcome = "BelowMinimum" <=>
                      Opinion(want.minimum) > range.max + Tolerance)

\* What the code keeps of the guarantees of rate_policy.hpp: 1, 2 and 5; and 3
\* and 4 in full on a radio without a step, and with one for the multiples
\* beside the rate and from below.  The exceptions are those named above.
KeepsItsPromises == WithinTheLimits /\ NearestToIdeal

\* "BelowMinimum: the device cannot reach minimum_hz: this cannot work"
\* (rate_policy.hpp:79), for every radio.
BelowMinimumIsTrue ==
    choice.outcome = "BelowMinimum" =>
        \A v \in RadioRates : v < Opinion(want.minimum)

\* "The result is a multiple of prefer_multiple_of_hz where the range admits one
\* without breaking 1 or 2" (rate_policy.hpp:117), for every radio.
MultipleWhereAdmitted ==
    Usable(range) /\ ~FallsToZero /\ Sane
    /\ Opinion(want.multiple) # 0 /\ want.multiple # Denormal /\ Candidates # {} =>
        choice.rate % want.multiple = 0

\* "Otherwise the result is as close to ideal_hz as those allow"
\* (rate_policy.hpp:119), for every radio and no multiple.
AsCloseAsAllowed ==
    Usable(range) /\ ~FallsToZero /\ Sane
    /\ Opinion(want.multiple) = 0 /\ IdealRate(want) > 0 /\ Allowed # {} =>
        choice.rate \in Nearest(Allowed, IdealRate(want))
=============================================================================
