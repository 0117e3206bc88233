---------------------------- MODULE MCRatePolicy ----------------------------
(* Radios and preferences for the runs of RatePolicy, in one unit of rate. *)
EXTENDS RatePolicy

\* Without a step and with one, from zero and from above it; ranges that say
\* nothing, that are the wrong way round, and that are no numbers.
AnyRange ==
    {[min |-> a, max |-> b, step |-> s] :
        a \in {0, 1, 3}, b \in {0, 2, 7, 9}, s \in {0, 2, 3}}
    \cup {[min |-> 0, max |-> NotReal, step |-> 0],
          [min |-> 1, max |-> 9, step |-> NotReal]}

AnyIdeal == {-1, 0, 1, 4, 6, 8, NotReal}
AnyBound == {0, 2, 5, 8, 10}
AnyMultiple == {0, 2, 3, 20, Denormal}
=============================================================================
