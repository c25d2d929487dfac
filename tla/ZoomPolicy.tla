----------------------------- MODULE ZoomPolicy -----------------------------
(***************************************************************************)
(* The bounds of the zoom and the summary of relative zoom steps           *)
(* (domain/navigation/ZoomPolicy.ts).  A scale is represented by its       *)
(* logarithm: multiplying scales is adding integers, and clamping, which   *)
(* is monotone, is clamping.                                               *)
(***************************************************************************)
EXTENDS Integers

CONSTANTS Lo, Hi   \* MIN_READER_SCALE and MAX_READER_SCALE

ASSUME ScaleAssumption == Lo \in Int /\ Hi \in Int /\ Lo <= Hi

Scale == Lo..Hi

Higher(a, b) == IF a < b THEN b ELSE a
Lower(a, b)  == IF a < b THEN a ELSE b
clampReaderScale(x) == Higher(Lo, Lower(Hi, x))

\* PendingZoomIntent: the steps summarized take x to Higher(lower, Lower(upper, x + factor)).
Intent == {p \in [lower : Scale, upper : Scale, factor : Int] :
              p.lower <= p.upper /\ p.lower - Hi <= p.factor /\ p.factor <= p.upper - Lo}

\* What an undefined summary stands for.
NoIntent == [lower |-> Lo, upper |-> Hi, factor |-> 0]

\* Mutant: the bounds are not moved by the step.
appendUnclamped(p, step) == [p EXCEPT !.factor = @ + step]
appendZoomIntent(p, step) ==
    LET lower == clampReaderScale(p.lower + step)
        upper == clampReaderScale(p.upper + step)
    IN [lower |-> lower, upper |-> upper,
        factor |-> Higher(lower - Hi, Lower(upper - Lo, p.factor + step))]

resolveZoomIntent(base, p) == Higher(p.lower, Lower(p.upper, clampReaderScale(base) + p.factor))
=============================================================================
