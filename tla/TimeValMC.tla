------------------------------ MODULE TimeValMC -----------------------------
(***************************************************************************)
(* TimeVal for TLC: a running sum of TimeVals, kept beside the same sum in *)
(* microseconds, and the loops of normalize beside their closed form.      *)
(***************************************************************************)
EXTENDS TimeVal

CONSTANTS
    TERMS,     \* microseconds added or subtracted
    MAX_TERMS  \* bound: how many

ASSUME TermsAssumption == TERMS \subseteq Int /\ MAX_TERMS \in Nat

\* Around a whole second, and beyond one, on both sides of zero.
Terms == {1, 250000, 999999, 1000000, -1750001}

VARIABLES
    sum,       \* the TimeVal
    micros,    \* what it should stand for
    left       \* how many terms may follow

vars == <<sum, micros, left>>

Init == sum = TV(0, 0) /\ micros = 0 /\ left = MAX_TERMS

OneMore == left > 0 /\ left' = left - 1

AddTerm ==
    /\ OneMore
    /\ \E us \in TERMS :
          /\ sum' = Add(sum, FromMicros(us))
          /\ micros' = micros + us

SubTerm ==
    /\ OneMore
    /\ \E us \in TERMS :
          /\ sum' = Sub(sum, FromMicros(us))
          /\ micros' = micros - us

Next == AddTerm \/ SubTerm

Spec == Init /\ [][Next]_vars

\* The loops of normalize, one subtraction or addition of a second at a time.
Above[t \in TimeVals] ==
    IF t.usec > SECOND THEN Above[TV(t.sec + 1, t.usec - SECOND)] ELSE t
Below[t \in TimeVals] ==
    IF t.usec < 0 THEN Below[TV(t.sec - 1, t.usec + SECOND)] ELSE t

\* The closed form of normalize (proto.rs 49-59) is what its loops compute, also of
\* a TimeVal whose microseconds are many seconds.
NormalizeIsLoops ==
    LET t == TV(sum.sec, sum.usec + micros) IN Normalize(t) = Below[Above[t]]

\* A chain of conversions, sums and differences, such as the schedule of a chunk
\* (client.rs 146-149), loses no microsecond and stays normal.
SumExact == ToMicros(sum) = micros /\ IsNormal(sum)

\* The verdict of client.rs 150 and main.rs 120, sec < 0, on such a sum: what is over
\* is always found late, and what is found late is never still to come.
LateByTheSeconds == (micros < 0 => sum.sec < 0) /\ (sum.sec < 0 => micros <= 0)

=============================================================================
