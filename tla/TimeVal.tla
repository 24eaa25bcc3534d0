------------------------------ MODULE TimeVal -------------------------------
(***************************************************************************)
(* The TimeVal of src/proto.rs: seconds and microseconds, what the wire    *)
(* carries and what the client computes with.                              *)
(*                                                                         *)
(* The two loops of normalize are given by their closed form; TimeValMC    *)
(* compares it with the loops.  The fields are unbounded integers: an i32  *)
(* holds the microseconds of 35 minutes, and a difference of two clocks    *)
(* overflows its seconds after 68 years.                                   *)
(***************************************************************************)
EXTENDS Integers

SECOND == 1000000  \* microseconds

TimeVals == [sec : Int, usec : Int]

TV(s, u) == [sec |-> s, usec |-> u]

\* i64 division truncates towards zero.
Quotient(us, d) == IF us >= 0 THEN us \div d ELSE -((-us) \div d)

\* Mutant of FromMicros: a quotient that rounds down beside the remainder of one that
\* truncates.
FromMicrosFloor(us) == TV(us \div SECOND, us - Quotient(us, SECOND) * SECOND)

\* from_micros: the quotient and the remainder.
FromMicros(us) ==
    TV(Quotient(us, SECOND), us - Quotient(us, SECOND) * SECOND)

ToMicros(t) == t.sec * SECOND + t.usec

\* Mutant of Carry: a second too many for each whole second below zero.
CarryBelow(u) == IF u > SECOND THEN (u - 1) \div SECOND
                 ELSE IF u < 0 THEN -((-u) \div SECOND) - 1
                 ELSE 0

\* Mutant of Carry: normalize without its second loop.
CarryAbove(u) == IF u > SECOND THEN (u - 1) \div SECOND ELSE 0

\* How many seconds normalize moves out of u microseconds.  Its first loop stops AT a
\* whole second, which stays in the microseconds.
Carry(u) == IF u > SECOND THEN (u - 1) \div SECOND
            ELSE IF u < 0 THEN u \div SECOND
            ELSE 0

Normalize(t) == TV(t.sec + Carry(t.usec), t.usec - Carry(t.usec) * SECOND)

\* What normalize guarantees, and what it would have to for the fields to be unique.
IsNormal(t)    == t.usec >= 0 /\ t.usec <= SECOND
IsCanonical(t) == t.usec >= 0 /\ t.usec < SECOND

Add(a, b) == Normalize(TV(a.sec + b.sec, a.usec + b.usec))
Sub(a, b) == Normalize(TV(a.sec - b.sec, a.usec - b.usec))

\* The derived order: by seconds, then by microseconds.
Before(a, b) == a.sec < b.sec \/ (a.sec = b.sec /\ a.usec < b.usec)

=============================================================================
