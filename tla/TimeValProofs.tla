--------------------------- MODULE TimeValProofs ----------------------------
(***************************************************************************)
(* What the arithmetic of TimeVal.tla keeps, for every value of the fields,*)
(* and induction over natural numbers as a fact about sets, which the      *)
(* provers can use where they cannot instantiate a predicate.              *)
(***************************************************************************)
EXTENDS TimeVal, WellFoundedInduction, TLAPS

LEMMA MicrosAreInt ==
    ASSUME NEW t \in TimeVals
    PROVE  ToMicros(t) \in Int
  BY SMT DEF ToMicros, TimeVals, SECOND

\* Normalize (proto.rs normalize) never changes the time a TimeVal stands for, and
\* leaves between no and, included, a whole second of microseconds.
THEOREM NormalizeKeepsTime ==
    ASSUME NEW t \in TimeVals
    PROVE  /\ Normalize(t) \in TimeVals
           /\ ToMicros(Normalize(t)) = ToMicros(t)
           /\ IsNormal(Normalize(t))
  <1>1. Carry(t.usec) \in Int
    BY SMT DEF Carry, TimeVals, SECOND
  <1>2. /\ t.usec - Carry(t.usec) * SECOND >= 0
        /\ t.usec - Carry(t.usec) * SECOND <= SECOND
    BY SMT DEF Carry, TimeVals, SECOND
  <1>3. ToMicros(Normalize(t)) = ToMicros(t)
    BY SMT, <1>1 DEF Normalize, ToMicros, TV, TimeVals, SECOND
  <1> QED
    BY SMT, <1>1, <1>2, <1>3 DEF Normalize, IsNormal, TV, TimeVals, SECOND

\* Addition and subtraction of TimeVals (proto.rs add, sub) add and subtract the times
\* they stand for.
THEOREM SumsKeepTime ==
    ASSUME NEW a \in TimeVals, NEW b \in TimeVals
    PROVE  /\ Add(a, b) \in TimeVals /\ IsNormal(Add(a, b))
           /\ ToMicros(Add(a, b)) = ToMicros(a) + ToMicros(b)
           /\ Sub(a, b) \in TimeVals /\ IsNormal(Sub(a, b))
           /\ ToMicros(Sub(a, b)) = ToMicros(a) - ToMicros(b)
  <1> DEFINE s == TV(a.sec + b.sec, a.usec + b.usec)
             d == TV(a.sec - b.sec, a.usec - b.usec)
  <1>1. s \in TimeVals /\ d \in TimeVals
    BY DEF TV, TimeVals
  <1>2. ToMicros(s) = ToMicros(a) + ToMicros(b) /\ ToMicros(d) = ToMicros(a) - ToMicros(b)
    BY SMT DEF TV, TimeVals, ToMicros, SECOND
  <1> HIDE DEF s, d
  <1>3. Add(a, b) = Normalize(s) /\ Sub(a, b) = Normalize(d)
    BY DEF Add, Sub, s, d
  <1> QED
    BY <1>1, <1>2, <1>3, NormalizeKeepsTime

\* A number of microseconds survives the conversion to a TimeVal and back.
THEOREM MicrosRoundTrip ==
    ASSUME NEW us \in Int
    PROVE  FromMicros(us) \in TimeVals /\ ToMicros(FromMicros(us)) = us
  BY SMT DEF FromMicros, Quotient, ToMicros, TV, TimeVals, SECOND

\* The sign of the seconds, which is all client.rs and main.rs look at, tells a time
\* that is over from one that is to come, except at zero, where it may say either.
THEOREM SignOfSeconds ==
    ASSUME NEW t \in TimeVals, IsNormal(t)
    PROVE  /\ ToMicros(t) < 0 => t.sec < 0
           /\ t.sec < 0 => ToMicros(t) <= 0
  BY SMT DEF IsNormal, ToMicros, TimeVals, SECOND

\* The derived order is the order of the times, but only where the microseconds stay
\* below a second, as they do for the offsets the client sorts.
THEOREM OrderOfTimes ==
    ASSUME NEW a \in TimeVals, NEW b \in TimeVals, IsCanonical(a), IsCanonical(b)
    PROVE  Before(a, b) <=> ToMicros(a) < ToMicros(b)
  BY SMT DEF IsCanonical, Before, ToMicros, TimeVals, SECOND

\* The offsets the client sorts (client.rs: from_micros, then normalize) are such.
THEOREM OffsetsCanonical ==
    ASSUME NEW us \in Int
    PROVE  /\ Normalize(FromMicros(us)) \in TimeVals
           /\ IsCanonical(Normalize(FromMicros(us)))
           /\ ToMicros(Normalize(FromMicros(us))) = us
  <1>1. FromMicros(us) \in TimeVals /\ ToMicros(FromMicros(us)) = us
    BY MicrosRoundTrip
  <1>2. FromMicros(us).usec > -SECOND /\ FromMicros(us).usec < SECOND
    BY SMT DEF FromMicros, Quotient, TV, SECOND
  <1>3. IsCanonical(Normalize(FromMicros(us)))
    BY SMT, <1>1, <1>2 DEF IsCanonical, Normalize, Carry, TV, TimeVals, SECOND
  <1> QED
    BY <1>1, <1>3, NormalizeKeepsTime

-----------------------------------------------------------------------------
\* Induction.

LEMMA LessIsWellFounded ==
    \E R : IsWellFoundedOn(R, Nat) /\ \A m, n \in Nat : m < n => <<m, n>> \in R
  <1>1. IsWellFoundedOn(OpToRel(<, Nat), Nat)
    BY NatLessThanWellFounded
  <1>2. \A m, n \in Nat : m < n => <<m, n>> \in OpToRel(<, Nat)
    BY DEF OpToRel
  <1> QED
    BY <1>1, <1>2, Zenon

\* Every set of natural numbers has a least element.
LEMMA LeastNatural ==
    ASSUME NEW T, T \subseteq Nat, T # {}
    PROVE  \E n \in T : \A m \in T : n <= m
  <1>1. PICK R : IsWellFoundedOn(R, Nat) /\ \A m, n \in Nat : m < n => <<m, n>> \in R
    BY LessIsWellFounded, Zenon
  <1>2. IsWellFoundedOn(R, Nat)
    BY <1>1
  <1>3. \E n \in T : \A m \in T : <<m, n>> \notin R
    BY <1>2, WFMin, Zenon
  <1>4. PICK n \in T : \A m \in T : <<m, n>> \notin R
    BY <1>3
  <1>5. ASSUME NEW m \in T
        PROVE  n <= m
    <2>1. m \in Nat /\ n \in Nat /\ <<m, n>> \notin R
      BY <1>4
    <2>2. ~(m < n)
      BY <1>1, <2>1
    <2> QED
      BY <2>1, <2>2
  <1> QED
    BY <1>5

\* What holds of 0 and of n + 1 whenever it holds of n holds of every n.
LEMMA InductionOnNat ==
    ASSUME NEW S, 0 \in S, \A n \in Nat : n \in S => n + 1 \in S
    PROVE  Nat \subseteq S
  <1> SUFFICES ASSUME Nat \ S # {}
               PROVE  FALSE
    OBVIOUS
  <1>1. PICK n \in Nat \ S : \A m \in Nat \ S : n <= m
    BY LeastNatural
  <1>2. n \in Nat \ {0}
    BY <1>1
  <1>3. n - 1 \in Nat /\ n - 1 \in S
    BY <1>1, <1>2
  <1> QED
    BY <1>1, <1>3
=============================================================================
