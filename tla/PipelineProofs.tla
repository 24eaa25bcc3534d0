--------------------------- MODULE PipelineProofs ---------------------------
(***************************************************************************)
(* What Pipeline.tla promises of the timestamps, for every batch, frame    *)
(* and packet length and for behaviours of any length.                     *)
(***************************************************************************)
EXTENDS Pipeline, TLAPS

\* When the next frame is due once there is an anchor.
NextDue == t0 + count * FRAME

\* A frame is only taken where one is waiting, and without an anchor none was timed.
PhaseInv ==
    /\ phase = "emit" => outLen >= FRAME
    /\ phase = "pace" => t0 # Unset /\ target = NextDue
    /\ t0 = Unset => count = 0

\* A pipeline that waits for its first start: it holds no frame that could be timed.
Unstarted == t0 = Unset /\ ~running /\ phase = "idle"

\* What is due next lies a frame after what was handed out; after a start, at or after
\* it, or it is still to be anchored.
OrderInv ==
    /\ lastTs # Unset /\ ~resumed =>
          Unstarted \/ (t0 # Unset /\ NextDue >= lastTs + FRAME)
    /\ lastTs # Unset /\ resumed /\ t0 # Unset => NextDue >= lastTs

\* How far behind the frame in hand can be, as the past-dated frames of an instant
\* are counted.
BurstInv ==
    /\ pastDated = 1 /\ phase = "pace" => target >= now - FRAME
    /\ pastDated = 2 /\ t0 # Unset => NextDue >= now

\* A frame is handed out no earlier than the time it carries.
NeverEarly == lastTs <= now

\* The frames handed out since the start lie a frame apart, from a time that is no
\* earlier than the start, to the last one.
AheadInv ==
    /\ lastTs # Unset /\ ~resumed => ahead <= lastTs + FRAME - now
    /\ resumed => ahead <= 0 /\ (t0 # Unset => NextDue >= now + ahead)
    /\ lastTs = Unset /\ ~resumed => ahead <= 0 /\ Unstarted

PipelineInv ==
    TypeOK /\ NeverEarly /\ NoBurst /\ PhaseInv /\ OrderInv /\ BurstInv /\ AheadInv

-----------------------------------------------------------------------------
LEMMA InitPipeline == Init => PipelineInv
  <1> SUFFICES ASSUME Init
               PROVE  PipelineInv
    OBVIOUS
  <1>1. TypeOK
    <2>1. running \in BOOLEAN /\ resumed \in BOOLEAN
      BY Zenon DEF Init
    <2>2. /\ now \in 0 .. MAX_TIME /\ inLen \in 0 .. IN_CHUNK - 1
          /\ failures \in 0 .. MAX_FAILURES
      BY PipelineAssumption DEF Init
    <2> QED
      BY <2>1, <2>2 DEF Init, TypeOK
  <1>2. NeverEarly /\ NoBurst
    BY DEF Init, NeverEarly, NoBurst, Unset
  <1>3. PhaseInv /\ OrderInv /\ BurstInv /\ AheadInv
    BY DEF Init, PhaseInv, OrderInv, BurstInv, AheadInv, Unstarted
  <1> QED
    BY <1>1, <1>2, <1>3 DEF PipelineInv

\* The types of what a step computes.
LEMMA DueTypes ==
    ASSUME TypeOK
    PROVE  /\ count * FRAME \in Nat
           /\ (count + 1) * FRAME = count * FRAME + FRAME
           /\ Anchor \in Nat /\ Due \in Nat /\ 0 * FRAME = 0
  <1>1. count \in Nat /\ FRAME \in Nat
    BY PipelineAssumption DEF TypeOK
  <1>2. count * FRAME \in Nat /\ (count + 1) * FRAME = count * FRAME + FRAME
    BY <1>1
  <1>3. Anchor \in Nat
    BY DEF TypeOK, Anchor, Unset
  <1> QED
    BY <1>1, <1>2, <1>3 DEF Due

LEMMA StartStep == PipelineInv /\ Start => PipelineInv'
  <1> SUFFICES ASSUME PipelineInv, Start
               PROVE  PipelineInv'
    OBVIOUS
  <1> USE DEF PipelineInv
  <1>1. TypeOK'
    BY PipelineAssumption DEF TypeOK, Start, Anchorless, Unset
  <1>2. NeverEarly' /\ NoBurst'
    BY DEF NeverEarly, NoBurst, Start
  <1>3. PhaseInv' /\ OrderInv' /\ BurstInv' /\ AheadInv'
    BY DEF PhaseInv, OrderInv, Unstarted, BurstInv, AheadInv, Start, Anchorless
  <1> QED
    BY <1>1, <1>2, <1>3

LEMMA PushStep == PipelineInv /\ Push => PipelineInv'
  <1> SUFFICES ASSUME PipelineInv, Push
               PROVE  PipelineInv'
    OBVIOUS
  <1> USE DEF PipelineInv
  <1>1. PICK n \in PACKETS : /\ inLen' = Remainder(inLen + n)
                             /\ outLen' = outLen + (inLen + n - inLen')
    BY DEF Push
  <1>2. n \in Nat /\ inLen \in Nat /\ outLen \in Nat /\ IN_CHUNK \in Nat \ {0}
    BY PipelineAssumption DEF TypeOK
  <1>3. inLen' \in Nat /\ inLen' <= inLen + n
    BY <1>1, <1>2 DEF Remainder
  <1>4. outLen' \in Nat
    BY <1>1, <1>2, <1>3
  <1>5. TypeOK'
    BY <1>3, <1>4 DEF TypeOK, Push, EmitFrom, anchorVars, historyVars
  <1>6. NeverEarly' /\ NoBurst'
    BY DEF NeverEarly, NoBurst, Push, historyVars
  <1>7. PhaseInv' /\ OrderInv' /\ BurstInv' /\ AheadInv'
    BY DEF PhaseInv, OrderInv, BurstInv, AheadInv, NextDue, Unstarted, Push, EmitFrom,
           anchorVars, historyVars
  <1> QED
    BY <1>5, <1>6, <1>7

LEMMA PushFailsStep == PipelineInv /\ PushFails => PipelineInv'
  <1> SUFFICES ASSUME PipelineInv, PushFails
               PROVE  PipelineInv'
    OBVIOUS
  <1> USE DEF PipelineInv
  <1>1. PICK n \in PACKETS : \E done \in 0 .. (inLen + n) \div IN_CHUNK - 1 :
                               /\ inLen' = inLen + n - (done + 1) * IN_CHUNK
                               /\ outLen' = outLen + done * IN_CHUNK
    BY DEF PushFails
  <1>2. PICK done \in 0 .. (inLen + n) \div IN_CHUNK - 1 :
                               /\ inLen' = inLen + n - (done + 1) * IN_CHUNK
                               /\ outLen' = outLen + done * IN_CHUNK
    BY <1>1
  <1>3. n \in Nat /\ inLen \in Nat /\ outLen \in Nat /\ IN_CHUNK \in Nat \ {0}
    BY PipelineAssumption DEF TypeOK
  <1>4. done \in Nat /\ done + 1 <= (inLen + n) \div IN_CHUNK
    BY <1>3
  <1>5. inLen' \in Nat
    <2> DEFINE total == inLen + n
               whole == total \div IN_CHUNK
    <2>1. total \in Nat /\ whole \in Nat /\ whole * IN_CHUNK <= total
      BY <1>3
    <2>2. (done + 1) * IN_CHUNK <= whole * IN_CHUNK
      BY <1>3, <1>4, <2>1
    <2>3. (done + 1) * IN_CHUNK \in Nat /\ inLen' = total - (done + 1) * IN_CHUNK
      BY <1>2, <1>3, <1>4
    <2>4. whole * IN_CHUNK \in Nat
      BY <1>3, <2>1
    <2> HIDE DEF total, whole
    <2> QED
      BY <2>1, <2>2, <2>3, <2>4
  <1>6. outLen' \in Nat
    BY <1>2, <1>3, <1>4
  <1>7. TypeOK'
    BY <1>5, <1>6, PipelineAssumption DEF TypeOK, PushFails, anchorVars, historyVars
  <1>8. NeverEarly' /\ NoBurst'
    BY DEF NeverEarly, NoBurst, PushFails, historyVars
  <1>9. PhaseInv' /\ OrderInv' /\ BurstInv' /\ AheadInv'
    BY DEF PhaseInv, OrderInv, BurstInv, AheadInv, NextDue, Unstarted, PushFails,
           anchorVars, historyVars
  <1> QED
    BY <1>7, <1>8, <1>9

LEMMA StopStep == PipelineInv /\ Stop => PipelineInv'
  <1> SUFFICES ASSUME PipelineInv, Stop
               PROVE  PipelineInv'
    OBVIOUS
  <1> USE DEF PipelineInv
  <1>1. outLen % FRAME \in 0 .. FRAME - 1
    BY PipelineAssumption DEF TypeOK
  <1>2. outLen' \in Nat
    BY <1>1, PipelineAssumption DEF TypeOK, Stop, Padded
  <1>3. TypeOK'
    BY <1>2 DEF TypeOK, Stop, EmitFrom, anchorVars, historyVars
  <1>4. NeverEarly' /\ NoBurst'
    BY DEF NeverEarly, NoBurst, Stop, historyVars
  <1>5. PhaseInv' /\ OrderInv' /\ BurstInv' /\ AheadInv'
    BY DEF PhaseInv, OrderInv, BurstInv, AheadInv, NextDue, Unstarted, Stop, EmitFrom,
           anchorVars, historyVars
  <1> QED
    BY <1>3, <1>4, <1>5

LEMMA PaceStep == PipelineInv /\ Pace => PipelineInv'
  <1> SUFFICES ASSUME PipelineInv, Pace
               PROVE  PipelineInv'
    OBVIOUS
  <1> USE DEF PipelineInv
  <1>1. FRAME \in Nat \ {0} /\ outLen' \in Nat
    BY PipelineAssumption DEF TypeOK, PhaseInv, Pace
  <1>2. /\ t0' \in 0 .. now /\ count' \in Nat /\ target' \in Nat
        /\ target' = t0' + count' * FRAME
    <2>1. now \in Nat /\ count \in Nat /\ (t0 = Unset \/ t0 \in 0 .. now)
      BY DEF TypeOK
    <2>2. CASE Stalled
      <3>1. t0' = now /\ count' = 0 /\ target' = now
        BY <2>2 DEF Pace, Reanchored
      <3> QED
        BY <2>1, <3>1, DueTypes
    <2>3. CASE ~Stalled
      <3>1. t0' = Anchor /\ count' = count /\ target' = Due
        BY <2>3 DEF Pace
      <3> QED
        BY <2>1, <3>1, DueTypes DEF Anchor, Due
    <2> QED
      BY <2>2, <2>3
  <1>3. target' >= now - FRAME
    BY DueTypes, <1>1 DEF Pace, Stalled, Reanchored, TypeOK
  <1>4. TypeOK'
    BY <1>1, <1>2 DEF TypeOK, Pace, historyVars
  <1>5. NeverEarly' /\ NoBurst'
    BY DEF NeverEarly, NoBurst, Pace, historyVars
  <1>6. PhaseInv'
    BY <1>1, <1>2 DEF PhaseInv, NextDue, Pace, Unset
  <1>7. OrderInv'
    <2>1. ASSUME Stalled
          PROVE  target' = now /\ now > Due + FRAME
      BY <2>1, DueTypes, <1>1 DEF Pace, Stalled, Reanchored, TypeOK
    <2>2. ASSUME ~Stalled
          PROVE  target' = Due
      BY <2>2 DEF Pace
    <2>3. t0 = Unset => Due = now
      BY DueTypes, <1>1 DEF PhaseInv, Due, Anchor, TypeOK
    <2>4. t0 # Unset => Due = NextDue
      BY DEF Due, Anchor, NextDue
    <2>5. lastTs # Unset /\ ~resumed => target' >= lastTs + FRAME
      BY <2>1, <2>2, <2>4, DueTypes, <1>1 DEF OrderInv, Unstarted, TypeOK, Pace
    <2>6. lastTs # Unset /\ resumed => target' >= lastTs
      BY <2>1, <2>2, <2>3, <2>4, DueTypes, <1>1 DEF OrderInv, Unstarted, NeverEarly, TypeOK
    <2> QED
      BY <1>2, <2>5, <2>6 DEF OrderInv, Unstarted, NextDue, Pace, historyVars, Unset
  <1>8. BurstInv'
    <2>1. pastDated = 2 => target' >= now
      <3>1. CASE Stalled
        BY <3>1, <1>1 DEF Pace, Reanchored, TypeOK
      <3>2. CASE ~Stalled
        <4>1. target' = Due
          BY <3>2 DEF Pace
        <4>2. t0 = Unset => Due = now
          BY DueTypes, <1>1 DEF PhaseInv, Due, Anchor, TypeOK
        <4>3. t0 # Unset => Due = NextDue
          BY DEF Due, Anchor, NextDue
        <4> QED
          BY <4>1, <4>2, <4>3 DEF BurstInv, TypeOK
      <3> QED
        BY <3>1, <3>2
    <2> QED
      BY <1>2, <1>3, <2>1 DEF BurstInv, NextDue, Pace, historyVars
  <1>9. AheadInv'
    <2>1. now \in Nat /\ ahead \in Int
      BY DEF TypeOK
    <2>2. resumed => target' >= now + ahead
      <3>1. CASE Stalled
        BY <2>1, <3>1 DEF AheadInv, Pace, Reanchored
      <3>2. CASE ~Stalled
        <4>1. target' = Due
          BY <3>2 DEF Pace
        <4>2. t0 = Unset => Due = now
          BY DueTypes, <1>1 DEF PhaseInv, Due, Anchor, TypeOK
        <4>3. t0 # Unset => Due = NextDue
          BY DEF Due, Anchor, NextDue
        <4> QED
          BY <2>1, <4>1, <4>2, <4>3 DEF AheadInv
      <3> QED
        BY <3>1, <3>2
    <2>3. ~(lastTs = Unset /\ ~resumed)
      BY DEF AheadInv, Unstarted, Pace
    <2>4. NextDue' = target'
      BY <1>2 DEF NextDue
    <2> QED
      BY <2>2, <2>3, <2>4 DEF AheadInv, Pace, historyVars
  <1> QED
    BY <1>4, <1>5, <1>6, <1>7, <1>8, <1>9

LEMMA EncodeFailsStep == PipelineInv /\ EncodeFails => PipelineInv'
  <1> SUFFICES ASSUME PipelineInv, EncodeFails
               PROVE  PipelineInv'
    OBVIOUS
  <1> USE DEF PipelineInv
  <1>1. TypeOK'
    BY PipelineAssumption DEF TypeOK, PhaseInv, EncodeFails, anchorVars, historyVars
  <1>2. NeverEarly' /\ NoBurst'
    BY DEF NeverEarly, NoBurst, EncodeFails, historyVars
  <1>3. PhaseInv' /\ OrderInv' /\ BurstInv' /\ AheadInv'
    BY DEF PhaseInv, OrderInv, BurstInv, AheadInv, NextDue, Unstarted, EncodeFails,
           anchorVars, historyVars
  <1> QED
    BY <1>1, <1>2, <1>3

LEMMA HandOutStep == PipelineInv /\ HandOut => PipelineInv'
  <1> SUFFICES ASSUME PipelineInv, HandOut
               PROVE  PipelineInv'
    OBVIOUS
  <1> USE DEF PipelineInv
  <1>1. FRAME \in Nat \ {0} /\ NextDue' = target + FRAME /\ target \in Nat /\ t0 # Unset
    BY DueTypes, PipelineAssumption DEF NextDue, HandOut, PhaseInv, TypeOK
  <1>2. TypeOK'
    <2>1. count' \in Nat /\ lastTs' \in Nat
      BY <1>1 DEF TypeOK, HandOut
    <2>2. pastDated' \in Nat /\ ahead' \in Int /\ resumed' \in BOOLEAN
      <3>1. pastDated' \in Nat /\ ahead' \in Int
        BY <1>1 DEF TypeOK, HandOut
      <3>2. resumed' \in BOOLEAN
        BY Zenon DEF HandOut
      <3> QED
        BY <3>1, <3>2
    <2>3. phase' \in {"idle", "emit", "pace"}
      BY DEF HandOut, EmitFrom
    <2> QED
      BY <2>1, <2>2, <2>3 DEF TypeOK, HandOut, audioVars
  <1>3. NeverEarly'
    BY DEF NeverEarly, HandOut, Rested
  <1>4. NoBurst'
    BY <1>1 DEF NoBurst, BurstInv, PhaseInv, HandOut, TypeOK
  <1>5. PhaseInv'
    BY <1>1 DEF PhaseInv, HandOut, EmitFrom, audioVars
  <1>6. OrderInv'
    BY <1>1 DEF OrderInv, HandOut
  <1>7. BurstInv'
    BY <1>1 DEF BurstInv, NoBurst, HandOut, EmitFrom, TypeOK
  <1>8. AheadInv'
    <2>1. lastTs' = target /\ target = NextDue /\ lastTs' # Unset /\ resumed' = FALSE
      BY <1>1 DEF HandOut, PhaseInv, Unset
    <2>2. resumed => ahead <= target - now
      BY <1>1, <2>1 DEF AheadInv, TypeOK
    <2>3. lastTs # Unset /\ ~resumed => ahead <= target - now
      BY <1>1, <2>1 DEF AheadInv, OrderInv, Unstarted, HandOut, TypeOK
    <2>4. ~(lastTs = Unset /\ ~resumed)
      BY DEF AheadInv, Unstarted, HandOut
    <2>5. ahead <= target - now
      BY <2>2, <2>3, <2>4
    <2>6. ahead' = ahead + FRAME /\ now' = now
      BY DEF HandOut
    <2> QED
      BY <1>1, <2>1, <2>5, <2>6 DEF AheadInv, TypeOK
  <1> QED
    BY <1>2, <1>3, <1>4, <1>5, <1>6, <1>7, <1>8

LEMMA TickStep == PipelineInv /\ Tick => PipelineInv'
  <1> SUFFICES ASSUME PipelineInv, Tick
               PROVE  PipelineInv'
    OBVIOUS
  <1> USE DEF PipelineInv
  <1>1. TypeOK'
    BY PipelineAssumption DEF TypeOK, Tick, audioVars, anchorVars
  <1>2. NeverEarly' /\ NoBurst'
    BY DEF NeverEarly, NoBurst, Tick, TypeOK, Unset
  <1>3. PhaseInv' /\ OrderInv' /\ BurstInv'
    BY DEF PhaseInv, OrderInv, BurstInv, NextDue, Unstarted, Tick, audioVars, anchorVars
  <1>4. AheadInv'
    BY DueTypes, PipelineAssumption
       DEF AheadInv, NextDue, Unstarted, Tick, TypeOK, anchorVars
  <1> QED
    BY <1>1, <1>2, <1>3, <1>4

LEMMA PipelineStep == PipelineInv /\ [Next]_vars => PipelineInv'
  <1> SUFFICES ASSUME PipelineInv, [Next]_vars
               PROVE  PipelineInv'
    OBVIOUS
  <1>1. CASE UNCHANGED vars
    BY <1>1 DEF PipelineInv, TypeOK, NeverEarly, NoBurst, PhaseInv, OrderInv, BurstInv,
                AheadInv, NextDue, Unstarted, vars, audioVars, anchorVars, historyVars
  <1>2. CASE Next
    BY <1>2, StartStep, PushStep, PushFailsStep, StopStep, PaceStep, EncodeFailsStep, HandOutStep,
       TickStep DEF Next
  <1> QED
    BY <1>1, <1>2

\* The conjunction of the type invariant, the two safety invariants and what makes
\* them inductive.
THEOREM PipelineInvariant == Spec => []PipelineInv
  BY InitPipeline, PipelineStep, PTL DEF Spec

\* The types of the variables.
THEOREM PipelineTypeCorrect == Spec => []TypeOK
  BY PipelineInvariant, PTL DEF PipelineInv

\* From the start of the sink on, the source is never let run ahead of real time by more
\* than a frame.
THEOREM ThrottledCorrect == Spec => []Throttled
  <1>1. PipelineInv => Throttled
    <2> SUFFICES ASSUME PipelineInv
                 PROVE  Throttled
      OBVIOUS
    <2>1. FRAME \in Nat /\ ahead \in Int /\ now \in Nat
      BY PipelineAssumption DEF PipelineInv, TypeOK
    <2>2. lastTs # Unset => lastTs \in Nat
      BY DEF PipelineInv, TypeOK
    <2> QED
      BY <2>1, <2>2 DEF PipelineInv, NeverEarly, AheadInv, Throttled
  <1> QED
    BY <1>1, PipelineInvariant, PTL

\* No burst of past-dated frames: two at most at any instant.
THEOREM NoBurstCorrect == Spec => []NoBurst
  BY PipelineInvariant, PTL DEF PipelineInv

LEMMA HandOutOrder ==
    PipelineInv /\ [Next]_vars =>
        [HandOut /\ lastTs # Unset =>
            lastTs' >= lastTs + (IF resumed THEN 0 ELSE FRAME)]_vars
  <1> SUFFICES ASSUME PipelineInv, HandOut, lastTs # Unset
               PROVE  lastTs' >= lastTs + (IF resumed THEN 0 ELSE FRAME)
    OBVIOUS
  <1>1. lastTs' = NextDue /\ t0 # Unset
    BY DEF PipelineInv, PhaseInv, HandOut
  <1>2. lastTs \in Nat /\ FRAME \in Nat
    BY PipelineAssumption DEF PipelineInv, TypeOK
  <1> QED
    BY <1>1, <1>2 DEF PipelineInv, OrderInv, Unstarted

\* Timestamps are a frame apart, and do not go back when the sink is started again.
THEOREM InOrderCorrect == Spec => InOrder
  BY HandOutOrder, PipelineInvariant, PTL DEF Spec, InOrder

=============================================================================
