--------------------------- MODULE TimeSyncProofs ---------------------------
(***************************************************************************)
(* The schedule of a chunk, the median of the samples and the exchange     *)
(* that takes them (TimeSync), for any number of samples, any delays and   *)
(* holds of the network, any settings and behaviours of any length.        *)
(***************************************************************************)
EXTENDS TimeSync, TimeValProofs, SequenceTheorems, FiniteSetTheorems

\* The longest and the shortest one-way delay, the longest hold.
MaxDelay == GreatestIn(DELAYS)
MinDelay == LeastIn(DELAYS)
MaxHold  == GreatestIn(HOLDS)

\* A stream keeps order.
Ordered(stream) ==
    \A i, j \in 1 .. Len(stream) : i < j => stream[i].at <= stream[j].at

Requests == [sent : Nat, synced : BOOLEAN, at : Nat]

\* Requests on their way arrive in order, none before it could and none late: time does
\* not pass beyond an arrival.
UpInv ==
    /\ up \in Seq(Requests)
    /\ \A i \in 1 .. Len(up) :
          /\ up[i].sent <= lastSent
          /\ now <= up[i].at
          /\ up[i].sent + MinDelay <= up[i].at
          /\ up[i].at <= up[i].sent + MaxDelay
          /\ up[i].synced => Synchronized
    /\ Ordered(up)

Messages ==
    [kind : {"time"}, received : Int, stamp : Int]
    \cup [kind : {"chunk"}, stamp : Int]
    \cup [kind : {"settings"}, settings : SETTINGS]

\* A reply was held for MaxHold at most, and arrived at the server no later than a
\* request sent when the client sent its last would have.
ReplyInv(m) ==
    LET arrived == m.msg.received - OFFSET
    IN  /\ m.msg.stamp = m.left + OFFSET
        /\ arrived <= m.left /\ m.left <= arrived + MaxHold
        /\ arrived <= lastSent + MaxDelay

Sendings == [msg : Messages, left : Nat, at : Nat]

DownInv ==
    /\ down \in Seq(Sendings)
    /\ \A i \in 1 .. Len(down) :
          /\ now <= down[i].at
          /\ down[i].left + MinDelay <= down[i].at
          /\ down[i].at <= down[i].left + MaxDelay
          /\ down[i].left <= now + MaxHold
          /\ down[i].msg.kind = "time" => ReplyInv(down[i])
    /\ Ordered(down)

NetworkInv ==
    /\ TypeOK /\ UpInv /\ DownInv
    /\ phase = "read" => now <= readSince + READ_TIMEOUT
    /\ inSync => Synchronized

-----------------------------------------------------------------------------
\* The schedule of a chunk (client.rs 146-158).

\* The chain of TimeVal sums that schedules a chunk is exact: it loses nothing to the
\* carry of normalize, whatever its operands.
THEOREM ScheduleExact ==
    ASSUME NEW ts \in Int, clockOffset \in Int,
           serverBuffer \in TimeVals, localLatency \in TimeVals
    PROVE  /\ AudibleAt(ts) \in TimeVals /\ IsNormal(AudibleAt(ts))
           /\ ToMicros(AudibleAt(ts)) =
                  ts - clockOffset + ToMicros(serverBuffer) - ToMicros(localLatency)
  <1> DEFINE offset   == Normalize(FromMicros(clockOffset))
             atServer == Sub(FromMicros(ts), offset)
             buffered == Add(atServer, serverBuffer)
  <1>1. offset \in TimeVals /\ ToMicros(offset) = clockOffset
    BY OffsetsCanonical
  <1>2. FromMicros(ts) \in TimeVals /\ ToMicros(FromMicros(ts)) = ts
    BY MicrosRoundTrip
  <1>3. AudibleAt(ts) = Sub(buffered, localLatency)
    BY DEF AudibleAt
  <1> HIDE DEF offset
  <1>4. atServer \in TimeVals /\ ToMicros(atServer) = ts - clockOffset
    BY <1>1, <1>2, SumsKeepTime
  <1> HIDE DEF atServer
  <1>5. /\ buffered \in TimeVals
        /\ ToMicros(buffered) = ts - clockOffset + ToMicros(serverBuffer)
    BY <1>4, SumsKeepTime
  <1> HIDE DEF buffered
  <1>6. /\ Sub(buffered, localLatency) \in TimeVals
        /\ IsNormal(Sub(buffered, localLatency))
        /\ ToMicros(Sub(buffered, localLatency)) =
               ToMicros(buffered) - ToMicros(localLatency)
    BY <1>5, SumsKeepTime
  <1>7. AudibleAt(ts) \in TimeVals /\ IsNormal(AudibleAt(ts))
    BY <1>3, <1>6
  <1>8. ToMicros(AudibleAt(ts)) = ToMicros(buffered) - ToMicros(localLatency)
    BY <1>3, <1>6
  <1> QED
    BY <1>5, <1>7, <1>8, MicrosAreInt

\* The verdict of process_packet, sec < 0: a chunk that is forwarded is still to sound,
\* and one that is dropped is at least due.
THEOREM VerdictRight ==
    ASSUME NEW ts \in Int, now \in Int, clockOffset \in Int,
           serverBuffer \in TimeVals, localLatency \in TimeVals
    PROVE  /\ ~Expired(ts, now) => ToMicros(AudibleAt(ts)) >= now
           /\ Expired(ts, now) => ToMicros(AudibleAt(ts)) <= now
  <1> DEFINE lead == Sub(AudibleAt(ts), FromMicros(now))
  <1>1. AudibleAt(ts) \in TimeVals
    BY ScheduleExact
  <1>2. FromMicros(now) \in TimeVals /\ ToMicros(FromMicros(now)) = now
    BY MicrosRoundTrip
  <1>3. /\ lead \in TimeVals /\ IsNormal(lead)
        /\ ToMicros(lead) = ToMicros(AudibleAt(ts)) - now
    BY <1>1, <1>2, SumsKeepTime
  <1>4. Expired(ts, now) <=> lead.sec < 0
    BY DEF Expired
  <1> HIDE DEF lead
  <1>5. (ToMicros(lead) < 0 => lead.sec < 0) /\ (lead.sec < 0 => ToMicros(lead) <= 0)
    BY <1>3, SignOfSeconds
  <1>6. ToMicros(AudibleAt(ts)) \in Int
    BY <1>1, MicrosAreInt
  <1> QED
    BY <1>3, <1>4, <1>5, <1>6

-----------------------------------------------------------------------------
\* Sorting.

LEMMA GreatestElement ==
    ASSUME NEW n \in Nat \ {0}, NEW s \in [1 .. n -> Int]
    PROVE  \E k \in 1 .. n : \A j \in 1 .. n : s[j] <= s[k]
  <1> DEFINE S == {m \in Nat : \A t \in [1 .. m + 1 -> Int] :
                      \E k \in 1 .. m + 1 : \A j \in 1 .. m + 1 : t[j] <= t[k]}
  <1>1. 0 \in S
    OBVIOUS
  <1>2. ASSUME NEW m \in Nat, m \in S
        PROVE  m + 1 \in S
    <2>0. m + 1 \in Nat /\ (m + 1) + 1 = m + 2
      OBVIOUS
    <2> SUFFICES ASSUME NEW t \in [1 .. m + 2 -> Int]
                 PROVE  \E k \in 1 .. m + 2 : \A j \in 1 .. m + 2 : t[j] <= t[k]
      BY <2>0, Zenon
    <2>1. [j \in 1 .. m + 1 |-> t[j]] \in [1 .. m + 1 -> Int]
      OBVIOUS
    <2>2. PICK k \in 1 .. m + 1 : \A j \in 1 .. m + 1 : t[j] <= t[k]
      BY <2>1, <1>2
    <2>3. CASE t[m + 2] <= t[k]
      <3>1. \A j \in 1 .. m + 2 : t[j] <= t[k]
        BY <2>2, <2>3
      <3> QED
        BY <3>1, <2>2
    <2>4. CASE ~(t[m + 2] <= t[k])
      <3>1. ASSUME NEW j \in 1 .. m + 2
            PROVE  t[j] <= t[m + 2]
        <4>1. t[j] \in Int /\ t[k] \in Int /\ t[m + 2] \in Int
          BY <2>2
        <4>2. CASE j = m + 2
          BY <4>1, <4>2
        <4>3. CASE j # m + 2
          BY <4>1, <4>3, <2>2, <2>4
        <4> QED
          BY <4>2, <4>3
      <3> QED
        BY <3>1
    <2> QED
      BY <2>3, <2>4
  <1> HIDE DEF S
  <1>3. Nat \subseteq S
    BY <1>1, <1>2, InductionOnNat
  <1>4. n - 1 \in S /\ (n - 1) + 1 = n
    BY <1>3
  <1>5. \A t \in [1 .. (n - 1) + 1 -> Int] :
            \E k \in 1 .. (n - 1) + 1 : \A j \in 1 .. (n - 1) + 1 : t[j] <= t[k]
    BY <1>4, Zenon DEF S
  <1> QED
    BY <1>4, <1>5, Zenon

Sorts(p, n, s) ==
    /\ p \in Surjection(1 .. n, 1 .. n)
    /\ \A i, j \in 1 .. n : i < j => s[p[i]] <= s[p[j]]

\* The greatest element goes last, and the others are sorted as if it were not there.
LEMMA GreatestLast ==
    ASSUME NEW n \in Nat, NEW s \in [1 .. n + 1 -> Int],
           NEW k \in 1 .. n + 1, \A j \in 1 .. n + 1 : s[j] <= s[k],
           NEW p, Sorts(p, n, [i \in 1 .. n |-> IF i = k THEN s[n + 1] ELSE s[i]])
    PROVE  \E q : Sorts(q, n + 1, s)
  <1> DEFINE t == [i \in 1 .. n |-> IF i = k THEN s[n + 1] ELSE s[i]]
             at(i) == IF p[i] = k THEN n + 1 ELSE p[i]
             q == [i \in 1 .. n + 1 |-> IF i = n + 1 THEN k ELSE at(i)]
  <1>1. /\ p \in [1 .. n -> 1 .. n] /\ \A w \in 1 .. n : \E i \in 1 .. n : p[i] = w
        /\ \A i, j \in 1 .. n : i < j => t[p[i]] <= t[p[j]]
    BY DEF Sorts, Surjection
  <1>2. /\ q \in [1 .. n + 1 -> 1 .. n + 1] /\ q[n + 1] = k
        /\ \A i \in 1 .. n : q[i] = at(i)
    <2>1. ASSUME NEW i \in 1 .. n
          PROVE  at(i) \in 1 .. n + 1
      <3>1. p[i] \in 1 .. n
        BY <1>1
      <3> QED
        BY <3>1
    <2> HIDE DEF at
    <2> QED
      BY <2>1
  <1>3. ASSUME NEW i \in 1 .. n
        PROVE  s[q[i]] = t[p[i]]
    <2>1. p[i] \in 1 .. n
      BY <1>1
    <2>2. CASE p[i] = k
      BY <1>2, <2>1, <2>2
    <2>3. CASE p[i] # k
      BY <1>2, <2>1, <2>3
    <2> QED
      BY <2>2, <2>3
  <1>4. \A w \in 1 .. n + 1 : \E i \in 1 .. n + 1 : q[i] = w
    <2> TAKE w \in 1 .. n + 1
    <2>1. CASE w = k
      BY <2>1
    <2>2. CASE w # k /\ w # n + 1
      <3>1. PICK i \in 1 .. n : p[i] = w
        BY <1>1, <2>2
      <3> QED
        BY <3>1, <2>2, SMTT(30)
    <2>3. CASE w # k /\ w = n + 1
      <3>1. PICK i \in 1 .. n : p[i] = k
        BY <1>1, <2>3
      <3> QED
        BY <3>1, <2>3
    <2> QED
      BY <2>1, <2>2, <2>3
  <1>5. \A i, j \in 1 .. n + 1 : i < j => s[q[i]] <= s[q[j]]
    <2> SUFFICES ASSUME NEW i \in 1 .. n + 1, NEW j \in 1 .. n + 1, i < j
                 PROVE  s[q[i]] <= s[q[j]]
      OBVIOUS
    <2>1. CASE j = n + 1
      BY <1>2, <2>1
    <2>2. CASE j # n + 1
      <3>1. i \in 1 .. n /\ j \in 1 .. n
        BY <2>2
      <3> HIDE DEF q, t
      <3> QED
        BY <1>1, <1>3, <3>1
    <2> QED
      BY <2>1, <2>2
  <1> QED
    BY <1>2, <1>4, <1>5 DEF Sorts, Surjection

LEMMA SortingExists ==
    ASSUME NEW n \in Nat, NEW s \in [1 .. n -> Int]
    PROVE  \E p : Sorts(p, n, s)
  <1> DEFINE S == {m \in Nat : \A t \in [1 .. m -> Int] : \E p : Sorts(p, m, t)}
  <1>1. 0 \in S
    <2>1. \A t : Sorts(<<>>, 0, t)
      BY DEF Sorts, Surjection
    <2> QED
      BY <2>1
  <1>2. ASSUME NEW m \in Nat, m \in S
        PROVE  m + 1 \in S
    <2> SUFFICES ASSUME NEW t \in [1 .. m + 1 -> Int]
                 PROVE  \E p : Sorts(p, m + 1, t)
      OBVIOUS
    <2>1. PICK k \in 1 .. m + 1 : \A j \in 1 .. m + 1 : t[j] <= t[k]
      <3>1. m + 1 \in Nat \ {0}
        OBVIOUS
      <3> QED
        BY <3>1, GreatestElement, Zenon
    <2>2. [i \in 1 .. m |-> IF i = k THEN t[m + 1] ELSE t[i]] \in [1 .. m -> Int]
      OBVIOUS
    <2>3. PICK p : Sorts(p, m, [i \in 1 .. m |-> IF i = k THEN t[m + 1] ELSE t[i]])
      BY <1>2, <2>2
    <2> QED
      BY <2>1, <2>3, GreatestLast
  <1> HIDE DEF S
  <1>3. Nat \subseteq S
    BY <1>1, <1>2, InductionOnNat
  <1> QED
    BY <1>3 DEF S

\* Sorted has the same elements, in ascending order.
LEMMA SortedSorts ==
    ASSUME NEW n \in Nat, NEW s \in [1 .. n -> Int]
    PROVE  \E p : Sorts(p, n, s) /\ Sorted(s) = [i \in 1 .. n |-> s[p[i]]]
  <1> DEFINE Orders == {[i \in DOMAIN s |-> s[p[i]]] : p \in Surjection(DOMAIN s, DOMAIN s)}
  <1>1. DOMAIN s = 1 .. n
    OBVIOUS
  <1>2. PICK p : Sorts(p, n, s)
    BY SortingExists
  <1>3. [i \in 1 .. n |-> s[p[i]]] \in Orders /\ Ascending([i \in 1 .. n |-> s[p[i]]])
    BY <1>1, <1>2 DEF Sorts, Ascending
  <1>4. Sorted(s) \in Orders /\ Ascending(Sorted(s))
    BY <1>3, Zenon DEF Sorted
  <1>5. PICK q \in Surjection(1 .. n, 1 .. n) : Sorted(s) = [i \in 1 .. n |-> s[q[i]]]
    BY <1>1, <1>4, Zenon
  <1>6. \A i, j \in 1 .. n : i < j => s[q[i]] <= s[q[j]]
    BY <1>4, <1>5 DEF Ascending
  <1> QED
    BY <1>5, <1>6 DEF Sorts

LEMMA SortedType ==
    ASSUME NEW n \in Nat, NEW s \in [1 .. n -> Int]
    PROVE  Sorted(s) \in [1 .. n -> Int]
  <1>1. PICK p : Sorts(p, n, s) /\ Sorted(s) = [i \in 1 .. n |-> s[p[i]]]
    BY SortedSorts
  <1> QED
    BY <1>1 DEF Sorts, Surjection

\* How many places of s hold a value that others of its sorted places hold.
LEMMA PlacesOfSorted ==
    ASSUME NEW n \in Nat, NEW p \in Surjection(1 .. n, 1 .. n),
           NEW a \in Int, NEW b \in Int, NEW I \in SUBSET (1 .. n),
           \A k \in 1 .. n : p[k] \in I => k \in a .. b
    PROVE  /\ IsFiniteSet(I) /\ Cardinality(I) \in Nat
           /\ Cardinality(I) <= IF a > b THEN 0 ELSE b - a + 1
  <1> DEFINE J == {k \in 1 .. n : p[k] \in I}
             f == [k \in J |-> p[k]]
  <1>1. IsFiniteSet(a .. b) /\ Cardinality(a .. b) = IF a > b THEN 0 ELSE b - a + 1
    BY FS_Interval
  <1>2. J \in SUBSET (a .. b)
    OBVIOUS
  <1>3. IsFiniteSet(J) /\ Cardinality(J) <= Cardinality(a .. b)
    BY <1>1, <1>2, FS_Subset
  <1>4. f \in Surjection(J, I)
    BY DEF Surjection
  <1>5. IsFiniteSet(I) /\ Cardinality(I) <= Cardinality(J)
    BY <1>3, <1>4, FS_Surjection
  <1>6. Cardinality(I) \in Nat /\ Cardinality(J) \in Nat /\ Cardinality(a .. b) \in Nat
    BY <1>1, <1>3, <1>5, FS_CardinalityType
  <1> QED
    BY <1>1, <1>3, <1>5, <1>6

\* The element behind the lower half of the sorted samples is their upper median.
LEMMA MiddleIsMedian ==
    ASSUME NEW n \in Nat \ {0}, NEW buf \in [1 .. n -> Int], Len(buf) = n
    PROVE  IsUpperMedian(Sorted(buf)[(n \div 2) + 1], buf)
  <1> DEFINE h == n \div 2
             x == Sorted(buf)[h + 1]
             Below == {i \in 1 .. n : buf[i] < x}
             AtBelow == {i \in 1 .. n : buf[i] <= x}
             Above == {i \in 1 .. n : buf[i] > x}
  <1>1. h \in Nat /\ h + 1 \in 1 .. n /\ 2 * h <= n /\ n <= 2 * h + 1
    OBVIOUS
  <1>2. PICK p : Sorts(p, n, buf) /\ Sorted(buf) = [i \in 1 .. n |-> buf[p[i]]]
    BY SortedSorts
  <1>3. /\ p \in Surjection(1 .. n, 1 .. n) /\ p \in [1 .. n -> 1 .. n]
        /\ \A i, j \in 1 .. n : i < j => buf[p[i]] <= buf[p[j]]
        /\ x = buf[p[h + 1]] /\ \A k \in 1 .. n : buf[p[k]] \in Int
    BY <1>1, <1>2 DEF Sorts, Surjection
  <1> HIDE DEF h, x
  <1>4. /\ IsFiniteSet(Below) /\ Cardinality(Below) \in Nat /\ Cardinality(Below) <= h
    <2>1. ASSUME NEW k \in 1 .. n, p[k] \in Below
          PROVE  k \in 1 .. h
      <3>1. buf[p[k]] < buf[p[h + 1]]
        BY <1>3, <2>1
      <3>2. buf[p[k]] \in Int /\ buf[p[h + 1]] \in Int
        BY <1>1, <1>3
      <3>3. h + 1 < k => buf[p[h + 1]] <= buf[p[k]]
        BY <1>1, <1>3, Zenon
      <3>4. k # h + 1 /\ ~(h + 1 < k)
        BY <3>1, <3>2, <3>3
      <3> QED
        BY <1>1, <3>4
    <2>2. Below \in SUBSET (1 .. n) /\ 1 \in Int /\ h \in Int
      BY <1>1
    <2> HIDE DEF Below
    <2>3. /\ IsFiniteSet(Below) /\ Cardinality(Below) \in Nat
          /\ Cardinality(Below) <= IF 1 > h THEN 0 ELSE h - (1) + 1
      BY <1>3, <2>1, <2>2, PlacesOfSorted
    <2> QED
      BY <1>1, <2>3
  <1>5. /\ IsFiniteSet(Above) /\ Cardinality(Above) \in Nat
        /\ Cardinality(Above) <= n - h - 1
    <2>1. ASSUME NEW k \in 1 .. n, p[k] \in Above
          PROVE  k \in h + 2 .. n
      <3>1. buf[p[k]] > buf[p[h + 1]]
        BY <1>3, <2>1
      <3>2. buf[p[k]] \in Int /\ buf[p[h + 1]] \in Int
        BY <1>1, <1>3
      <3>3. k < h + 1 => buf[p[k]] <= buf[p[h + 1]]
        BY <1>1, <1>3, Zenon
      <3>4. k # h + 1 /\ ~(k < h + 1)
        BY <3>1, <3>2, <3>3
      <3> QED
        BY <1>1, <3>4
    <2>2. Above \in SUBSET (1 .. n) /\ h + 2 \in Int /\ n \in Int
      BY <1>1
    <2> HIDE DEF Above
    <2>3. /\ IsFiniteSet(Above) /\ Cardinality(Above) \in Nat
          /\ Cardinality(Above) <= IF h + 2 > n THEN 0 ELSE n - (h + 2) + 1
      BY <1>3, <2>1, <2>2, PlacesOfSorted
    <2> QED
      BY <1>1, <2>3
  <1>6. Cardinality(AtBelow) \in Nat /\ Cardinality(AtBelow) + Cardinality(Above) = n
    <2>1. IsFiniteSet(1 .. n) /\ Cardinality(1 .. n) = n
      BY FS_Interval
    <2>2. AtBelow \in SUBSET (1 .. n) /\ AtBelow \cup Above = 1 .. n /\ AtBelow \cap Above = {}
      <3>1. x \in Int
        BY <1>1, <1>3
      <3> QED
        BY <3>1
    <2>3. IsFiniteSet(AtBelow)
      BY <2>1, <2>2, FS_Subset
    <2> HIDE DEF AtBelow, Above
    <2>4. Cardinality(AtBelow) \in Nat /\ Cardinality(AtBelow \cap Above) = 0
      BY <2>2, <2>3, FS_CardinalityType, FS_EmptySet
    <2>5. Cardinality(AtBelow \cup Above) =
              Cardinality(AtBelow) + Cardinality(Above) - Cardinality(AtBelow \cap Above)
      BY <1>5, <2>3, FS_Union
    <2>6. n = Cardinality(AtBelow) + Cardinality(Above) - 0
      BY <2>1, <2>2, <2>4, <2>5, Zenon
    <2> QED
      BY <1>5, <2>4, <2>6
  <1>7. 2 * Cardinality(Below) <= n /\ 2 * Cardinality(AtBelow) > n
    BY <1>1, <1>4, <1>5, <1>6
  <1>8. DOMAIN buf = 1 .. n
    OBVIOUS
  <1> QED
    BY <1>7, <1>8 DEF IsUpperMedian, x, h

-----------------------------------------------------------------------------
\* A Time reply, and the machine's other handlers.

LEMMA QuotientType ==
    ASSUME NEW x \in Int
    PROVE  /\ Quotient(x, 2) \in Int
           /\ 2 * Quotient(x, 2) <= x + 1 /\ x <= 2 * Quotient(x, 2) + 1
  BY SMT DEF Quotient

\* The full buffer drops one sample for one, the others grow.
LEMMA PushGives ==
    ASSUME NEW buf \in Seq(Int), Len(buf) <= LATENCY_SAMPLES, NEW x \in Int
    PROVE  /\ Push(buf, x) \in Seq(Int)
           /\ Len(Push(buf, x)) = IF Len(buf) = LATENCY_SAMPLES THEN LATENCY_SAMPLES
                                                                ELSE Len(buf) + 1
           /\ \A i \in 1 .. Len(Push(buf, x)) :
                 \/ Push(buf, x)[i] = x
                 \/ \E j \in 1 .. Len(buf) : Push(buf, x)[i] = buf[j]
  <1> DEFINE kept == IF Len(buf) < LATENCY_SAMPLES THEN buf ELSE Tail(buf)
  <1>1. Len(buf) \in Nat /\ LATENCY_SAMPLES \in Nat \ {0}
    BY MachineAssumption
  <1>2. /\ kept \in Seq(Int)
        /\ Len(kept) = IF Len(buf) < LATENCY_SAMPLES THEN Len(buf) ELSE Len(buf) - 1
        /\ \A i \in 1 .. Len(kept) : \E j \in 1 .. Len(buf) : kept[i] = buf[j]
    <2>1. CASE Len(buf) < LATENCY_SAMPLES
      BY <2>1
    <2>2. CASE ~(Len(buf) < LATENCY_SAMPLES)
      <3>1. buf # <<>>
        BY <1>1, <2>2
      <3>2. /\ Tail(buf) \in Seq(Int) /\ Len(Tail(buf)) = Len(buf) - 1
            /\ \A i \in 1 .. Len(Tail(buf)) : Tail(buf)[i] = buf[i + 1]
        BY <3>1, HeadTailProperties
      <3>3. \A i \in 1 .. Len(Tail(buf)) : i + 1 \in 1 .. Len(buf)
        BY <1>1, <3>2
      <3> QED
        BY <2>2, <3>2, <3>3
    <2> QED
      BY <2>1, <2>2
  <1> HIDE DEF kept
  <1>3. Push(buf, x) = Append(kept, x)
    BY DEF Push, kept
  <1>4. /\ Append(kept, x) \in Seq(Int) /\ Len(Append(kept, x)) = Len(kept) + 1
        /\ \A i \in 1 .. Len(kept) : Append(kept, x)[i] = kept[i]
        /\ Append(kept, x)[Len(kept) + 1] = x
    <2>1. kept \in Seq(Int)
      BY <1>2, Zenon
    <2> QED
      BY <2>1, AppendProperties
  <1>5. Len(kept) \in Nat
    BY <1>2
  <1>6. ASSUME NEW i \in 1 .. Len(Append(kept, x))
        PROVE  Append(kept, x)[i] = x \/ \E j \in 1 .. Len(buf) : Append(kept, x)[i] = buf[j]
    <2>1. i = Len(kept) + 1 \/ i \in 1 .. Len(kept)
      BY <1>4, <1>5
    <2> QED
      BY <1>2, <1>4, <2>1
  <1>7. Len(kept) + 1 = IF Len(buf) = LATENCY_SAMPLES THEN LATENCY_SAMPLES ELSE Len(buf) + 1
    BY <1>1, <1>2
  <1> QED
    BY <1>3, <1>4, <1>6, <1>7

BufferTypes ==
    /\ latencyBuf \in Seq(Int) /\ Len(latencyBuf) <= LATENCY_SAMPLES
    /\ sortedBuf \in [1 .. LATENCY_SAMPLES -> Int]
    /\ clockOffset \in Int

\* What a reply does to the buffers: once they are full, the offset in use is the
\* median of the samples, and one of them.
LEMMA OnTimeGives ==
    ASSUME BufferTypes, NEW received \in Int, NEW sent \in Int, NEW at \in Int,
           lastSent \in Int, OnTime(received, sent, at)
    PROVE  /\ BufferTypes'
           /\ Len(latencyBuf') = IF Synchronized THEN Len(latencyBuf) ELSE Len(latencyBuf) + 1
           /\ \A i \in 1 .. Len(latencyBuf') :
                 \/ latencyBuf'[i] = Offset(received, sent, at)
                 \/ \E j \in 1 .. Len(latencyBuf) : latencyBuf'[i] = latencyBuf[j]
           /\ Synchronized' => /\ IsUpperMedian(clockOffset', latencyBuf')
                               /\ \E i \in 1 .. Len(latencyBuf') : clockOffset' = latencyBuf'[i]
  <1> DEFINE x == Offset(received, sent, at)
             n == Len(latencyBuf')
             over == Overwrite(sortedBuf, latencyBuf')
  <1>1. x \in Int
    BY QuotientType DEF Offset
  <1>2. LATENCY_SAMPLES \in Nat \ {0} /\ Len(latencyBuf) \in Nat
    BY MachineAssumption DEF BufferTypes
  <1>3. latencyBuf' = Push(latencyBuf, x) /\ sortedBuf' = Sorted(over)
        /\ clockOffset' = Middle(sortedBuf', n)
    BY DEF OnTime
  <1> HIDE DEF x
  <1>4. /\ latencyBuf' \in Seq(Int)
        /\ n = IF Synchronized THEN Len(latencyBuf) ELSE Len(latencyBuf) + 1
        /\ \A i \in 1 .. n : \/ latencyBuf'[i] = x
                             \/ \E j \in 1 .. Len(latencyBuf) : latencyBuf'[i] = latencyBuf[j]
    BY <1>1, <1>3, PushGives DEF BufferTypes, Synchronized
  <1>5. n \in 1 .. LATENCY_SAMPLES
    BY <1>2, <1>4 DEF BufferTypes, Synchronized
  <1>6. latencyBuf' \in [1 .. n -> Int]
    BY <1>4, LenProperties
  <1>7. over \in [1 .. LATENCY_SAMPLES -> Int]
    BY <1>5, <1>6 DEF Overwrite, BufferTypes
  <1>8. sortedBuf' \in [1 .. LATENCY_SAMPLES -> Int]
    BY <1>2, <1>3, <1>7, SortedType
  <1>9. LATENCY_SAMPLES - n + (n \div 2) + 1 \in 1 .. LATENCY_SAMPLES
    BY <1>2, <1>5
  <1>10. clockOffset' \in Int
    BY <1>3, <1>8, <1>9 DEF Middle
  <1>11. ASSUME Synchronized'
         PROVE  /\ IsUpperMedian(clockOffset', latencyBuf')
                /\ \E i \in 1 .. n : clockOffset' = latencyBuf'[i]
    <2>1. n = LATENCY_SAMPLES
      BY <1>11 DEF Synchronized
    <2>2. over = latencyBuf'
      BY <1>6, <1>7, <2>1 DEF Overwrite
    <2>3. /\ LATENCY_SAMPLES - n + (n \div 2) + 1 = (n \div 2) + 1
          /\ (n \div 2) + 1 \in 1 .. n
      BY <1>2, <2>1
    <2>4. clockOffset' = Sorted(latencyBuf')[(n \div 2) + 1]
      BY <1>3, <2>2, <2>3 DEF Middle
    <2>5. IsUpperMedian(clockOffset', latencyBuf')
      BY <1>2, <1>6, <2>1, <2>4, MiddleIsMedian
    <2>6. PICK p : /\ Sorts(p, n, latencyBuf')
                   /\ Sorted(latencyBuf') = [i \in 1 .. n |-> latencyBuf'[p[i]]]
      BY <1>2, <1>6, <2>1, SortedSorts
    <2>7. p[(n \div 2) + 1] \in 1 .. n /\ clockOffset' = latencyBuf'[p[(n \div 2) + 1]]
      BY <2>3, <2>4, <2>6 DEF Sorts, Surjection
    <2> QED
      BY <2>5, <2>7
  <1>12. BufferTypes'
    BY <1>4, <1>5, <1>8, <1>10 DEF BufferTypes
  <1> QED
    BY <1>4, <1>11, <1>12 DEF x

LEMMA FromMillisType ==
    ASSUME NEW ms \in Nat
    PROVE  FromMillis(ms) \in TimeVals
  <1>1. TV(0, ms * 1000) \in TimeVals
    BY DEF TV, TimeVals
  <1> QED
    BY <1>1, NormalizeKeepsTime DEF FromMillis

-----------------------------------------------------------------------------
\* The network.

LEMMA SecondType == SECOND \in Nat \ {0} /\ READ_TIMEOUT = SECOND /\ SECOND > 1000
  BY DEF SECOND, READ_TIMEOUT

LEMMA Bounds ==
    /\ MaxDelay \in Nat /\ MinDelay \in Nat /\ MaxHold \in Nat
    /\ \A d \in DELAYS : d \in Nat /\ MinDelay <= d /\ d <= MaxDelay
    /\ \A h \in HOLDS : h \in Nat /\ h <= MaxHold
    /\ LongestTrip = 2 * MaxDelay + MaxHold /\ ShortestTrip = 2 * MinDelay
    /\ LongestTrip \in Nat /\ ShortestTrip \in Nat
  <1>1. MaxDelay \in DELAYS /\ \A d \in DELAYS : MaxDelay >= d
    <2>1. \E x \in DELAYS : \A y \in DELAYS : x >= y
      BY SyncAssumption
    <2> QED
      BY <2>1, Zenon DEF MaxDelay, GreatestIn
  <1>2. MaxHold \in HOLDS /\ \A h \in HOLDS : MaxHold >= h
    <2>1. \E x \in HOLDS : \A y \in HOLDS : x >= y
      BY SyncAssumption
    <2> QED
      BY <2>1, Zenon DEF MaxHold, GreatestIn
  <1>3. MinDelay \in DELAYS /\ \A d \in DELAYS : MinDelay <= d
    <2>1. \E x \in DELAYS : \A y \in DELAYS : x <= y
      BY <1>1, SyncAssumption, LeastNatural
    <2> QED
      BY <2>1, Zenon DEF MinDelay, LeastIn
  <1>4. LongestTrip = 2 * MaxDelay + MaxHold /\ ShortestTrip = 2 * MinDelay
    BY DEF LongestTrip, ShortestTrip, MaxDelay, MinDelay, MaxHold
  <1> QED
    BY <1>1, <1>2, <1>3, <1>4, SyncAssumption

LEMMA OrderedAppend ==
    ASSUME NEW S, NEW q \in Seq(S), \A m \in S : m.at \in Nat, Ordered(q), NEW m \in S,
           q # <<>> => q[Len(q)].at <= m.at
    PROVE  Ordered(Append(q, m))
  <1>1. /\ Len(q) \in Nat /\ Len(Append(q, m)) = Len(q) + 1
        /\ \A i \in 1 .. Len(q) : Append(q, m)[i] = q[i]
        /\ Append(q, m)[Len(q) + 1] = m
    BY AppendProperties, LenProperties
  <1>2. \A i \in 1 .. Len(q) : q[i] \in S /\ q[i].at \in Nat
    BY ElementOfSeq
  <1>3. ASSUME NEW i \in 1 .. Len(q)
        PROVE  q[i].at <= m.at
    <2>1. q # <<>> /\ Len(q) \in 1 .. Len(q)
      BY <1>1, EmptySeq
    <2>2. i < Len(q) => q[i].at <= q[Len(q)].at
      BY <2>1, Zenon DEF Ordered
    <2>3. q[i].at \in Nat /\ q[Len(q)].at \in Nat /\ m.at \in Nat
      BY <1>2, <2>1
    <2> QED
      BY <1>1, <2>1, <2>2, <2>3
  <1>4. ASSUME NEW i \in 1 .. Len(q) + 1, NEW j \in 1 .. Len(q) + 1, i < j
        PROVE  Append(q, m)[i].at <= Append(q, m)[j].at
    <2>1. CASE j = Len(q) + 1
      BY <1>1, <1>3, <1>4, <2>1
    <2>2. CASE j # Len(q) + 1
      <3>1. i \in 1 .. Len(q) /\ j \in 1 .. Len(q)
        BY <1>1, <1>4, <2>2
      <3> QED
        BY <1>1, <1>4, <3>1 DEF Ordered
    <2> QED
      BY <2>1, <2>2
  <1> QED
    BY <1>1, <1>4 DEF Ordered

LEMMA OrderedTail ==
    ASSUME NEW S, NEW q \in Seq(S), q # <<>>, Ordered(q)
    PROVE  Ordered(Tail(q))
  <1>1. /\ Len(q) \in Nat /\ Len(Tail(q)) = Len(q) - 1
        /\ \A i \in 1 .. Len(Tail(q)) : Tail(q)[i] = q[i + 1]
    BY HeadTailProperties, LenProperties
  <1>2. ASSUME NEW i \in 1 .. Len(Tail(q)), NEW j \in 1 .. Len(Tail(q)), i < j
        PROVE  Tail(q)[i].at <= Tail(q)[j].at
    <2>1. i + 1 \in 1 .. Len(q) /\ j + 1 \in 1 .. Len(q) /\ i + 1 < j + 1
      BY <1>1, <1>2
    <2>2. q[i + 1].at <= q[j + 1].at
      BY <2>1, Zenon DEF Ordered
    <2> QED
      BY <1>1, <2>2
  <1> QED
    BY <1>2 DEF Ordered

\* The variables as numbers.
LEMMA NetworkFacts ==
    ASSUME NetworkInv
    PROVE  /\ now \in Nat /\ lastSent \in Nat /\ lastSent <= now
           /\ readSince \in Nat /\ readSince <= now
           /\ Len(up) \in Nat /\ Len(down) \in Nat
           /\ \A i \in 1 .. Len(up) : up[i] \in Requests /\ up[i].at \in Nat /\ up[i].sent \in Nat
           /\ \A i \in 1 .. Len(down) :
                 down[i] \in Sendings /\ down[i].at \in Nat /\ down[i].left \in Nat
           /\ BufferTypes /\ Len(latencyBuf) \in Nat
  <1>1. up \in Seq(Requests) /\ down \in Seq(Sendings)
    BY DEF NetworkInv, UpInv, DownInv
  <1>2. Len(up) \in Nat /\ Len(down) \in Nat
    BY <1>1, LenProperties
  <1>3. \A i \in 1 .. Len(up) : up[i] \in Requests
    BY <1>1, ElementOfSeq
  <1>4. \A i \in 1 .. Len(down) : down[i] \in Sendings
    BY <1>1, ElementOfSeq
  <1>5. /\ now \in 0 .. MAX_TIME /\ lastSent \in 0 .. now /\ readSince \in 0 .. now
        /\ BufferTypes
    BY DEF NetworkInv, TypeOK, BufferTypes
  <1>6. Len(latencyBuf) \in Nat
    BY <1>5, LenProperties DEF BufferTypes
  <1>7. /\ now \in Nat /\ lastSent \in Nat /\ lastSent <= now
        /\ readSince \in Nat /\ readSince <= now
    BY <1>5, SyncAssumption
  <1>8. \A m \in Requests : m.at \in Nat /\ m.sent \in Nat
    BY DEF Requests
  <1>9. \A m \in Sendings : m.at \in Nat /\ m.left \in Nat
    BY DEF Sendings
  <1> QED
    BY <1>2, <1>3, <1>4, <1>5, <1>6, <1>7, <1>8, <1>9

LEMMA UpSame ==
    ASSUME NetworkInv, up' = up, lastSent' \in Int, lastSent' >= lastSent, now' = now,
           Synchronized => Synchronized'
    PROVE  UpInv'
  <1>1. \A i \in 1 .. Len(up) : up[i].sent <= lastSent'
    BY NetworkFacts DEF NetworkInv, UpInv
  <1> QED
    BY <1>1 DEF NetworkInv, UpInv

LEMMA UpRead ==
    ASSUME NetworkInv, up # <<>>, up' = Tail(up), UNCHANGED <<lastSent, now, latencyBuf>>
    PROVE  UpInv'
  <1>1. up \in Seq(Requests) /\ Ordered(up)
    BY DEF NetworkInv, UpInv
  <1>2. /\ Tail(up) \in Seq(Requests) /\ Len(Tail(up)) = Len(up) - 1
        /\ \A i \in 1 .. Len(Tail(up)) : Tail(up)[i] = up[i + 1]
    BY <1>1, HeadTailProperties
  <1>3. \A i \in 1 .. Len(Tail(up)) : i + 1 \in 1 .. Len(up)
    BY <1>2, NetworkFacts
  <1>4. Ordered(Tail(up))
    BY <1>1, OrderedTail
  <1>5. Synchronized' = Synchronized
    BY DEF Synchronized
  <1> QED
    BY <1>2, <1>3, <1>4, <1>5 DEF NetworkInv, UpInv

LEMMA DownSame ==
    ASSUME NetworkInv, down' = down, lastSent' \in Int, lastSent' >= lastSent, now' = now
    PROVE  DownInv'
  <1>1. ASSUME NEW i \in 1 .. Len(down), down[i].msg.kind = "time"
        PROVE  ReplyInv(down[i])'
    <2>1. ReplyInv(down[i]) /\ down[i].msg \in Messages
      BY <1>1, NetworkFacts DEF NetworkInv, DownInv, Sendings
    <2>2. down[i].msg.received \in Int
      BY <1>1, <2>1 DEF Messages
    <2>3. lastSent \in Int /\ MaxDelay \in Int /\ OFFSET \in Int
      BY NetworkFacts, Bounds, SyncAssumption
    <2>4. down[i].msg.received - OFFSET <= lastSent' + MaxDelay
      <3>1. down[i].msg.received - OFFSET <= lastSent + MaxDelay
        BY <2>1 DEF ReplyInv
      <3> QED
        BY <3>1, <2>2, <2>3
    <2> QED
      BY <2>1, <2>4 DEF ReplyInv
  <1> QED
    BY <1>1 DEF NetworkInv, DownInv

LEMMA DownRead ==
    ASSUME NetworkInv, down # <<>>, down' = Tail(down), UNCHANGED <<lastSent, now>>
    PROVE  DownInv'
  <1>1. down \in Seq(Sendings) /\ Ordered(down)
    BY DEF NetworkInv, DownInv
  <1>2. /\ Tail(down) \in Seq(Sendings) /\ Len(Tail(down)) = Len(down) - 1
        /\ \A i \in 1 .. Len(Tail(down)) : Tail(down)[i] = down[i + 1]
    BY <1>1, HeadTailProperties
  <1>3. \A i \in 1 .. Len(Tail(down)) : i + 1 \in 1 .. Len(down)
    BY <1>2, NetworkFacts
  <1>4. Ordered(Tail(down))
    BY <1>1, OrderedTail
  <1>5. \A m : ReplyInv(m)' = ReplyInv(m)
    BY DEF ReplyInv
  <1> QED
    BY <1>2, <1>3, <1>4, <1>5 DEF NetworkInv, DownInv

\* What is written arrives in order, in time, and not before the shortest delay.
LEMMA DownWritten ==
    ASSUME NetworkInv, UNCHANGED <<lastSent, now>>, NEW msg \in Messages, NEW left \in Nat,
           now <= left, left <= now + MaxHold, down # <<>> => down[Len(down)].left <= left,
           NEW delay \in DELAYS,
           down' = Append(down, [msg |-> msg, left |-> left,
                                 at |-> Arrival(down, left + delay)]),
           msg.kind = "time" =>
               /\ msg.stamp = left + OFFSET
               /\ msg.received - OFFSET <= left /\ left <= msg.received - OFFSET + MaxHold
               /\ msg.received - OFFSET <= lastSent + MaxDelay
    PROVE  /\ DownInv'
           /\ Arrival(down, left + delay) >= left + MinDelay
           /\ Arrival(down, left + delay) <= left + MaxDelay
  <1> DEFINE at == Arrival(down, left + delay)
             m == [msg |-> msg, left |-> left, at |-> at]
  <1>1. down \in Seq(Sendings) /\ Ordered(down)
    BY DEF NetworkInv, DownInv
  <1>2. /\ now \in Nat /\ Len(down) \in Nat /\ MaxDelay \in Nat /\ MinDelay \in Nat
        /\ delay \in Nat /\ MinDelay <= delay /\ delay <= MaxDelay
    BY NetworkFacts, Bounds
  <1>3. down # <<>> => /\ Len(down) \in 1 .. Len(down) /\ down[Len(down)].at \in Nat
                       /\ down[Len(down)].at <= left + MaxDelay
    <2> SUFFICES ASSUME down # <<>>
                 PROVE  /\ Len(down) \in 1 .. Len(down) /\ down[Len(down)].at \in Nat
                        /\ down[Len(down)].at <= left + MaxDelay
      OBVIOUS
    <2>1. Len(down) \in 1 .. Len(down)
      BY <1>1, <1>2, EmptySeq
    <2>2. /\ down[Len(down)].at \in Nat /\ down[Len(down)].left \in Nat
          /\ down[Len(down)].at <= down[Len(down)].left + MaxDelay
      BY <2>1, NetworkFacts DEF NetworkInv, DownInv
    <2> QED
      BY <1>2, <2>1, <2>2
  <1>4. /\ at \in Nat /\ at >= left + MinDelay /\ at <= left + MaxDelay
        /\ down # <<>> => down[Len(down)].at <= at
    <2>1. at = IF down = <<>> THEN left + delay ELSE Latest(left + delay, down[Len(down)].at)
      BY DEF Arrival
    <2> QED
      BY <1>2, <1>3, <2>1 DEF Latest
  <1> HIDE DEF at
  <1>5. m \in Sendings
    BY <1>4 DEF Sendings
  <1>6. /\ down' \in Seq(Sendings) /\ Len(down') = Len(down) + 1
        /\ \A i \in 1 .. Len(down) : down'[i] = down[i]
        /\ down'[Len(down) + 1] = m
    <2>1. down' = Append(down, m)
      BY DEF at
    <2> HIDE DEF m
    <2> QED
      BY <1>1, <1>5, <2>1, AppendProperties
  <1>7. Ordered(down')
    <2>1. \A s \in Sendings : s.at \in Nat
      BY DEF Sendings
    <2>2. down' = Append(down, m) /\ m.at = at
      BY DEF at
    <2> HIDE DEF m
    <2> QED
      BY <1>1, <1>4, <1>5, <2>1, <2>2, OrderedAppend
  <1>8. \A s : ReplyInv(s)' = ReplyInv(s)
    BY DEF ReplyInv
  <1>9. ASSUME NEW i \in 1 .. Len(down) + 1
        PROVE  /\ now <= down'[i].at
               /\ down'[i].left + MinDelay <= down'[i].at
               /\ down'[i].at <= down'[i].left + MaxDelay
               /\ down'[i].left <= now + MaxHold
               /\ down'[i].msg.kind = "time" => ReplyInv(down'[i])
    <2>1. CASE i = Len(down) + 1
      <3>1. down'[i] = m /\ m.msg = msg /\ m.left = left /\ m.at = at
        BY <1>6, <2>1
      <3>2. msg.kind = "time" => ReplyInv(m)
        BY <3>1, Zenon DEF ReplyInv
      <3>3. now <= at /\ left + MinDelay <= at /\ at <= left + MaxDelay
        BY <1>2, <1>4
      <3> HIDE DEF m
      <3> QED
        BY <3>1, <3>2, <3>3
    <2>2. CASE i # Len(down) + 1
      <3>1. i \in 1 .. Len(down)
        BY <1>2, <2>2
      <3> QED
        BY <1>6, <3>1, Zenon DEF NetworkInv, DownInv
    <2> QED
      BY <2>1, <2>2
  <1>10. DownInv'
    BY <1>6, <1>7, <1>8, <1>9 DEF DownInv
  <1> QED
    BY <1>4, <1>10 DEF at

\* A message is read at the time of its arrival.
LEMMA ReadableFacts ==
    ASSUME NetworkInv, NEW kind, Readable(kind)
    PROVE  /\ down # <<>> /\ Head(down) = down[1] /\ 1 \in 1 .. Len(down)
           /\ down[1].msg \in Messages /\ down[1].msg.kind = kind /\ down[1].at = now
           /\ phase = "read"
  <1>1. down # <<>> /\ down \in Seq(Sendings)
    BY DEF NetworkInv, DownInv, Readable
  <1>2. Head(down) = down[1] /\ 1 \in 1 .. Len(down)
    BY <1>1, EmptySeq
  <1>3. now <= down[1].at /\ down[1].at \in Nat /\ now \in Nat /\ down[1] \in Sendings
    BY <1>2, NetworkFacts DEF NetworkInv, DownInv
  <1>4. down[1].msg \in Messages
    BY <1>3 DEF Sendings
  <1> QED
    BY <1>1, <1>2, <1>3, <1>4 DEF Readable

LEMMA InitNetwork == Init => NetworkInv
  <1> SUFFICES ASSUME Init
               PROVE  NetworkInv
    OBVIOUS
  <1>1. /\ now = 0 /\ phase = "poll" /\ readSince = 0 /\ inSync = FALSE
        /\ up = <<>> /\ down = <<>> /\ playErr = 0 /\ latencyBuf = <<>> /\ lastSent = 0
        /\ sortedBuf = [i \in 1 .. LATENCY_SAMPLES |-> 0] /\ clockOffset = 1000
        /\ nextPush \in GAPS /\ pushes = MAX_PUSHES
    BY SMT DEF Init, MachineInit
  <1>2. TypeOK
    <2>1. serverBuffer \in TimeVals /\ localLatency \in TimeVals
      BY SMT DEF Init, MachineInit, TV, TimeVals
    <2>2. latencyBuf \in Seq(Int) /\ Len(latencyBuf) <= LATENCY_SAMPLES
      BY <1>1, MachineAssumption
    <2>3. sortedBuf \in [1 .. LATENCY_SAMPLES -> Int] /\ clockOffset \in Int
      BY <1>1
    <2>4. /\ now \in 0 .. MAX_TIME /\ lastSent \in 0 .. now /\ readSince \in 0 .. now
          /\ nextPush \in Nat /\ pushes \in 0 .. MAX_PUSHES /\ playErr \in Int
      BY <1>1, SyncAssumption
    <2> QED
      BY <1>1, <2>1, <2>2, <2>3, <2>4, Zenon DEF TypeOK
  <1>3. UpInv /\ DownInv
    BY <1>1 DEF UpInv, DownInv, Ordered
  <1> QED
    BY <1>1, <1>2, <1>3 DEF NetworkInv

LEMMA BeginTickNetwork == ASSUME NetworkInv, BeginTick PROVE NetworkInv'
  <1> USE NetworkFacts
  <1>1. /\ phase' = "read" /\ readSince' = now /\ inSync' = Synchronized
        /\ UNCHANGED <<now, down, nextPush, pushes, playErr, latencyBuf, sortedBuf,
                       clockOffset, serverBuffer, localLatency>>
        /\ lastSent' \in 0 .. now /\ lastSent' >= lastSent
    BY DEF BeginTick, SendRequest, PollTransmit, machineVars
  <1>2. Synchronized' = Synchronized
    BY <1>1 DEF Synchronized
  <1>3. TypeOK'
    BY <1>1 DEF NetworkInv, TypeOK, Synchronized
  <1>4. DownInv'
    BY <1>1, DownSame
  <1>5. CASE SendRequest
    <2>1. PICK delay \in DELAYS :
              up' = Append(up, [sent |-> now, synced |-> Synchronized,
                                at |-> Arrival(up, now + delay)])
      BY <1>5 DEF SendRequest
    <2> DEFINE at == Arrival(up, now + delay)
               r == [sent |-> now, synced |-> Synchronized, at |-> at]
    <2>2. up \in Seq(Requests) /\ Ordered(up)
      BY DEF NetworkInv, UpInv
    <2>3. /\ MaxDelay \in Nat /\ MinDelay \in Nat
          /\ delay \in Nat /\ MinDelay <= delay /\ delay <= MaxDelay
      BY Bounds
    <2>4. up # <<>> => /\ Len(up) \in 1 .. Len(up) /\ up[Len(up)].at \in Nat
                       /\ up[Len(up)].at <= now + MaxDelay
      <3> SUFFICES ASSUME up # <<>>
                   PROVE  /\ Len(up) \in 1 .. Len(up) /\ up[Len(up)].at \in Nat
                          /\ up[Len(up)].at <= now + MaxDelay
        OBVIOUS
      <3>1. Len(up) \in 1 .. Len(up)
        BY <2>2, EmptySeq
      <3>2. /\ up[Len(up)].at \in Nat /\ up[Len(up)].sent \in Nat
            /\ up[Len(up)].at <= up[Len(up)].sent + MaxDelay /\ up[Len(up)].sent <= lastSent
        BY <3>1 DEF NetworkInv, UpInv
      <3> QED
        BY <2>3, <3>1, <3>2
    <2>5. /\ at \in Nat /\ at >= now + MinDelay /\ at <= now + MaxDelay
          /\ up # <<>> => up[Len(up)].at <= at
      <3>1. at = IF up = <<>> THEN now + delay ELSE Latest(now + delay, up[Len(up)].at)
        BY DEF Arrival
      <3> QED
        BY <2>3, <2>4, <3>1, SMTT(30) DEF Latest
    <2> HIDE DEF at
    <2>6. r \in Requests
      <3>1. Synchronized \in BOOLEAN
        BY DEF Synchronized
      <3> QED
        BY <2>5, <3>1 DEF Requests
    <2>7. /\ up' \in Seq(Requests) /\ Len(up') = Len(up) + 1
          /\ \A i \in 1 .. Len(up) : up'[i] = up[i]
          /\ up'[Len(up) + 1] = r
      <3>1. up' = Append(up, r)
        BY <2>1 DEF at
      <3> HIDE DEF r
      <3> QED
        BY <2>2, <2>6, <3>1, AppendProperties
    <2>8. Ordered(up')
      <3>1. \A m \in Requests : m.at \in Nat
        BY DEF Requests
      <3>2. up' = Append(up, r) /\ r.at = at
        BY <2>1 DEF at
      <3> HIDE DEF r
      <3> QED
        BY <2>2, <2>5, <2>6, <3>1, <3>2, OrderedAppend
    <2>9. lastSent' = now
      BY <1>5 DEF SendRequest, PollTransmit
    <2>10. ASSUME NEW i \in 1 .. Len(up) + 1
           PROVE  /\ up'[i].sent <= lastSent' /\ now <= up'[i].at
                  /\ up'[i].sent + MinDelay <= up'[i].at
                  /\ up'[i].at <= up'[i].sent + MaxDelay
                  /\ up'[i].synced => Synchronized'
      <3>1. CASE i = Len(up) + 1
        <4>1. up'[i] = r /\ r.sent = now /\ r.at = at /\ r.synced = Synchronized
          BY <2>7, <3>1
        <4> HIDE DEF r
        <4> QED
          BY <1>2, <2>3, <2>5, <2>9, <4>1, SMTT(30)
      <3>2. CASE i # Len(up) + 1
        <4>1. i \in 1 .. Len(up) /\ up'[i] = up[i]
          BY <2>7, <3>2
        <4> QED
          BY <1>2, <2>9, <4>1, SMTT(30) DEF NetworkInv, UpInv
      <3> QED
        BY <3>1, <3>2
    <2>11. UpInv'
      BY <1>1, <2>7, <2>8, <2>10 DEF UpInv
    <2> QED
      BY <1>1, <1>2, <1>3, <1>4, <2>11, SecondType DEF NetworkInv
  <1>6. CASE ~SendRequest
    <2>1. up' = up
      BY <1>6 DEF BeginTick
    <2>2. UpInv'
      BY <1>1, <1>2, <2>1, UpSame
    <2> QED
      BY <1>1, <1>2, <1>3, <1>4, <2>2, SecondType DEF NetworkInv
  <1> QED
    BY <1>5, <1>6

LEMMA ReadTimesOutNetwork == ASSUME NetworkInv, ReadTimesOut PROVE NetworkInv'
  <1>1. /\ phase' = "poll"
        /\ UNCHANGED <<machineVars, now, readSince, inSync, networkVars, playErr>>
    BY DEF ReadTimesOut
  <1>2. Synchronized' = Synchronized
    BY <1>1 DEF Synchronized, machineVars
  <1>3. UpInv' /\ DownInv'
    BY <1>1, <1>2, UpSame, DownSame, NetworkFacts DEF machineVars, networkVars
  <1> QED
    BY <1>1, <1>2, <1>3 DEF NetworkInv, TypeOK, machineVars, networkVars

LEMMA ReadTimeNetwork ==
    ASSUME NetworkInv, ReadTime
    PROVE  /\ NetworkInv'
           /\ down[1].msg.received \in Int /\ down[1].msg.stamp \in Int /\ ReplyInv(down[1])
           /\ OnTime(down[1].msg.received, down[1].msg.stamp, now)
           /\ Synchronized => Synchronized'
  <1> USE NetworkFacts
  <1>1. /\ phase' = "poll" /\ down' = Tail(down) /\ playErr' = 0
        /\ UNCHANGED <<now, readSince, inSync, up, nextPush, pushes>>
        /\ Readable("time") /\ OnTime(Head(down).msg.received, Head(down).msg.stamp, now)
    BY DEF ReadTime, Read
  <1>2. /\ down # <<>> /\ Head(down) = down[1] /\ down[1].msg \in Messages
        /\ down[1].msg.kind = "time" /\ ReplyInv(down[1])
    BY <1>1, ReadableFacts DEF NetworkInv, DownInv
  <1>3. down[1].msg.received \in Int /\ down[1].msg.stamp \in Int
    BY <1>2 DEF Messages
  <1>4. OnTime(down[1].msg.received, down[1].msg.stamp, now)
    BY <1>1, <1>2
  <1>5. /\ BufferTypes'
        /\ Len(latencyBuf') = IF Synchronized THEN Len(latencyBuf) ELSE Len(latencyBuf) + 1
    BY <1>3, <1>4, OnTimeGives
  <1>6. Synchronized => Synchronized'
    BY <1>5 DEF Synchronized
  <1>7. UNCHANGED <<lastSent, serverBuffer, localLatency>>
    BY <1>1 DEF OnTime
  <1>8. UpInv' /\ DownInv'
    BY <1>1, <1>2, <1>6, <1>7, UpSame, DownRead
  <1>9. TypeOK'
    BY <1>1, <1>5, <1>7 DEF NetworkInv, TypeOK, BufferTypes
  <1> QED
    BY <1>1, <1>2, <1>3, <1>4, <1>6, <1>8, <1>9 DEF NetworkInv

LEMMA ReadSettingsNetwork == ASSUME NetworkInv, ReadSettings PROVE NetworkInv'
  <1> USE NetworkFacts
  <1>1. /\ phase' = "poll" /\ down' = Tail(down) /\ playErr' = 0
        /\ UNCHANGED <<now, readSince, inSync, up, nextPush, pushes>>
        /\ Readable("settings")
        /\ OnSettings(Head(down).msg.settings[1], Head(down).msg.settings[2])
    BY DEF ReadSettings, Read
  <1>2. /\ down # <<>> /\ Head(down) = down[1] /\ down[1].msg \in Messages
        /\ down[1].msg.kind = "settings"
    BY <1>1, ReadableFacts
  <1>3. down[1].msg.settings \in Nat \X Nat
    BY <1>2, SyncAssumption DEF Messages
  <1>4. /\ UNCHANGED <<latencyBuf, sortedBuf, clockOffset, lastSent>>
        /\ serverBuffer' = FromMillis(down[1].msg.settings[1])
        /\ localLatency' = FromMillis(down[1].msg.settings[2])
    BY <1>1, <1>2 DEF OnSettings
  <1>5. serverBuffer' \in TimeVals /\ localLatency' \in TimeVals
    BY <1>3, <1>4, FromMillisType
  <1>6. Synchronized' = Synchronized
    BY <1>4 DEF Synchronized
  <1>7. UpInv' /\ DownInv'
    BY <1>1, <1>2, <1>4, <1>6, UpSame, DownRead
  <1>8. TypeOK'
    BY <1>1, <1>4, <1>5 DEF NetworkInv, TypeOK
  <1> QED
    BY <1>1, <1>6, <1>7, <1>8 DEF NetworkInv

LEMMA ReadChunkNetwork ==
    ASSUME NetworkInv, ReadChunk
    PROVE  /\ NetworkInv'
           /\ down[1].msg.stamp \in Int
           /\ playErr' = IF Forwarded(down[1].msg.stamp)
                         THEN ToMicros(AudibleAt(down[1].msg.stamp)) - ExactAudibleAt(down[1].msg.stamp)
                         ELSE 0
  <1> USE NetworkFacts
  <1> DEFINE ts == down[1].msg.stamp
  <1>1. /\ phase' = "poll" /\ down' = Tail(down)
        /\ UNCHANGED <<machineVars, now, readSince, inSync, up, nextPush, pushes>>
        /\ Readable("chunk")
    BY DEF ReadChunk, Read
  <1>2. /\ down # <<>> /\ Head(down) = down[1] /\ down[1].msg \in Messages
        /\ down[1].msg.kind = "chunk"
    BY <1>1, ReadableFacts
  <1>3. ts \in Int
    BY <1>2 DEF Messages
  <1>4. playErr' = IF Forwarded(ts) THEN ToMicros(AudibleAt(ts)) - ExactAudibleAt(ts) ELSE 0
    BY <1>2, Zenon DEF ReadChunk
  <1>5. Synchronized' = Synchronized
    BY <1>1 DEF Synchronized, machineVars
  <1>6. UpInv' /\ DownInv'
    BY <1>1, <1>2, <1>5, UpSame, DownRead DEF machineVars
  <1>7. playErr' \in Int
    <2>1. clockOffset \in Int /\ serverBuffer \in TimeVals /\ localLatency \in TimeVals
      BY DEF NetworkInv, TypeOK
    <2>2. /\ ToMicros(AudibleAt(ts)) \in Int
          /\ ToMicros(serverBuffer) \in Int /\ ToMicros(localLatency) \in Int
      BY <1>3, <2>1, ScheduleExact, MicrosAreInt
    <2> HIDE DEF ts
    <2>3. ExactAudibleAt(ts) \in Int
      <3>1. OFFSET \in Int
        BY SyncAssumption
      <3> QED
        BY <1>3, <2>2, <3>1 DEF ExactAudibleAt
    <2>4. ToMicros(AudibleAt(ts)) - ExactAudibleAt(ts) \in Int
      BY <2>2, <2>3
    <2> QED
      BY <1>4, <2>4
  <1>8. TypeOK'
    BY <1>1, <1>7 DEF NetworkInv, TypeOK, machineVars
  <1> QED
    BY <1>1, <1>3, <1>4, <1>5, <1>6, <1>8 DEF NetworkInv

\* The server answers a request at the time it arrives.
LEMMA AnswerFacts ==
    ASSUME NetworkInv, AnswerTime
    PROVE  /\ up # <<>> /\ 1 \in 1 .. Len(up) /\ up[1].at = now /\ up' = Tail(up)
           /\ UNCHANGED <<machineVars, now, driverVars, nextPush, pushes, playErr>>
           /\ \E left \in Nat, delay \in DELAYS :
                 /\ now <= left /\ left <= now + MaxHold
                 /\ down # <<>> => down[Len(down)].left <= left
                 /\ down' = Append(down, [msg |-> [kind |-> "time", received |-> now + OFFSET,
                                                   stamp |-> left + OFFSET],
                                          left |-> left, at |-> Arrival(down, left + delay)])
  <1> USE NetworkFacts
  <1>1. up # <<>> /\ 1 \in 1 .. Len(up) /\ up[1].at = now
    <2>1. up # <<>> /\ Head(up).at <= now /\ up \in Seq(Requests)
      BY DEF AnswerTime, NetworkInv, UpInv
    <2>2. Head(up) = up[1] /\ 1 \in 1 .. Len(up)
      BY <2>1, EmptySeq
    <2> QED
      BY <2>1, <2>2 DEF NetworkInv, UpInv
  <1>2. PICK hold \in HOLDS :
            Write([kind |-> "time", received |-> now + OFFSET,
                   stamp |-> Leave(now + hold) + OFFSET], Leave(now + hold))
    BY DEF AnswerTime
  <1> DEFINE left == Leave(now + hold)
  <1>3. PICK delay \in DELAYS :
            down' = Append(down, [msg |-> [kind |-> "time", received |-> now + OFFSET,
                                           stamp |-> left + OFFSET],
                                  left |-> left, at |-> Arrival(down, left + delay)])
    BY <1>2, Zenon DEF Write
  <1>4. /\ left \in Nat /\ now <= left /\ left <= now + MaxHold
        /\ down # <<>> => down[Len(down)].left <= left
    <2>1. hold \in Nat /\ hold <= MaxHold /\ MaxHold \in Nat
      BY Bounds
    <2>2. down # <<>> => down[Len(down)].left \in Nat /\ down[Len(down)].left <= now + MaxHold
      <3>1. down # <<>> => Len(down) \in 1 .. Len(down)
        BY EmptySeq DEF NetworkInv, DownInv
      <3> QED
        BY <3>1 DEF NetworkInv, DownInv
    <2>3. left = IF down = <<>> THEN now + hold ELSE Latest(now + hold, down[Len(down)].left)
      BY DEF Leave
    <2> QED
      BY <2>1, <2>2, <2>3 DEF Latest
  <1> HIDE DEF left
  <1> QED
    BY <1>1, <1>3, <1>4 DEF AnswerTime

LEMMA AnswerTimeNetwork == ASSUME NetworkInv, AnswerTime PROVE NetworkInv'
  <1> USE NetworkFacts
  <1>1. /\ up # <<>> /\ 1 \in 1 .. Len(up) /\ up[1].at = now /\ up' = Tail(up)
        /\ UNCHANGED <<machineVars, now, driverVars, nextPush, pushes, playErr>>
    BY AnswerFacts
  <1>2. PICK left \in Nat, delay \in DELAYS :
            /\ now <= left /\ left <= now + MaxHold
            /\ down # <<>> => down[Len(down)].left <= left
            /\ down' = Append(down, [msg |-> [kind |-> "time", received |-> now + OFFSET,
                                              stamp |-> left + OFFSET],
                                     left |-> left, at |-> Arrival(down, left + delay)])
    BY AnswerFacts, Zenon
  <1> DEFINE msg == [kind |-> "time", received |-> now + OFFSET, stamp |-> left + OFFSET]
  <1>3. msg \in Messages
    BY SyncAssumption DEF Messages
  <1>4. /\ msg.kind = "time" /\ msg.stamp = left + OFFSET /\ msg.received - OFFSET = now
    BY SyncAssumption
  <1>5. now <= lastSent + MaxDelay
    <2>1. up[1].at \in Nat /\ up[1].sent \in Nat /\ MaxDelay \in Nat
      BY <1>1, Bounds
    <2>2. up[1].sent <= lastSent /\ up[1].at <= up[1].sent + MaxDelay
      BY <1>1, Zenon DEF NetworkInv, UpInv
    <2> QED
      BY <1>1, <2>1, <2>2
  <1>6. down' = Append(down, [msg |-> msg, left |-> left, at |-> Arrival(down, left + delay)])
    BY <1>2
  <1>7. UNCHANGED <<lastSent, now>>
    BY <1>1 DEF machineVars
  <1> HIDE DEF msg
  <1>8. DownInv'
    BY <1>2, <1>3, <1>4, <1>5, <1>6, <1>7, DownWritten
  <1>9. UpInv'
    BY <1>1, UpRead DEF machineVars
  <1>10. Synchronized' = Synchronized
    BY <1>1 DEF machineVars, Synchronized
  <1> QED
    BY <1>1, <1>8, <1>9, <1>10 DEF NetworkInv, TypeOK, machineVars, driverVars

LEMMA PushMessageNetwork == ASSUME NetworkInv, PushMessage PROVE NetworkInv'
  <1> USE NetworkFacts
  <1>1. /\ pushes > 0 /\ pushes' = pushes - 1 /\ \E gap \in GAPS : nextPush' = now + gap
        /\ UNCHANGED <<machineVars, now, driverVars, up, playErr>>
    BY DEF PushMessage
  <1>2. PICK msg \in Pushed : Write(msg, Leave(now))
    BY DEF PushMessage
  <1> DEFINE left == Leave(now)
  <1>3. PICK delay \in DELAYS :
            down' = Append(down, [msg |-> msg, left |-> left,
                                  at |-> Arrival(down, left + delay)])
    BY <1>2, Zenon DEF Write
  <1>4. /\ left \in Nat /\ now <= left /\ left <= now + MaxHold
        /\ down # <<>> => down[Len(down)].left <= left
    <2>1. MaxHold \in Nat
      BY Bounds
    <2>2. down # <<>> => down[Len(down)].left \in Nat /\ down[Len(down)].left <= now + MaxHold
      <3>1. down # <<>> => Len(down) \in 1 .. Len(down)
        BY EmptySeq DEF NetworkInv, DownInv
      <3> QED
        BY <3>1 DEF NetworkInv, DownInv
    <2>3. left = IF down = <<>> THEN now ELSE Latest(now, down[Len(down)].left)
      BY DEF Leave
    <2> QED
      BY <2>1, <2>2, <2>3 DEF Latest
  <1> HIDE DEF left
  <1>5. msg \in Messages /\ msg.kind # "time"
    <2>1. CASE msg = [kind |-> "chunk", stamp |-> now + OFFSET]
      BY <2>1, SyncAssumption DEF Messages
    <2>2. CASE \E s \in SETTINGS : msg = [kind |-> "settings", settings |-> s]
      BY <2>2 DEF Messages
    <2> QED
      BY <1>2, <2>1, <2>2 DEF Pushed
  <1>6. UNCHANGED <<lastSent, now>>
    BY <1>1 DEF machineVars
  <1>7. DownInv'
    BY <1>3, <1>4, <1>5, <1>6, DownWritten
  <1>8. Synchronized' = Synchronized
    BY <1>1 DEF machineVars, Synchronized
  <1>9. UpInv'
    BY <1>1, <1>6, <1>8, UpSame
  <1>10. nextPush' \in Nat /\ pushes' \in 0 .. MAX_PUSHES
    BY <1>1, SyncAssumption DEF NetworkInv, TypeOK
  <1> QED
    BY <1>1, <1>7, <1>8, <1>9, <1>10 DEF NetworkInv, TypeOK, machineVars, driverVars

\* Time passes to the next arrival at most.
LEMMA AdvanceNetwork == ASSUME NetworkInv, Advance PROVE NetworkInv'
  <1> USE NetworkFacts
  <1>1. /\ phase = "read" /\ now < now' /\ now' <= MAX_TIME /\ now' \in Pending
        /\ \A u \in Pending : now' <= u
        /\ UNCHANGED <<machineVars, driverVars, networkVars, playErr>>
    BY DEF Advance
  <1>2. /\ UNCHANGED <<latencyBuf, sortedBuf, clockOffset, lastSent, serverBuffer, localLatency>>
        /\ UNCHANGED <<phase, readSince, inSync, up, down, nextPush, pushes, playErr>>
    BY <1>1 DEF machineVars, driverVars, networkVars
  <1>3. Synchronized' = Synchronized
    BY <1>2 DEF Synchronized
  <1>4. now' \in Int
    <2>1. \A u \in Pending : u \in Int
      <3>1. up # <<>> => Head(up).at \in Int
        BY EmptySeq DEF NetworkInv, UpInv
      <3>2. down # <<>> => Head(down).at \in Int
        BY EmptySeq DEF NetworkInv, DownInv
      <3>3. nextPush \in Int /\ readSince + READ_TIMEOUT \in Int
        BY SecondType DEF NetworkInv, TypeOK
      <3> QED
        BY <3>1, <3>2, <3>3 DEF Pending
    <2> QED
      BY <1>1, <2>1
  <1>5. now' \in 0 .. MAX_TIME
    BY <1>1, <1>4, SyncAssumption
  <1>6. now' <= readSince + READ_TIMEOUT
    <2>1. readSince + READ_TIMEOUT \in Pending
      BY DEF Pending
    <2> QED
      BY <1>1, <2>1
  <1>7. \A i \in 1 .. Len(up) : now' <= up[i].at
    <2> SUFFICES ASSUME NEW i \in 1 .. Len(up)
                 PROVE  now' <= up[i].at
      OBVIOUS
    <2>1. up # <<>> /\ Head(up) = up[1] /\ 1 \in 1 .. Len(up)
      BY EmptySeq DEF NetworkInv, UpInv
    <2>2. now' <= up[1].at
      BY <1>1, <2>1 DEF Pending
    <2>3. 1 < i => up[1].at <= up[i].at
      BY <2>1, Zenon DEF NetworkInv, UpInv, Ordered
    <2>4. up[1].at \in Nat /\ up[i].at \in Nat
      BY <2>1
    <2> QED
      BY <1>4, <2>2, <2>3, <2>4, SMTT(30)
  <1>8. \A i \in 1 .. Len(down) : now' <= down[i].at
    <2> SUFFICES ASSUME NEW i \in 1 .. Len(down)
                 PROVE  now' <= down[i].at
      OBVIOUS
    <2>1. down # <<>> /\ Head(down) = down[1] /\ 1 \in 1 .. Len(down)
      BY EmptySeq DEF NetworkInv, DownInv
    <2>2. now' <= down[1].at
      BY <1>1, <2>1 DEF Pending
    <2>3. 1 < i => down[1].at <= down[i].at
      BY <2>1, Zenon DEF NetworkInv, DownInv, Ordered
    <2>4. down[1].at \in Nat /\ down[i].at \in Nat
      BY <2>1
    <2> QED
      BY <1>4, <2>2, <2>3, <2>4
  <1>9. UpInv'
    BY <1>2, <1>3, <1>7 DEF NetworkInv, UpInv
  <1>10. DownInv'
    <2>1. \A m : ReplyInv(m)' = ReplyInv(m)
      BY <1>2 DEF ReplyInv
    <2>2. ASSUME NEW i \in 1 .. Len(down)
          PROVE  down[i].left <= now' + MaxHold
      <3>1. down[i].left \in Nat /\ MaxHold \in Nat
        BY Bounds
      <3>2. down[i].left <= now + MaxHold
        BY Zenon DEF NetworkInv, DownInv
      <3> QED
        BY <1>1, <1>4, <3>1, <3>2
    <2> QED
      BY <1>2, <1>8, <2>1, <2>2 DEF NetworkInv, DownInv
  <1>11. TypeOK'
    BY <1>1, <1>2, <1>4, <1>5 DEF NetworkInv, TypeOK
  <1> QED
    BY <1>2, <1>3, <1>6, <1>9, <1>10, <1>11 DEF NetworkInv

LEMMA StutterNetwork == ASSUME NetworkInv, UNCHANGED vars PROVE NetworkInv'
  <1>1. /\ UNCHANGED <<latencyBuf, sortedBuf, clockOffset, lastSent, serverBuffer, localLatency>>
        /\ UNCHANGED <<now, phase, readSince, inSync, up, down, nextPush, pushes, playErr>>
    BY DEF vars, machineVars, driverVars, networkVars
  <1>2. Synchronized' = Synchronized
    BY <1>1 DEF Synchronized
  <1>3. UpInv' /\ DownInv'
    BY <1>1, <1>2, UpSame, DownSame, NetworkFacts
  <1> QED
    BY <1>1, <1>2, <1>3 DEF NetworkInv, TypeOK

LEMMA NetworkStep == NetworkInv /\ [Next]_vars => NetworkInv'
  BY BeginTickNetwork, ReadTimesOutNetwork, ReadTimeNetwork, ReadSettingsNetwork,
     ReadChunkNetwork, AnswerTimeNetwork, PushMessageNetwork, AdvanceNetwork,
     StutterNetwork, Zenon DEF Next

THEOREM NetworkInvariant == Spec => []NetworkInv
  BY InitNetwork, NetworkStep, PTL DEF Spec

\* The client's offsets and buffers, its settings, its times and those of its driver keep
\* to their types, however the network delays what it carries.
THEOREM SyncTypeCorrect == Spec => []TypeOK
  <1>1. NetworkInv => TypeOK
    BY DEF NetworkInv
  <1> QED
    BY <1>1, NetworkInvariant, PTL

-----------------------------------------------------------------------------
\* The samples and what is scheduled with them.

\* How wrong a sample may be: by half an uplink, or by a downlink and half a hold.
Near(x) ==
    /\ 2 * (x - OFFSET) <= MaxDelay + 1
    /\ 2 * (OFFSET - x) <= 2 * MaxDelay + MaxHold + 1

SampleInv ==
    /\ \A i \in 1 .. Len(latencyBuf) : Near(latencyBuf[i])
    /\ Synchronized => Near(clockOffset)
    /\ MedianWhenSynchronized
    /\ PlayoutWithin

\* A reply is read with the time of the last request, whichever it answers.
LEMMA SampleNear ==
    ASSUME NetworkInv, 1 \in 1 .. Len(down), ReplyInv(down[1]), down[1].at = now,
           down[1].msg.received \in Int
    PROVE  /\ Offset(down[1].msg.received, down[1].msg.stamp, now) \in Int
           /\ Near(Offset(down[1].msg.received, down[1].msg.stamp, now))
  <1> DEFINE left == down[1].left
             received == down[1].msg.received
             apart == (received - lastSent) - (now - (left + OFFSET))
             x == Quotient(apart, 2)
  <1>1. /\ left \in Nat /\ now \in Nat /\ lastSent \in Nat /\ lastSent <= now
        /\ MaxDelay \in Nat /\ MinDelay \in Nat /\ MaxHold \in Nat
        /\ received \in Int /\ OFFSET \in Int
    BY NetworkFacts, Bounds, SyncAssumption
  <1>2. left + MinDelay <= now /\ now <= left + MaxDelay
    BY Zenon DEF NetworkInv, DownInv
  <1>3. /\ left <= received - OFFSET + MaxHold
        /\ received - OFFSET <= lastSent + MaxDelay
        /\ down[1].msg.stamp = left + OFFSET
    BY DEF ReplyInv
  <1>4. Offset(received, down[1].msg.stamp, now) = x
    BY <1>3 DEF Offset
  <1> HIDE DEF left, received
  <1>5. apart \in Int
    BY <1>1
  <1>6. apart - 2 * OFFSET <= MaxDelay /\ 2 * OFFSET - apart <= 2 * MaxDelay + MaxHold
    BY <1>1, <1>2, <1>3
  <1> HIDE DEF apart
  <1>7. x \in Int /\ 2 * x <= apart + 1 /\ apart <= 2 * x + 1
    BY <1>5, QuotientType
  <1> HIDE DEF x
  <1>8. 2 * (x - OFFSET) <= MaxDelay + 1 /\ 2 * (OFFSET - x) <= 2 * MaxDelay + MaxHold + 1
    BY <1>1, <1>5, <1>6, <1>7
  <1> QED
    BY <1>4, <1>7, <1>8 DEF Near, received

LEMMA PlayoutZero == ASSUME playErr = 0 PROVE PlayoutWithin
  <1>1. PlayoutWithin <=> 2 * playErr <= 2 * MaxDelay + MaxHold + 1 /\ -2 * playErr <= MaxDelay + 1
    BY DEF PlayoutWithin, MaxDelay, MaxHold
  <1> QED
    BY <1>1, Bounds

LEMMA InitSamples == Init => SampleInv
  <1> SUFFICES ASSUME Init
               PROVE  SampleInv
    OBVIOUS
  <1>1. latencyBuf = <<>> /\ playErr = 0
    BY DEF Init, MachineInit
  <1>2. ~Synchronized
    BY <1>1, MachineAssumption DEF Synchronized
  <1> QED
    BY <1>1, <1>2, PlayoutZero DEF SampleInv, MedianWhenSynchronized

LEMMA SamplesKept ==
    ASSUME SampleInv, UNCHANGED <<latencyBuf, clockOffset>>, playErr' \in {0, playErr}
    PROVE  SampleInv'
  <1>1. Synchronized' = Synchronized
    BY DEF Synchronized
  <1>2. \A x : Near(x)' = Near(x)
    BY DEF Near
  <1>3. IsUpperMedian(clockOffset', latencyBuf') = IsUpperMedian(clockOffset, latencyBuf)
    OBVIOUS
  <1>4. PlayoutWithin'
    <2>1. CASE playErr' = playErr
      BY <2>1 DEF SampleInv, PlayoutWithin
    <2>2. CASE playErr' = 0
      <3>1. /\ 2 * playErr' <= 2 * MaxDelay + MaxHold + 1 /\ -2 * playErr' <= MaxDelay + 1
        BY <2>2, Bounds
      <3> QED
        BY <3>1 DEF PlayoutWithin, MaxDelay, MaxHold
    <2> QED
      BY <2>1, <2>2
  <1> QED
    BY <1>1, <1>2, <1>3, <1>4 DEF SampleInv, MedianWhenSynchronized

LEMMA ReadTimeSamples == ASSUME NetworkInv, SampleInv, ReadTime PROVE SampleInv'
  <1> DEFINE received == down[1].msg.received
             stamp == down[1].msg.stamp
  <1>1. /\ received \in Int /\ stamp \in Int /\ ReplyInv(down[1])
        /\ OnTime(received, stamp, now)
    BY ReadTimeNetwork
  <1>2. /\ 1 \in 1 .. Len(down) /\ down[1].at = now
    BY ReadableFacts DEF ReadTime
  <1>3. Near(Offset(received, stamp, now))
    BY <1>1, <1>2, SampleNear
  <1>4. BufferTypes /\ lastSent \in Int /\ now \in Int
    BY NetworkFacts
  <1>5. /\ \A i \in 1 .. Len(latencyBuf') :
              \/ latencyBuf'[i] = Offset(received, stamp, now)
              \/ \E j \in 1 .. Len(latencyBuf) : latencyBuf'[i] = latencyBuf[j]
        /\ Synchronized' => /\ IsUpperMedian(clockOffset', latencyBuf')
                            /\ \E i \in 1 .. Len(latencyBuf') : clockOffset' = latencyBuf'[i]
    BY <1>1, <1>4, OnTimeGives
  <1> HIDE DEF received, stamp
  <1>6. \A i \in 1 .. Len(latencyBuf') : Near(latencyBuf'[i])
    BY <1>3, <1>5, Zenon DEF SampleInv
  <1>7. \A x : Near(x)' = Near(x)
    BY DEF Near
  <1>8. PlayoutWithin'
    <2>1. playErr' = 0
      BY DEF ReadTime
    <2>2. 2 * playErr' <= 2 * MaxDelay + MaxHold + 1 /\ -2 * playErr' <= MaxDelay + 1
      BY <2>1, Bounds
    <2> QED
      BY <2>2 DEF PlayoutWithin, MaxDelay, MaxHold
  <1>9. Synchronized' => Near(clockOffset')
    BY <1>5, <1>6, Zenon
  <1> QED
    BY <1>5, <1>6, <1>7, <1>8, <1>9, Zenon DEF SampleInv, MedianWhenSynchronized

\* The error of a chunk's schedule is that of the offset in use.
LEMMA ReadChunkSamples == ASSUME NetworkInv, SampleInv, ReadChunk PROVE SampleInv'
  <1> DEFINE ts == down[1].msg.stamp
  <1>1. /\ ts \in Int
        /\ playErr' = IF Forwarded(ts) THEN ToMicros(AudibleAt(ts)) - ExactAudibleAt(ts) ELSE 0
    BY ReadChunkNetwork
  <1> HIDE DEF ts
  <1>2. UNCHANGED <<latencyBuf, clockOffset>>
    BY DEF ReadChunk, machineVars
  <1>3. CASE ~Forwarded(ts)
    BY <1>1, <1>2, <1>3, SamplesKept
  <1>4. CASE Forwarded(ts)
    <2>1. Near(clockOffset)
      BY <1>4 DEF Forwarded, NetworkInv, SampleInv
    <2>2. clockOffset \in Int /\ serverBuffer \in TimeVals /\ localLatency \in TimeVals
      BY DEF NetworkInv, TypeOK
    <2>3. ToMicros(AudibleAt(ts)) =
              ts - clockOffset + ToMicros(serverBuffer) - ToMicros(localLatency)
      BY <1>1, <2>2, ScheduleExact
    <2>4. ToMicros(serverBuffer) \in Int /\ ToMicros(localLatency) \in Int
      BY <2>2, MicrosAreInt
    <2>5. playErr' = OFFSET - clockOffset
      <3>1. playErr' = (ts - clockOffset + ToMicros(serverBuffer) - ToMicros(localLatency))
                           - (ts - OFFSET + ToMicros(serverBuffer) - ToMicros(localLatency))
        BY <1>1, <1>4, <2>3 DEF ExactAudibleAt
      <3> QED
        BY <1>1, <2>2, <2>4, <3>1, SyncAssumption
    <2>6. 2 * playErr' <= 2 * MaxDelay + MaxHold + 1 /\ -2 * playErr' <= MaxDelay + 1
      BY <2>1, <2>2, <2>5, Bounds, SyncAssumption DEF Near
    <2>7. PlayoutWithin'
      BY <2>6 DEF PlayoutWithin, MaxDelay, MaxHold
    <2>8. Synchronized' = Synchronized
      BY <1>2 DEF Synchronized
    <2>9. \A x : Near(x)' = Near(x)
      BY DEF Near
    <2> QED
      BY <1>2, <2>7, <2>8, <2>9 DEF SampleInv, MedianWhenSynchronized
  <1> QED
    BY <1>3, <1>4

LEMMA SampleStep == NetworkInv /\ SampleInv /\ [Next]_vars => SampleInv'
  <1> SUFFICES ASSUME NetworkInv, SampleInv, [Next]_vars
               PROVE  SampleInv'
    OBVIOUS
  <1>1. CASE BeginTick
    <2>1. UNCHANGED <<latencyBuf, clockOffset, playErr>>
      BY <1>1 DEF BeginTick, SendRequest, PollTransmit, machineVars
    <2> QED
      BY <2>1, SamplesKept
  <1>2. CASE ReadTimesOut \/ AnswerTime \/ PushMessage \/ Advance
    <2>1. UNCHANGED <<latencyBuf, clockOffset, playErr>>
      BY <1>2 DEF ReadTimesOut, AnswerTime, PushMessage, Advance, machineVars
    <2> QED
      BY <2>1, SamplesKept
  <1>3. CASE ReadSettings
    <2>1. UNCHANGED <<latencyBuf, clockOffset>> /\ playErr' = 0
      BY <1>3 DEF ReadSettings, OnSettings
    <2> QED
      BY <2>1, SamplesKept
  <1>4. CASE UNCHANGED vars
    <2>1. UNCHANGED <<latencyBuf, clockOffset, playErr>>
      BY <1>4 DEF vars, machineVars
    <2> QED
      BY <2>1, SamplesKept
  <1> QED
    BY <1>1, <1>2, <1>3, <1>4, ReadTimeSamples, ReadChunkSamples, Zenon DEF Next

THEOREM SampleInvariant == Spec => []SampleInv
  BY InitSamples, SampleStep, NetworkInvariant, PTL DEF Spec

\* Once the client is synchronized, the offset in use is the upper median of the newest
\* LATENCY_SAMPLES samples, whatever the buffer held before: the copy over the previous
\* sorted buffer and the index into its topmost part are right for every length.
THEOREM MedianCorrect == Spec => []MedianWhenSynchronized
  <1>1. SampleInv => MedianWhenSynchronized
    BY DEF SampleInv
  <1> QED
    BY <1>1, SampleInvariant, PTL

\* What reaches the player is scheduled within half an uplink early, and within a
\* downlink and half a hold late, of its exact time, for any delays of the network.
THEOREM PlayoutWithinCorrect == Spec => []PlayoutWithin
  <1>1. SampleInv => PlayoutWithin
    BY DEF SampleInv
  <1> QED
    BY <1>1, SampleInvariant, PTL

-----------------------------------------------------------------------------
\* One request at a time.

\* While a request of a synchronized client is on its way no other is due.
LEMMA OneRequestStep ==
    NetworkInv /\ OneRequestWhenSynchronized /\ [Next]_vars => OneRequestWhenSynchronized'
  <1> SUFFICES ASSUME NetworkInv, OneRequestWhenSynchronized, [Next]_vars, LongestTrip < SECOND
               PROVE  \A i \in DOMAIN up' : up'[i].synced => up'[i].sent = lastSent'
    BY DEF OneRequestWhenSynchronized, LongestTrip
  <1>1. up \in Seq(Requests) /\ Len(up) \in Nat /\ DOMAIN up = 1 .. Len(up)
    BY NetworkFacts DEF NetworkInv, UpInv
  <1>2. \A i \in DOMAIN up : up[i].synced => up[i].sent = lastSent
    BY DEF OneRequestWhenSynchronized
  <1>3. CASE UNCHANGED <<up, lastSent>>
    BY <1>2, <1>3
  <1>4. CASE AnswerTime
    <2>1. up # <<>> /\ up' = Tail(up) /\ lastSent' = lastSent
      BY <1>4, AnswerFacts DEF machineVars
    <2>2. /\ Tail(up) \in Seq(Requests) /\ Len(Tail(up)) = Len(up) - 1
          /\ \A i \in 1 .. Len(Tail(up)) : Tail(up)[i] = up[i + 1]
      BY <1>1, <2>1, HeadTailProperties
    <2>3. \A i \in DOMAIN Tail(up) : i \in 1 .. Len(Tail(up)) /\ i + 1 \in DOMAIN up
      BY <1>1, <2>2
    <2> QED
      BY <1>2, <2>1, <2>2, <2>3
  <1>5. CASE BeginTick /\ SendRequest
    <2>1. PICK r : /\ up' = Append(up, r) /\ r.sent = now /\ r.synced = Synchronized
                   /\ r \in Requests
      <3>1. PICK delay \in DELAYS :
                up' = Append(up, [sent |-> now, synced |-> Synchronized,
                                  at |-> Arrival(up, now + delay)])
        BY <1>5 DEF SendRequest
      <3>2. Arrival(up, now + delay) \in Nat
        <4>1. now \in Nat /\ delay \in Nat
          BY Bounds, NetworkFacts
        <4>2. up # <<>> => up[Len(up)].at \in Nat
          <5>1. up # <<>> => Len(up) \in 1 .. Len(up)
            BY <1>1, EmptySeq
          <5> QED
            BY <5>1, NetworkFacts
        <4> QED
          BY <4>1, <4>2 DEF Arrival, Latest
      <3>3. now \in Nat /\ Synchronized \in BOOLEAN
        BY NetworkFacts DEF Synchronized
      <3> QED
        BY <3>1, <3>2, <3>3 DEF Requests
    <2>2. lastSent' = now /\ Due(now)
      BY <1>5 DEF SendRequest, PollTransmit
    <2>3. /\ Len(Append(up, r)) = Len(up) + 1 /\ Append(up, r)[Len(up) + 1] = r
          /\ \A i \in 1 .. Len(up) : Append(up, r)[i] = up[i]
      BY <1>1, <2>1, AppendProperties
    <2>4. DOMAIN Append(up, r) = 1 .. Len(up) + 1
      <3>1. Append(up, r) \in Seq(Requests)
        BY <1>1, <2>1, AppendProperties
      <3> QED
        BY <2>3, <3>1, LenProperties
    <2>5. ASSUME NEW i \in 1 .. Len(up), up[i].synced
          PROVE  FALSE
      <3>1. Synchronized
        BY <2>5 DEF NetworkInv, UpInv
      <3>2. now - lastSent >= SECOND
        BY <2>2, <3>1 DEF Due
      <3>3. /\ up[i].sent <= lastSent /\ now <= up[i].at /\ up[i].at <= up[i].sent + MaxDelay
        BY DEF NetworkInv, UpInv
      <3>4. up[i].sent \in Nat /\ up[i].at \in Nat /\ now \in Nat /\ lastSent \in Nat
        BY NetworkFacts
      <3>5. MaxDelay \in Nat /\ MaxDelay < SECOND /\ SECOND \in Nat
        <4>1. /\ MaxDelay \in Nat /\ MaxHold \in Nat /\ SECOND \in Nat
              /\ LongestTrip = 2 * MaxDelay + MaxHold
          BY Bounds, SecondType
        <4> QED
          BY <4>1
      <3> QED
        BY <3>2, <3>3, <3>4, <3>5
    <2>6. ASSUME NEW i \in 1 .. Len(up) + 1, Append(up, r)[i].synced
          PROVE  Append(up, r)[i].sent = now
      <3>1. CASE i = Len(up) + 1
        BY <2>1, <2>3, <3>1
      <3>2. CASE i # Len(up) + 1
        <4>1. i \in 1 .. Len(up)
          BY <1>1, <3>2
        <4> QED
          BY <2>3, <2>5, <2>6, <4>1
      <3> QED
        BY <3>1, <3>2
    <2> QED
      BY <2>1, <2>2, <2>4, <2>6
  <1>6. CASE BeginTick /\ ~SendRequest
    BY <1>3, <1>6 DEF BeginTick, machineVars
  <1>7. CASE ReadTimesOut \/ ReadTime \/ ReadSettings \/ ReadChunk \/ PushMessage \/ Advance
    BY <1>3, <1>7 DEF ReadTimesOut, ReadTime, ReadSettings, ReadChunk, PushMessage, Advance,
                      machineVars, networkVars, OnTime, OnSettings
  <1>8. CASE UNCHANGED vars
    BY <1>3, <1>8 DEF vars, machineVars, networkVars
  <1> QED
    BY <1>4, <1>5, <1>6, <1>7, <1>8 DEF Next

\* When no exchange takes as long as the second between two requests of a synchronized
\* client, a request it has on its way is its last: the reply is measured against its
\* own departure, for any delays and holds.
THEOREM OneRequestCorrect == Spec => []OneRequestWhenSynchronized
  <1>1. Init => OneRequestWhenSynchronized
    BY DEF Init, OneRequestWhenSynchronized
  <1> QED
    BY <1>1, OneRequestStep, NetworkInvariant, PTL DEF Spec

-----------------------------------------------------------------------------
\* Synchronisation in time.

\* When the request for sample n + 1 has been sent at the latest.
Deadline(n) == 999 + READ_TIMEOUT + n * LongestTrip

IsTime(m) == m.msg.kind = "time"

NothingAsked ==
    /\ lastSent = 0 /\ latencyBuf = <<>> /\ up = <<>>
    /\ \A i \in 1 .. Len(down) : ~IsTime(down[i])

\* The last request is the newest on its way; once it was answered, the answer takes the
\* shortest trip at least.
LastTripInv ==
    /\ up # <<>> => up[Len(up)].sent = lastSent
    /\ up = <<>> =>
          \/ NothingAsked
          \/ now >= lastSent + ShortestTrip
          \/ \E i \in 1 .. Len(down) : IsTime(down[i]) /\ down[i].at >= lastSent + ShortestTrip

\* The first request waits for 1 ms of the clock, and for a read begun just before.
BeforeFirst ==
    /\ NothingAsked
    /\ phase = "poll" => now <= Deadline(0)
    /\ phase = "read" => readSince <= 999

\* The next sample is under way, or about to be asked for.
RequestUnderWay == \E i \in 1 .. Len(up) : up[i].sent <= Deadline(Len(latencyBuf))
ReplyUnderWay ==
    \E i \in 1 .. Len(down) : IsTime(down[i]) /\ down[i].at <= Deadline(Len(latencyBuf) + 1)
AboutToAsk == phase = "poll" /\ now >= lastSent + 1000 /\ now <= Deadline(Len(latencyBuf))

ProgressInv ==
    ShortestTrip >= 1000 /\ ~Synchronized =>
        BeforeFirst \/ RequestUnderWay \/ ReplyUnderWay \/ AboutToAsk

LEMMA DeadlineNext ==
    ASSUME NEW n \in Nat
    PROVE  /\ Deadline(n) \in Nat /\ Deadline(n + 1) = Deadline(n) + LongestTrip
           /\ Deadline(0) = 999 + READ_TIMEOUT
  <1> DEFINE trip == LongestTrip
  <1>1. trip \in Nat /\ READ_TIMEOUT \in Nat
    BY Bounds, SecondType
  <1> HIDE DEF trip
  <1>2. n * trip \in Nat /\ (n + 1) * trip = n * trip + trip /\ 0 * trip = 0
    BY <1>1
  <1> QED
    BY <1>1, <1>2 DEF Deadline, trip

LEMMA DeadlineGrows ==
    ASSUME NEW n \in Nat, NEW m \in Nat, m <= n
    PROVE  Deadline(m) <= Deadline(n)
  <1> DEFINE S == {k \in Nat : Deadline(m) <= Deadline(m + k)}
  <1>1. 0 \in S
    BY DeadlineNext
  <1>2. ASSUME NEW k \in Nat, k \in S
        PROVE  k + 1 \in S
    <2>1. m + k \in Nat /\ m + (k + 1) = (m + k) + 1
      OBVIOUS
    <2>2. Deadline((m + k) + 1) = Deadline(m + k) + LongestTrip /\ Deadline(m + k) \in Nat
      BY <2>1, DeadlineNext
    <2>3. Deadline(m) \in Nat /\ LongestTrip \in Nat
      BY DeadlineNext, Bounds
    <2>4. Deadline(m) <= Deadline(m + k)
      BY <1>2
    <2>5. Deadline(m) <= Deadline((m + k) + 1)
      BY <2>2, <2>3, <2>4
    <2> QED
      BY <2>1, <2>5
  <1> HIDE DEF S
  <1>3. n - m \in S /\ m + (n - m) = n
    BY <1>1, <1>2, InductionOnNat
  <1>4. Deadline(m) <= Deadline(m + (n - m))
    BY <1>3 DEF S
  <1> QED
    BY <1>3, <1>4, Zenon

\* What is left behind the message read, and before the message written.
LEMMA TailPlaces ==
    ASSUME NEW S, NEW q \in Seq(S), q # <<>>
    PROVE  /\ \A i \in 1 .. Len(q) : i # 1 =>
                 i - 1 \in 1 .. Len(Tail(q)) /\ Tail(q)[i - 1] = q[i]
           /\ \A i \in 1 .. Len(Tail(q)) : i + 1 \in 1 .. Len(q) /\ Tail(q)[i] = q[i + 1]
  <1>1. /\ Len(q) \in Nat /\ Len(Tail(q)) = Len(q) - 1
        /\ \A i \in 1 .. Len(Tail(q)) : Tail(q)[i] = q[i + 1]
    BY HeadTailProperties, LenProperties
  <1>2. ASSUME NEW i \in 1 .. Len(q), i # 1
        PROVE  i - 1 \in 1 .. Len(Tail(q)) /\ Tail(q)[i - 1] = q[i]
    <2>1. i - 1 \in 1 .. Len(Tail(q)) /\ (i - 1) + 1 = i
      BY <1>1, <1>2
    <2>2. Tail(q)[i - 1] = q[(i - 1) + 1]
      BY <1>1, <2>1
    <2> QED
      BY <2>1, <2>2
  <1> QED
    BY <1>1, <1>2

LEMMA AppendPlaces ==
    ASSUME NEW S, NEW q \in Seq(S), NEW m
    PROVE  /\ Len(Append(q, m)) = Len(q) + 1 /\ Append(q, m)[Len(q) + 1] = m
           /\ Len(q) + 1 \in 1 .. Len(Append(q, m))
           /\ \A i \in 1 .. Len(q) : i \in 1 .. Len(Append(q, m)) /\ Append(q, m)[i] = q[i]
           /\ \A i \in 1 .. Len(Append(q, m)) : i = Len(q) + 1 \/ i \in 1 .. Len(q)
           /\ Append(q, m) # <<>>
  <1>1. Len(q) \in Nat
    BY LenProperties
  <1>2. /\ Len(Append(q, m)) = Len(q) + 1 /\ Append(q, m)[Len(q) + 1] = m
        /\ \A i \in 1 .. Len(q) : Append(q, m)[i] = q[i]
    OBVIOUS
  <1>3. Append(q, m) # <<>>
    BY <1>1, <1>2
  <1> QED
    BY <1>1, <1>2, <1>3

\* The streams before and after a step.
LEMMA StreamsBefore ==
    ASSUME NetworkInv
    PROVE  up \in Seq(Requests) /\ down \in Seq(Sendings)
  BY DEF NetworkInv, UpInv, DownInv

LEMMA RequestSent ==
    ASSUME NetworkInv, SendRequest
    PROVE  /\ \E r : up' = Append(up, r) /\ r.sent = now
           /\ lastSent' = now /\ Due(now) /\ latencyBuf' = latencyBuf
  <1>1. PICK delay \in DELAYS :
            up' = Append(up, [sent |-> now, synced |-> Synchronized,
                              at |-> Arrival(up, now + delay)])
    BY DEF SendRequest
  <1> QED
    BY <1>1 DEF SendRequest, PollTransmit

\* The reply to the request that arrives.
LEMMA ReplySent ==
    ASSUME NetworkInv, AnswerTime
    PROVE  \E m : /\ down' = Append(down, m) /\ IsTime(m)
                  /\ m.at \in Nat /\ m.at >= now + MinDelay
                  /\ m.at <= now + MaxHold + MaxDelay
  <1>1. PICK left \in Nat, delay \in DELAYS :
            /\ now <= left /\ left <= now + MaxHold
            /\ down # <<>> => down[Len(down)].left <= left
            /\ down' = Append(down, [msg |-> [kind |-> "time", received |-> now + OFFSET,
                                              stamp |-> left + OFFSET],
                                     left |-> left, at |-> Arrival(down, left + delay)])
    BY AnswerFacts, Zenon
  <1> DEFINE at == Arrival(down, left + delay)
  <1>2. /\ now \in Nat /\ MaxDelay \in Nat /\ MinDelay \in Nat /\ MaxHold \in Nat
        /\ delay \in Nat /\ MinDelay <= delay /\ delay <= MaxDelay
    BY NetworkFacts, Bounds
  <1>3. down # <<>> => /\ down[Len(down)].at \in Nat
                       /\ down[Len(down)].at <= left + MaxDelay
    <2> SUFFICES ASSUME down # <<>>
                 PROVE  /\ down[Len(down)].at \in Nat
                        /\ down[Len(down)].at <= left + MaxDelay
      OBVIOUS
    <2>1. Len(down) \in 1 .. Len(down)
      BY StreamsBefore, NetworkFacts, EmptySeq
    <2>2. down[Len(down)].at \in Nat /\ down[Len(down)].left \in Nat
      BY <2>1, NetworkFacts
    <2>3. down[Len(down)].at <= down[Len(down)].left + MaxDelay
      BY <2>1, Zenon DEF NetworkInv, DownInv
    <2>4. down[Len(down)].left <= left
      BY <1>1
    <2> QED
      BY <1>2, <2>2, <2>3, <2>4
  <1>4. at = IF down = <<>> THEN left + delay ELSE Latest(left + delay, down[Len(down)].at)
    BY DEF Arrival
  <1> HIDE DEF at
  <1>5. at \in Nat /\ at >= left + MinDelay /\ at <= left + MaxDelay
    BY <1>2, <1>3, <1>4 DEF Latest
  <1>6. left \in Nat /\ now <= left /\ left <= now + MaxHold
    BY <1>1
  <1>7. at \in Nat /\ at >= now + MinDelay /\ at <= now + MaxHold + MaxDelay
    BY <1>2, <1>5, <1>6
  <1>8. /\ down' = Append(down, [msg |-> [kind |-> "time", received |-> now + OFFSET,
                                          stamp |-> left + OFFSET], left |-> left, at |-> at])
    BY <1>1 DEF at
  <1> QED
    BY <1>7, <1>8 DEF IsTime

LEMMA NotTimePushed ==
    ASSUME PushMessage
    PROVE  \E m : down' = Append(down, m) /\ ~IsTime(m)
  <1>1. PICK msg \in Pushed : Write(msg, Leave(now))
    BY DEF PushMessage
  <1>2. PICK delay \in DELAYS :
            down' = Append(down, [msg |-> msg, left |-> Leave(now),
                                  at |-> Arrival(down, Leave(now) + delay)])
    BY <1>1, Zenon DEF Write
  <1>3. msg.kind # "time"
    BY <1>1 DEF Pushed
  <1> QED
    BY <1>2, <1>3 DEF IsTime

\* Reading a message that is no reply keeps every reply on its way, and asks for nothing.
LEMMA OtherRead ==
    ASSUME NetworkInv, ReadSettings \/ ReadChunk
    PROVE  /\ down # <<>> /\ down' = Tail(down) /\ ~IsTime(down[1])
           /\ phase = "read" /\ phase' = "poll"
           /\ UNCHANGED <<now, readSince, up, lastSent, latencyBuf>>
  <1>1. CASE ReadSettings
    BY <1>1, ReadableFacts DEF ReadSettings, Read, OnSettings, IsTime
  <1>2. CASE ReadChunk
    BY <1>2, ReadableFacts DEF ReadChunk, Read, machineVars, IsTime
  <1> QED
    BY <1>1, <1>2

LEMMA NothingAskedKept ==
    ASSUME NothingAsked, UNCHANGED <<lastSent, latencyBuf, up>>,
           \A i \in 1 .. Len(down') : ~IsTime(down'[i])
    PROVE  NothingAsked'
  BY DEF NothingAsked, IsTime

LEMMA InitTrip == Init => LastTripInv /\ ProgressInv
  <1> SUFFICES ASSUME Init
               PROVE  LastTripInv /\ ProgressInv
    OBVIOUS
  <1>1. /\ lastSent = 0 /\ latencyBuf = <<>> /\ up = <<>> /\ down = <<>>
        /\ phase = "poll" /\ now = 0
    BY DEF Init, MachineInit
  <1>2. NothingAsked
    BY <1>1 DEF NothingAsked
  <1>3. 0 <= Deadline(0)
    BY DeadlineNext
  <1> QED
    BY <1>1, <1>2, <1>3 DEF LastTripInv, ProgressInv, BeforeFirst

LEMMA LastTripStep == NetworkInv /\ LastTripInv /\ [Next]_vars => LastTripInv'
  <1> SUFFICES ASSUME NetworkInv, LastTripInv, [Next]_vars
               PROVE  LastTripInv'
    OBVIOUS
  <1> USE StreamsBefore
  <1>1. CASE BeginTick /\ SendRequest
    <2>1. PICK r : up' = Append(up, r) /\ r.sent = now
      BY <1>1, RequestSent
    <2>2. up' # <<>> /\ up'[Len(up')] = r
      BY <2>1, AppendPlaces
    <2>3. lastSent' = now
      BY <1>1, RequestSent
    <2> QED
      BY <2>1, <2>2, <2>3 DEF LastTripInv
  <1>2. CASE BeginTick /\ ~SendRequest
    <2>1. UNCHANGED <<up, down, lastSent, latencyBuf, now>>
      BY <1>2 DEF BeginTick, machineVars
    <2> QED
      BY <2>1 DEF LastTripInv, NothingAsked
  <1>3. CASE ReadTimesOut \/ UNCHANGED vars
    <2>1. UNCHANGED <<up, down, lastSent, latencyBuf, now>>
      BY <1>3 DEF ReadTimesOut, vars, machineVars, networkVars
    <2> QED
      BY <2>1 DEF LastTripInv, NothingAsked
  <1>4. CASE Advance
    <2>1. UNCHANGED <<up, down, lastSent, latencyBuf>> /\ now < now'
      BY <1>4 DEF Advance, machineVars, networkVars
    <2>2. now \in Int /\ now' \in Int /\ lastSent \in Int /\ ShortestTrip \in Int
      <3>1. NetworkInv'
        BY <1>4, AdvanceNetwork
      <3>2. now' \in 0 .. MAX_TIME
        BY <3>1 DEF NetworkInv, TypeOK
      <3> QED
        BY <3>2, NetworkFacts, Bounds, SyncAssumption
    <2>3. now >= lastSent + ShortestTrip => now' >= lastSent + ShortestTrip
      BY <2>1, <2>2
    <2> QED
      BY <2>1, <2>3 DEF LastTripInv, NothingAsked
  <1>5. CASE ReadTime
    <2>1. /\ down # <<>> /\ down' = Tail(down) /\ IsTime(down[1]) /\ 1 \in 1 .. Len(down)
          /\ down[1].at = now /\ UNCHANGED <<now, up, lastSent>>
      BY <1>5, ReadableFacts DEF ReadTime, Read, OnTime, IsTime
    <2>2. ASSUME up = <<>>
          PROVE  \/ now >= lastSent + ShortestTrip
                 \/ \E i \in 1 .. Len(down') : /\ IsTime(down'[i])
                                               /\ down'[i].at >= lastSent + ShortestTrip
      <3>1. ~NothingAsked
        BY <2>1 DEF NothingAsked
      <3>2. CASE \E i \in 1 .. Len(down) : /\ IsTime(down[i])
                                           /\ down[i].at >= lastSent + ShortestTrip
        <4>1. PICK i \in 1 .. Len(down) : /\ IsTime(down[i])
                                          /\ down[i].at >= lastSent + ShortestTrip
          BY <3>2
        <4>2. CASE i = 1
          BY <2>1, <4>1, <4>2
        <4>3. CASE i # 1
          BY <2>1, <4>1, <4>3, TailPlaces
        <4> QED
          BY <4>2, <4>3
      <3> QED
        BY <2>2, <3>1, <3>2 DEF LastTripInv
    <2> QED
      BY <2>1, <2>2 DEF LastTripInv, IsTime
  <1>6. CASE ReadSettings \/ ReadChunk
    <2>1. /\ down # <<>> /\ down' = Tail(down) /\ ~IsTime(down[1])
          /\ UNCHANGED <<now, up, lastSent, latencyBuf>>
      BY <1>6, OtherRead
    <2>2. NothingAsked => NothingAsked'
      BY <2>1, TailPlaces, NothingAskedKept DEF NothingAsked
    <2>3. ASSUME NEW i \in 1 .. Len(down), IsTime(down[i]),
                 down[i].at >= lastSent + ShortestTrip
          PROVE  \E j \in 1 .. Len(down') : /\ IsTime(down'[j])
                                            /\ down'[j].at >= lastSent + ShortestTrip
      BY <2>1, <2>3, TailPlaces
    <2> QED
      BY <2>1, <2>2, <2>3 DEF LastTripInv, IsTime
  <1>7. CASE AnswerTime
    <2>1. /\ up # <<>> /\ 1 \in 1 .. Len(up) /\ up[1].at = now /\ up' = Tail(up)
          /\ UNCHANGED <<now, lastSent>>
      BY <1>7, AnswerFacts DEF machineVars
    <2>2. Tail(up) \in Seq(Requests) /\ Len(Tail(up)) = Len(up) - 1
      BY <2>1, HeadTailProperties
    <2>3. CASE up' # <<>>
      <3>1. Len(up') \in 1 .. Len(up')
        BY <2>1, <2>2, <2>3, EmptySeq, LenProperties
      <3>2. up'[Len(up')] = up[Len(up') + 1] /\ Len(up') + 1 = Len(up)
        BY <2>1, <2>2, <3>1, TailPlaces, NetworkFacts
      <3> QED
        BY <2>1, <2>3, <3>2 DEF LastTripInv
    <2>4. CASE up' = <<>>
      <3>1. Len(up) = 1
        BY <2>1, <2>2, <2>4, NetworkFacts
      <3>2. up[1].sent = lastSent
        BY <2>1, <3>1 DEF LastTripInv
      <3>3. up[1].sent + MinDelay <= now
        BY <2>1, Zenon DEF NetworkInv, UpInv
      <3>4. PICK m : /\ down' = Append(down, m) /\ IsTime(m)
                     /\ m.at \in Nat /\ m.at >= now + MinDelay
        BY <1>7, ReplySent
      <3>5. m.at >= lastSent + ShortestTrip
        <4>1. /\ now \in Nat /\ lastSent \in Nat /\ MinDelay \in Nat
              /\ ShortestTrip = 2 * MinDelay
          BY NetworkFacts, Bounds
        <4> QED
          BY <3>2, <3>3, <3>4, <4>1
      <3>6. Len(down) + 1 \in 1 .. Len(down') /\ down'[Len(down) + 1] = m
        BY <3>4, AppendPlaces
      <3> QED
        BY <2>1, <2>4, <3>4, <3>5, <3>6 DEF LastTripInv, IsTime
    <2> QED
      BY <2>3, <2>4
  <1>8. CASE PushMessage
    <2>1. UNCHANGED <<now, up, lastSent, latencyBuf>>
      BY <1>8 DEF PushMessage, machineVars
    <2>2. PICK m : down' = Append(down, m) /\ ~IsTime(m)
      BY <1>8, NotTimePushed
    <2>3. NothingAsked => NothingAsked'
      BY <2>1, <2>2, AppendPlaces, NothingAskedKept DEF NothingAsked
    <2>4. ASSUME NEW i \in 1 .. Len(down), IsTime(down[i]),
                 down[i].at >= lastSent + ShortestTrip
          PROVE  \E j \in 1 .. Len(down') : /\ IsTime(down'[j])
                                            /\ down'[j].at >= lastSent + ShortestTrip
      BY <2>2, <2>4, AppendPlaces
    <2> QED
      BY <2>1, <2>3, <2>4 DEF LastTripInv, IsTime
  <1> QED
    BY <1>1, <1>2, <1>3, <1>4, <1>5, <1>6, <1>7, <1>8 DEF Next

\* A step that only moves messages keeps what is under way.
LEMMA UnderWayKept ==
    ASSUME UNCHANGED <<latencyBuf, up>>,
           \A i \in 1 .. Len(down) : IsTime(down[i]) =>
               \E j \in 1 .. Len(down') : down'[j] = down[i]
    PROVE  /\ RequestUnderWay => RequestUnderWay'
           /\ ReplyUnderWay => ReplyUnderWay'
  BY DEF RequestUnderWay, ReplyUnderWay, Deadline, LongestTrip, IsTime

LEMMA BeginTickProgress ==
    ASSUME NetworkInv, ProgressInv, BeginTick
    PROVE  ProgressInv'
  <1> SUFFICES ASSUME ShortestTrip >= 1000, ~Synchronized'
               PROVE  BeforeFirst' \/ RequestUnderWay' \/ ReplyUnderWay' \/ AboutToAsk'
    BY DEF ProgressInv, ShortestTrip
  <1>1. /\ phase = "poll" /\ phase' = "read" /\ readSince' = now
        /\ UNCHANGED <<now, down, latencyBuf>>
    BY DEF BeginTick, SendRequest, PollTransmit, machineVars
  <1>2. ~Synchronized
    BY <1>1 DEF Synchronized
  <1>3. BeforeFirst \/ RequestUnderWay \/ ReplyUnderWay \/ AboutToAsk
    BY <1>2 DEF ProgressInv
  <1>4. CASE ReplyUnderWay
    BY <1>1, <1>4 DEF ReplyUnderWay, Deadline, LongestTrip, IsTime
  <1>5. CASE SendRequest
    <2>1. PICK r : up' = Append(up, r) /\ r.sent = now
      BY <1>5, RequestSent
    <2>2. /\ Len(up) + 1 \in 1 .. Len(up') /\ up'[Len(up) + 1] = r
          /\ \A i \in 1 .. Len(up) : i \in 1 .. Len(up') /\ up'[i] = up[i]
      BY <2>1, StreamsBefore, AppendPlaces
    <2>3. CASE RequestUnderWay
      BY <1>1, <2>2, <2>3 DEF RequestUnderWay, Deadline, LongestTrip
    <2>4. CASE BeforeFirst \/ AboutToAsk
      <3>1. now <= Deadline(Len(latencyBuf))
        BY <1>1, <2>4 DEF BeforeFirst, NothingAsked, AboutToAsk
      <3> QED
        BY <1>1, <2>1, <2>2, <3>1 DEF RequestUnderWay, Deadline, LongestTrip
    <2> QED
      BY <1>3, <1>4, <2>3, <2>4
  <1>6. CASE ~SendRequest
    <2>1. up' = up /\ lastSent' = lastSent /\ ~Due(now)
      BY <1>6 DEF BeginTick, machineVars
    <2>2. ~(now - lastSent >= 1000) /\ now \in Nat /\ lastSent \in Nat
      BY <1>2, <2>1, NetworkFacts DEF Due
    <2>3. CASE RequestUnderWay
      BY <1>1, <2>1, <2>3 DEF RequestUnderWay, Deadline, LongestTrip
    <2>4. CASE AboutToAsk
      BY <2>2, <2>4 DEF AboutToAsk
    <2>5. CASE BeforeFirst
      <3>1. readSince' <= 999
        BY <1>1, <2>2, <2>5 DEF BeforeFirst, NothingAsked
      <3>2. NothingAsked'
        BY <1>1, <2>1, <2>5, NothingAskedKept DEF BeforeFirst, NothingAsked
      <3> QED
        BY <1>1, <3>1, <3>2 DEF BeforeFirst
    <2> QED
      BY <1>3, <1>4, <2>3, <2>4, <2>5
  <1> QED
    BY <1>5, <1>6

\* A reply lets the next request go at once, or leaves one of the newer ones on its way.
LEMMA ReadTimeProgress ==
    ASSUME NetworkInv, LastTripInv, ProgressInv, ReadTime
    PROVE  ProgressInv'
  <1> SUFFICES ASSUME ShortestTrip >= 1000, ~Synchronized'
               PROVE  BeforeFirst' \/ RequestUnderWay' \/ ReplyUnderWay' \/ AboutToAsk'
    BY DEF ProgressInv, ShortestTrip
  <1> DEFINE n == Len(latencyBuf)
  <1>1. /\ down # <<>> /\ down' = Tail(down) /\ IsTime(down[1]) /\ 1 \in 1 .. Len(down)
        /\ down[1].at = now /\ phase = "read" /\ phase' = "poll"
        /\ UNCHANGED <<now, up, lastSent>>
    BY ReadableFacts DEF ReadTime, Read, OnTime, IsTime
  <1>2. ~Synchronized
    BY ReadTimeNetwork
  <1>3. Len(latencyBuf') = n + 1
    <2>1. /\ down[1].msg.received \in Int /\ down[1].msg.stamp \in Int
          /\ OnTime(down[1].msg.received, down[1].msg.stamp, now)
      BY ReadTimeNetwork
    <2>2. BufferTypes /\ lastSent \in Int /\ now \in Int
      BY NetworkFacts
    <2> QED
      BY <1>2, <2>1, <2>2, OnTimeGives
  <1>4. RequestUnderWay \/ ReplyUnderWay
    BY <1>1, <1>2 DEF ProgressInv, BeforeFirst, NothingAsked, AboutToAsk
  <1>5. /\ n \in Nat /\ Deadline(n) \in Nat /\ Deadline(n + 1) = Deadline(n) + LongestTrip
        /\ Deadline(n + 1) \in Nat /\ Deadline((n + 1) + 1) = Deadline(n + 1) + LongestTrip
    BY NetworkFacts, DeadlineNext
  <1> DEFINE d0 == Deadline(n)
             d1 == Deadline(n + 1)
             d2 == Deadline((n + 1) + 1)
  <1>6. /\ LongestTrip = 2 * MaxDelay + MaxHold /\ MaxDelay \in Nat /\ MaxHold \in Nat
        /\ LongestTrip \in Nat /\ now \in Nat /\ lastSent \in Nat /\ lastSent <= now
        /\ ShortestTrip \in Nat
    BY Bounds, NetworkFacts
  <1>7. d0 \in Nat /\ d1 \in Nat /\ d1 = d0 + LongestTrip /\ d2 = d1 + LongestTrip
    BY <1>5
  <1> HIDE DEF n, d0, d1, d2
  <1>8. CASE RequestUnderWay
    <2>1. PICK i \in 1 .. Len(up) : up[i].sent <= d0
      BY <1>8 DEF RequestUnderWay, n, d0
    <2>2. up[i].sent \in Nat
      BY NetworkFacts
    <2>3. up[i].sent <= d1
      BY <1>6, <1>7, <2>1, <2>2
    <2> QED
      BY <1>1, <1>3, <2>3 DEF RequestUnderWay, Deadline, LongestTrip, d1
  <1>9. CASE ReplyUnderWay
    <2>1. PICK i \in 1 .. Len(down) : IsTime(down[i]) /\ down[i].at <= d1
      BY <1>9 DEF ReplyUnderWay, n, d1
    <2>2. now <= down[i].at /\ down[i].at \in Nat
      BY NetworkFacts DEF NetworkInv, DownInv
    <2>3. now <= d1
      BY <1>6, <1>7, <2>1, <2>2
    <2>4. CASE up # <<>>
      <3>1. 1 \in 1 .. Len(up)
        BY <2>4, StreamsBefore, EmptySeq
      <3>2. up[1].sent \in Nat /\ up[1].sent <= lastSent
        BY <3>1, NetworkFacts DEF NetworkInv, UpInv
      <3>3. up[1].sent <= d1
        BY <1>6, <1>7, <2>3, <3>2
      <3> QED
        BY <1>1, <1>3, <3>1, <3>3 DEF RequestUnderWay, Deadline, LongestTrip, d1
    <2>5. CASE now >= lastSent + ShortestTrip
      <3>1. now >= lastSent + 1000
        BY <1>6, <2>5
      <3> QED
        BY <1>1, <1>3, <2>3, <3>1 DEF AboutToAsk, Deadline, LongestTrip, d1
    <2>6. CASE \E j \in 1 .. Len(down) : /\ IsTime(down[j])
                                         /\ down[j].at >= lastSent + ShortestTrip
      <3>1. PICK j \in 1 .. Len(down) : /\ IsTime(down[j])
                                        /\ down[j].at >= lastSent + ShortestTrip
        BY <2>6
      <3>2. CASE j = 1
        BY <1>1, <2>5, <3>1, <3>2
      <3>3. CASE j # 1
        <4>1. down[j].at \in Nat /\ down[j].left \in Nat
          BY NetworkFacts
        <4>2. down[j].at <= down[j].left + MaxDelay /\ down[j].left <= now + MaxHold
          BY Zenon DEF NetworkInv, DownInv
        <4>3. down[j].at <= d2
          <5>1. down[j].at <= now + LongestTrip
            BY <1>6, <4>1, <4>2
          <5> QED
            BY <1>6, <1>7, <2>3, <4>1, <5>1
        <4>4. j - 1 \in 1 .. Len(down') /\ down'[j - 1] = down[j]
          BY <1>1, <3>3, StreamsBefore, TailPlaces
        <4> QED
          BY <1>3, <3>1, <4>3, <4>4, SMTT(30) DEF ReplyUnderWay, IsTime, Deadline, LongestTrip, d2
      <3> QED
        BY <3>2, <3>3
    <2>7. CASE up = <<>>
      <3>1. ~NothingAsked
        BY <1>1 DEF NothingAsked
      <3> QED
        BY <2>5, <2>6, <2>7, <3>1 DEF LastTripInv
    <2> QED
      BY <2>4, <2>7
  <1> QED
    BY <1>4, <1>8, <1>9

LEMMA AnswerTimeProgress ==
    ASSUME NetworkInv, ProgressInv, AnswerTime
    PROVE  ProgressInv'
  <1> SUFFICES ASSUME ShortestTrip >= 1000, ~Synchronized'
               PROVE  BeforeFirst' \/ RequestUnderWay' \/ ReplyUnderWay' \/ AboutToAsk'
    BY DEF ProgressInv, ShortestTrip
  <1> DEFINE n == Len(latencyBuf)
  <1>1. /\ up # <<>> /\ 1 \in 1 .. Len(up) /\ up[1].at = now /\ up' = Tail(up)
        /\ UNCHANGED <<now, phase, lastSent, latencyBuf>>
    BY AnswerFacts DEF machineVars, driverVars
  <1>2. PICK m : /\ down' = Append(down, m) /\ IsTime(m)
                 /\ m.at \in Nat /\ m.at <= now + MaxHold + MaxDelay
    BY ReplySent
  <1>3. /\ Len(down) + 1 \in 1 .. Len(down') /\ down'[Len(down) + 1] = m
        /\ \A i \in 1 .. Len(down) : i \in 1 .. Len(down') /\ down'[i] = down[i]
    BY <1>2, StreamsBefore, AppendPlaces
  <1>4. RequestUnderWay \/ ReplyUnderWay \/ AboutToAsk
    <2>1. ~Synchronized
      BY <1>1 DEF Synchronized
    <2> QED
      BY <1>1, <2>1 DEF ProgressInv, BeforeFirst, NothingAsked
  <1>5. CASE AboutToAsk
    BY <1>1, <1>5 DEF AboutToAsk, Deadline, LongestTrip
  <1>6. CASE ReplyUnderWay
    BY <1>1, <1>3, <1>6 DEF ReplyUnderWay, IsTime, Deadline, LongestTrip
  <1>7. CASE RequestUnderWay
    <2>1. PICK i \in 1 .. Len(up) : up[i].sent <= Deadline(n)
      BY <1>7 DEF RequestUnderWay
    <2>2. CASE i = 1
      <3>1. up[1].sent <= Deadline(n) /\ now <= up[1].sent + MaxDelay
        BY <1>1, <2>1, <2>2, ZenonT(40) DEF NetworkInv, UpInv
      <3>2. /\ up[1].sent \in Nat /\ now \in Nat /\ n \in Nat
            /\ LongestTrip = 2 * MaxDelay + MaxHold /\ MaxDelay \in Nat /\ MaxHold \in Nat
        BY <1>1, NetworkFacts, Bounds
      <3>3. Deadline(n) \in Nat /\ Deadline(n + 1) = Deadline(n) + LongestTrip
        BY NetworkFacts, DeadlineNext
      <3> DEFINE d0 == Deadline(n)
                 d1 == Deadline(n + 1)
                 sent1 == up[1].sent
                 atM == m.at
      <3>4. /\ d0 \in Nat /\ d1 = d0 + LongestTrip /\ sent1 \in Nat /\ sent1 <= d0
            /\ now <= sent1 + MaxDelay /\ atM \in Nat /\ atM <= now + MaxHold + MaxDelay
        BY <1>2, <3>1, <3>2, <3>3
      <3> HIDE DEF d0, d1, sent1, atM
      <3>5. atM <= sent1 + LongestTrip
        <4>1. atM <= (sent1 + MaxDelay) + MaxHold + MaxDelay
          BY <3>2, <3>4
        <4> QED
          BY <3>2, <3>4, <4>1
      <3>6. atM <= d1
        BY <3>2, <3>4, <3>5
      <3>7. \E j \in 1 .. Len(down') : IsTime(down'[j]) /\ down'[j].at <= Deadline(n + 1)
        BY <1>2, <1>3, <3>6 DEF d1, atM
      <3> QED
        BY <1>1, <3>7 DEF ReplyUnderWay, IsTime, Deadline, LongestTrip
    <2>3. CASE i # 1
      <3>1. i - 1 \in 1 .. Len(up') /\ up'[i - 1] = up[i]
        BY <1>1, <2>3, StreamsBefore, TailPlaces
      <3> QED
        BY <1>1, <2>1, <3>1 DEF RequestUnderWay, Deadline, LongestTrip
    <2> QED
      BY <2>2, <2>3
  <1> QED
    BY <1>4, <1>5, <1>6, <1>7

\* The driver's time-out ends the wait of a client that has asked for nothing.
LEMMA ReadTimesOutProgress ==
    ASSUME NetworkInv, ProgressInv, ReadTimesOut
    PROVE  ProgressInv'
  <1> SUFFICES ASSUME ShortestTrip >= 1000, ~Synchronized'
               PROVE  BeforeFirst' \/ RequestUnderWay' \/ ReplyUnderWay' \/ AboutToAsk'
    BY DEF ProgressInv, ShortestTrip
  <1>1. /\ phase = "read" /\ phase' = "poll"
        /\ UNCHANGED <<now, readSince, up, down, lastSent, latencyBuf>>
    BY DEF ReadTimesOut, machineVars, networkVars
  <1>2. BeforeFirst \/ RequestUnderWay \/ ReplyUnderWay
    <2>1. ~Synchronized
      BY <1>1 DEF Synchronized
    <2> QED
      BY <1>1, <2>1 DEF ProgressInv, AboutToAsk
  <1>3. CASE RequestUnderWay \/ ReplyUnderWay
    BY <1>1, <1>3, UnderWayKept
  <1>4. CASE BeforeFirst
    <2>1. NothingAsked'
      BY <1>1, <1>4, NothingAskedKept DEF BeforeFirst, NothingAsked
    <2>2. now <= readSince + READ_TIMEOUT /\ readSince <= 999
      BY <1>1, <1>4 DEF NetworkInv, BeforeFirst
    <2>3. now <= Deadline(0)
      <3>1. now \in Nat /\ readSince \in Nat /\ READ_TIMEOUT \in Nat
        BY NetworkFacts, SecondType
      <3>2. Deadline(0) = 999 + READ_TIMEOUT
        BY DeadlineNext
      <3> QED
        BY <2>2, <3>1, <3>2
    <2> QED
      BY <1>1, <2>1, <2>3 DEF BeforeFirst, Deadline, LongestTrip
  <1> QED
    BY <1>2, <1>3, <1>4

\* So does a message that is no reply.
LEMMA OtherReadProgress ==
    ASSUME NetworkInv, ProgressInv, ReadSettings \/ ReadChunk
    PROVE  ProgressInv'
  <1> SUFFICES ASSUME ShortestTrip >= 1000, ~Synchronized'
               PROVE  BeforeFirst' \/ RequestUnderWay' \/ ReplyUnderWay' \/ AboutToAsk'
    BY DEF ProgressInv, ShortestTrip
  <1>1. /\ down # <<>> /\ down' = Tail(down) /\ ~IsTime(down[1])
        /\ phase = "read" /\ phase' = "poll"
        /\ UNCHANGED <<now, readSince, up, lastSent, latencyBuf>>
    BY OtherRead
  <1>2. BeforeFirst \/ RequestUnderWay \/ ReplyUnderWay
    <2>1. ~Synchronized
      BY <1>1 DEF Synchronized
    <2> QED
      BY <1>1, <2>1 DEF ProgressInv, AboutToAsk
  <1>3. CASE RequestUnderWay \/ ReplyUnderWay
    <2>1. \A i \in 1 .. Len(down) : IsTime(down[i]) =>
              \E j \in 1 .. Len(down') : down'[j] = down[i]
      BY <1>1, StreamsBefore, TailPlaces, ZenonT(40)
    <2> QED
      BY <1>1, <1>3, <2>1, UnderWayKept
  <1>4. CASE BeforeFirst
    <2>1. NothingAsked'
      BY <1>1, <1>4, StreamsBefore, TailPlaces, NothingAskedKept DEF BeforeFirst, NothingAsked
    <2>2. now <= readSince + READ_TIMEOUT /\ readSince <= 999
      BY <1>1, <1>4 DEF NetworkInv, BeforeFirst
    <2>3. now <= Deadline(0)
      <3>1. now \in Nat /\ readSince \in Nat /\ READ_TIMEOUT \in Nat
        BY NetworkFacts, SecondType
      <3>2. Deadline(0) = 999 + READ_TIMEOUT
        BY DeadlineNext
      <3> QED
        BY <2>2, <3>1, <3>2
    <2> QED
      BY <1>1, <2>1, <2>3 DEF BeforeFirst, Deadline, LongestTrip
  <1> QED
    BY <1>2, <1>3, <1>4

LEMMA PushMessageProgress ==
    ASSUME NetworkInv, ProgressInv, PushMessage
    PROVE  ProgressInv'
  <1> SUFFICES ASSUME ShortestTrip >= 1000, ~Synchronized'
               PROVE  BeforeFirst' \/ RequestUnderWay' \/ ReplyUnderWay' \/ AboutToAsk'
    BY DEF ProgressInv, ShortestTrip
  <1>1. UNCHANGED <<now, phase, readSince, up, lastSent, latencyBuf>>
    BY DEF PushMessage, machineVars, driverVars
  <1>2. PICK m : down' = Append(down, m) /\ ~IsTime(m)
    BY NotTimePushed
  <1>3. /\ \A i \in 1 .. Len(down) : i \in 1 .. Len(down') /\ down'[i] = down[i]
        /\ \A i \in 1 .. Len(down') : down'[i] = m \/ i \in 1 .. Len(down)
    BY <1>2, StreamsBefore, AppendPlaces
  <1>4. BeforeFirst \/ RequestUnderWay \/ ReplyUnderWay \/ AboutToAsk
    BY <1>1 DEF ProgressInv, Synchronized
  <1>5. CASE RequestUnderWay \/ ReplyUnderWay
    BY <1>1, <1>3, <1>5, UnderWayKept
  <1>6. CASE AboutToAsk
    BY <1>1, <1>6 DEF AboutToAsk, Deadline, LongestTrip
  <1>7. CASE BeforeFirst
    <2>1. \A i \in 1 .. Len(down') : ~IsTime(down'[i])
      BY <1>2, <1>3, <1>7 DEF BeforeFirst, NothingAsked
    <2>2. NothingAsked'
      BY <1>1, <1>7, <2>1, NothingAskedKept DEF BeforeFirst
    <2> QED
      BY <1>1, <1>7, <2>2 DEF BeforeFirst, Deadline, LongestTrip
  <1> QED
    BY <1>4, <1>5, <1>6, <1>7

LEMMA AdvanceProgress ==
    ASSUME ProgressInv, Advance
    PROVE  ProgressInv'
  <1>1. phase = "read" /\ UNCHANGED <<phase, readSince, up, down, lastSent, latencyBuf>>
    BY DEF Advance, machineVars, driverVars, networkVars
  <1>2. BeforeFirst => BeforeFirst'
    BY <1>1, NothingAskedKept DEF BeforeFirst, NothingAsked
  <1>3. ~AboutToAsk
    BY <1>1 DEF AboutToAsk
  <1> QED
    BY <1>1, <1>2, <1>3, UnderWayKept DEF ProgressInv, Synchronized, ShortestTrip

LEMMA StutterProgress == ASSUME ProgressInv, UNCHANGED vars PROVE ProgressInv'
  <1>1. UNCHANGED <<now, phase, readSince, up, down, lastSent, latencyBuf>>
    BY DEF vars, machineVars, driverVars, networkVars
  <1>2. BeforeFirst => BeforeFirst'
    BY <1>1, NothingAskedKept DEF BeforeFirst, NothingAsked, Deadline, LongestTrip
  <1>3. AboutToAsk => AboutToAsk'
    BY <1>1 DEF AboutToAsk, Deadline, LongestTrip
  <1> QED
    BY <1>1, <1>2, <1>3, UnderWayKept DEF ProgressInv, Synchronized, ShortestTrip

LEMMA ProgressStep ==
    NetworkInv /\ LastTripInv /\ ProgressInv /\ [Next]_vars => ProgressInv'
  BY BeginTickProgress, ReadTimeProgress, AnswerTimeProgress, ReadTimesOutProgress,
     OtherReadProgress, PushMessageProgress, AdvanceProgress, StutterProgress, Zenon DEF Next

THEOREM ProgressInvariant == Spec => [](NetworkInv /\ LastTripInv /\ ProgressInv)
  BY InitTrip, LastTripStep, ProgressStep, NetworkInvariant, PTL DEF Spec

\* A client is synchronized in the time its requests take, plus one read timeout, however
\* the server's messages interleave with the replies: each reply lets the next request go
\* at once, so the wait happens before the first request only.
THEOREM SynchronizesCorrect == Spec => []SynchronizesInTime
  <1>1. ASSUME NetworkInv, ProgressInv
        PROVE  SynchronizesInTime
    <2> SUFFICES ASSUME ShortestTrip >= 1000, ~Synchronized,
                        now >= 1000 + READ_TIMEOUT + LATENCY_SAMPLES * LongestTrip
                 PROVE  FALSE
      BY DEF SynchronizesInTime
    <2> DEFINE n == Len(latencyBuf)
               last == Deadline(LATENCY_SAMPLES)
    <2>1. n \in Nat /\ n + 1 <= LATENCY_SAMPLES /\ LATENCY_SAMPLES \in Nat
      BY <1>1, NetworkFacts, MachineAssumption DEF BufferTypes, Synchronized
    <2>2. /\ LongestTrip = 2 * MaxDelay + MaxHold /\ MaxDelay \in Nat /\ MaxHold \in Nat
          /\ LongestTrip \in Nat /\ now \in Nat
      BY <1>1, Bounds, NetworkFacts
    <2>3. last < now
      <3>1. LATENCY_SAMPLES * LongestTrip \in Nat
        BY <2>1, <2>2
      <3> HIDE DEF n
      <3> QED
        BY <2>2, <3>1, SecondType DEF Deadline
    <2> HIDE DEF n
    <2>4. /\ Deadline(n) \in Nat /\ Deadline(n + 1) = Deadline(n) + LongestTrip
          /\ Deadline(n + 1) <= last /\ last \in Nat /\ Deadline(n) <= last
          /\ Deadline(0) <= last /\ Deadline(0) = 999 + READ_TIMEOUT
      <3>1. Deadline(n + 1) <= last /\ Deadline(0) <= last
        BY <2>1, DeadlineGrows
      <3>2. /\ Deadline(n) \in Nat /\ Deadline(n + 1) = Deadline(n) + LongestTrip
            /\ Deadline(0) = 999 + READ_TIMEOUT /\ last \in Nat
        BY <2>1, DeadlineNext
      <3> HIDE DEF last
      <3> QED
        BY <2>2, <3>1, <3>2
    <2> HIDE DEF last
    <2>5. CASE BeforeFirst
      <3>1. phase = "poll" \/ phase = "read"
        BY <1>1 DEF NetworkInv, TypeOK
      <3>2. CASE phase = "poll"
        <4>1. now <= Deadline(0)
          BY <2>5, <3>2 DEF BeforeFirst
        <4> QED
          BY <2>2, <2>3, <2>4, <4>1, SecondType
      <3>3. CASE phase = "read"
        <4>1. now <= readSince + READ_TIMEOUT /\ readSince <= 999 /\ readSince \in Nat
          BY <1>1, <2>5, <3>3, NetworkFacts DEF BeforeFirst, NetworkInv
        <4> QED
          BY <2>2, <2>3, <2>4, <4>1, SecondType
      <3> QED
        BY <3>1, <3>2, <3>3
    <2>6. CASE RequestUnderWay
      <3>1. PICK i \in 1 .. Len(up) : up[i].sent <= Deadline(n)
        BY <2>6 DEF RequestUnderWay, n
      <3>2. up[i].at \in Nat /\ up[i].sent \in Nat
        BY <1>1, NetworkFacts
      <3>3. now <= up[i].at /\ up[i].at <= up[i].sent + MaxDelay
        <4>1. UpInv
          BY <1>1 DEF NetworkInv
        <4> QED
          BY <4>1, ZenonT(40) DEF UpInv
      <3>4. now <= Deadline(n) + LongestTrip
        BY <2>2, <2>4, <3>1, <3>2, <3>3, SMTT(30)
      <3> QED
        BY <2>2, <2>3, <2>4, <3>4
    <2>7. CASE ReplyUnderWay
      <3>1. PICK i \in 1 .. Len(down) : down[i].at <= Deadline(n + 1)
        BY <2>7 DEF ReplyUnderWay, n
      <3>2. now <= down[i].at /\ down[i].at \in Nat
        BY <1>1, NetworkFacts DEF NetworkInv, DownInv
      <3> QED
        BY <2>2, <2>3, <2>4, <3>1, <3>2
    <2>8. CASE AboutToAsk
      <3>1. now <= Deadline(n)
        BY <2>8 DEF AboutToAsk, n
      <3> QED
        BY <2>2, <2>3, <2>4, <3>1
    <2> QED
      BY <1>1, <2>5, <2>6, <2>7, <2>8 DEF ProgressInv
  <1> QED
    BY <1>1, ProgressInvariant, PTL

=============================================================================
