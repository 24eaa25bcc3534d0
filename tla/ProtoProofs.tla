----------------------------- MODULE ProtoProofs ----------------------------
(***************************************************************************)
(* What a client and the server make of each other's messages (Exchange),  *)
(* whatever the ids, the times, the data and the lies; and that normalize  *)
(* and the sums of TimeVals compute what they are meant to (TimeValMC).    *)
(***************************************************************************)
EXTENDS ProtoMC, TimeValProofs, SequenceTheorems

-----------------------------------------------------------------------------
\* Bytes.

IsBytes(p) == \E S : p \in Seq(S)

LEMMA LenOfBytes == ASSUME NEW p, IsBytes(p) PROVE Len(p) \in Nat
BY LenProperties DEF IsBytes

\* A field has its width, and its value everywhere.
LEMMA FieldBytes ==
    ASSUME NEW v, NEW w \in Nat
    PROVE  /\ IsBytes(Field(v, w)) /\ Len(Field(v, w)) = w
           /\ \A i \in 1 .. w : Field(v, w)[i] = [val |-> v, of |-> w, at |-> i]
<1> DEFINE S == {[val |-> v, of |-> w, at |-> i] : i \in 1 .. w}
<1>1. [i \in 1 .. w |-> [val |-> v, of |-> w, at |-> i]] \in Seq(S)
      OBVIOUS
<1>2. Len([i \in 1 .. w |-> [val |-> v, of |-> w, at |-> i]]) = w
      OBVIOUS
<1> QED BY <1>1, <1>2 DEF Field, IsBytes

\* Bytes behind bytes are where one expects them.
LEMMA Joined ==
    ASSUME NEW p, NEW q, IsBytes(p), IsBytes(q)
    PROVE  /\ IsBytes(p \o q) /\ Len(p \o q) = Len(p) + Len(q)
           /\ \A i \in 1 .. Len(p) : (p \o q)[i] = p[i]
           /\ \A i \in 1 .. Len(q) : (p \o q)[Len(p) + i] = q[i]
<1>1. PICK S : p \in Seq(S)
      BY DEF IsBytes
<1>2. PICK T : q \in Seq(T)
      BY DEF IsBytes
<1>3. p \in Seq(S \cup T) /\ q \in Seq(S \cup T)
      BY <1>1, <1>2, SeqMonotonic
<1>4. Len(p) \in Nat /\ Len(q) \in Nat
      BY LenOfBytes
<1>5. /\ p \o q \in Seq(S \cup T) /\ Len(p \o q) = Len(p) + Len(q)
      /\ \A i \in 1 .. Len(p) + Len(q) :
            (p \o q)[i] = IF i <= Len(p) THEN p[i] ELSE q[i - Len(p)]
      BY <1>3, ConcatProperties
<1>6. IsBytes(p \o q)
      BY <1>5 DEF IsBytes
<1> QED BY <1>4, <1>5, <1>6

\* The bytes of v, w of them, lie at a.
At(p, a, v, w) ==
    /\ a + w <= Len(p)
    /\ \A i \in 1 .. w : p[a + i] = [val |-> v, of |-> w, at |-> i]

LEMMA FieldAt == ASSUME NEW v, NEW w \in Nat PROVE At(Field(v, w), 0, v, w)
BY FieldBytes DEF At

LEMMA LeftAt ==
    ASSUME NEW p, NEW q, IsBytes(p), IsBytes(q), NEW a \in Nat, NEW w \in Nat, NEW v, At(p, a, v, w)
    PROVE  At(p \o q, a, v, w)
<1>1. Len(p) \in Nat /\ Len(q) \in Nat
      BY LenOfBytes
<1>2. a + w <= Len(p \o q)
      BY <1>1, Joined DEF At
<1>3. ASSUME NEW i \in 1 .. w PROVE (p \o q)[a + i] = [val |-> v, of |-> w, at |-> i]
  <2>1. a + i \in 1 .. Len(p)
        BY <1>1, <1>3 DEF At
  <2> QED BY <2>1, Joined DEF At
<1> QED BY <1>2, <1>3 DEF At

LEMMA RightAt ==
    ASSUME NEW p, NEW q, IsBytes(p), IsBytes(q), NEW a \in Nat, NEW w \in Nat, NEW v, At(q, a, v, w)
    PROVE  At(p \o q, Len(p) + a, v, w)
<1>1. Len(p) \in Nat /\ Len(q) \in Nat
      BY LenOfBytes
<1>2. Len(p) + a + w <= Len(p \o q)
      BY <1>1, Joined DEF At
<1>3. ASSUME NEW i \in 1 .. w PROVE (p \o q)[Len(p) + a + i] = [val |-> v, of |-> w, at |-> i]
  <2>1. a + i \in 1 .. Len(q) /\ Len(p) + a + i = Len(p) + (a + i)
        BY <1>1, <1>3 DEF At
  <2> QED BY <2>1, Joined DEF At
<1> QED BY <1>2, <1>3 DEF At

\* What lies at a place is read there, and is whole.
LEMMA ReadAt ==
    ASSUME NEW p, NEW a \in Nat, NEW w \in Nat \ {0}, NEW v, At(p, a, v, w)
    PROVE  Read(p, a) = v /\ Whole(p, a, w)
<1>1. p[a + 1] = [val |-> v, of |-> w, at |-> 1]
      BY DEF At
<1>2. ASSUME NEW i \in 1 .. w PROVE p[a + i].of = w /\ p[a + i].at = i
  <2>1. p[a + i] = [val |-> v, of |-> w, at |-> i]
        BY DEF At
  <2> QED BY <2>1
<1> QED BY <1>1, <1>2 DEF Read, Whole, Holds, At

LEMMA TimeAtBytes ==
    ASSUME NEW t
    PROVE  /\ IsBytes(TimeBytes(t)) /\ Len(TimeBytes(t)) = 8
           /\ At(TimeBytes(t), 0, t.sec, 4) /\ At(TimeBytes(t), 4, t.usec, 4)
<1>1. /\ IsBytes(Field(t.sec, 4)) /\ Len(Field(t.sec, 4)) = 4
      /\ IsBytes(Field(t.usec, 4)) /\ Len(Field(t.usec, 4)) = 4
      BY FieldBytes
<1>2. At(Field(t.sec, 4), 0, t.sec, 4) /\ At(Field(t.usec, 4), 0, t.usec, 4)
      BY FieldAt
<1>3. At(TimeBytes(t), 0, t.sec, 4)
      BY <1>1, <1>2, LeftAt DEF TimeBytes
<1>4. At(TimeBytes(t), 4, t.usec, 4)
  <2>1. At(TimeBytes(t), 4 + 0, t.usec, 4)
        BY <1>1, <1>2, RightAt, Zenon DEF TimeBytes
  <2> QED BY <2>1
<1>5. IsBytes(TimeBytes(t))
      BY <1>1, Joined DEF TimeBytes
<1>6. Len(TimeBytes(t)) = Len(Field(t.sec, 4)) + Len(Field(t.usec, 4))
      BY <1>1, Joined DEF TimeBytes
<1>7. Len(TimeBytes(t)) = 8
  <2>1. Len(TimeBytes(t)) = 4 + 4
        BY <1>1, <1>6, Zenon
  <2> QED BY <2>1
<1> QED BY <1>3, <1>4, <1>5, <1>7

\* What q adds to p, and that p stays where it is.
LEMMA Longer ==
    ASSUME NEW p, NEW q, IsBytes(p), IsBytes(q)
    PROVE  /\ IsBytes(p \o q) /\ Len(p \o q) = Len(p) + Len(q)
           /\ \A a \in Nat, w \in Nat : \A v : At(p, a, v, w) => At(p \o q, a, v, w)
BY Joined, LeftAt

LEMMA LongerField ==
    ASSUME NEW p, IsBytes(p), NEW v, NEW w \in Nat
    PROVE  /\ IsBytes(p \o Field(v, w)) /\ Len(p \o Field(v, w)) = Len(p) + w
           /\ At(p \o Field(v, w), Len(p), v, w)
           /\ \A b \in Nat, x \in Nat : \A u : At(p, b, u, x) => At(p \o Field(v, w), b, u, x)
<1>1. IsBytes(Field(v, w)) /\ Len(Field(v, w)) = w
      BY FieldBytes
<1>2. At(p \o Field(v, w), Len(p) + 0, v, w)
      BY <1>1, FieldAt, RightAt
<1>3. Len(p) + 0 = Len(p)
      BY LenOfBytes
<1>4. At(p \o Field(v, w), Len(p), v, w)
      BY <1>2, <1>3, Zenon
<1> QED BY <1>1, <1>4, Longer

LEMMA LongerTime ==
    ASSUME NEW p, IsBytes(p), NEW t
    PROVE  /\ IsBytes(p \o TimeBytes(t)) /\ Len(p \o TimeBytes(t)) = Len(p) + 8
           /\ At(p \o TimeBytes(t), Len(p), t.sec, 4)
           /\ At(p \o TimeBytes(t), Len(p) + 4, t.usec, 4)
           /\ \A b \in Nat, x \in Nat : \A u : At(p, b, u, x) => At(p \o TimeBytes(t), b, u, x)
<1>1. At(p \o TimeBytes(t), Len(p) + 0, t.sec, 4) /\ At(p \o TimeBytes(t), Len(p) + 4, t.usec, 4)
      BY TimeAtBytes, RightAt
<1>2. Len(p) + 0 = Len(p)
      BY LenOfBytes
<1>3. At(p \o TimeBytes(t), Len(p), t.sec, 4)
      BY <1>1, <1>2, Zenon
<1> QED BY <1>1, <1>3, TimeAtBytes, Longer

\* The header that Base::write puts before a payload, and where its fields are.
LEMMA HeaderLayout ==
    ASSUME NEW number, NEW id, NEW refers, NEW s, NEW r, NEW size
    PROVE  LET h == Field(number, 2) \o Field(id, 2) \o Field(refers, 2)
                       \o TimeBytes(s) \o TimeBytes(r) \o Field(size, 4)
           IN  /\ IsBytes(h) /\ Len(h) = BASE_SIZE
               /\ At(h, 0, number, 2) /\ At(h, 2, id, 2) /\ At(h, 4, refers, 2)
               /\ At(h, 6, s.sec, 4) /\ At(h, 10, s.usec, 4)
               /\ At(h, 14, r.sec, 4) /\ At(h, 18, r.usec, 4)
               /\ At(h, 22, size, 4)
<1> DEFINE h1 == Field(number, 2)
           h2 == h1 \o Field(id, 2)
           h3 == h2 \o Field(refers, 2)
           h4 == h3 \o TimeBytes(s)
           h5 == h4 \o TimeBytes(r)
           h6 == h5 \o Field(size, 4)
<1>1. IsBytes(h1) /\ Len(h1) = 2 /\ At(h1, 0, number, 2)
      BY FieldBytes, FieldAt
<1> HIDE DEF h1
<1>2. IsBytes(h2) /\ Len(h2) = 4 /\ At(h2, 0, number, 2) /\ At(h2, 2, id, 2)
  <2>1. Len(h2) = Len(h1) + 2 /\ At(h2, Len(h1), id, 2)
        BY <1>1, LongerField
  <2> QED BY <1>1, <2>1, LongerField
<1> HIDE DEF h2
<1>3. /\ IsBytes(h3) /\ Len(h3) = 6
      /\ At(h3, 0, number, 2) /\ At(h3, 2, id, 2) /\ At(h3, 4, refers, 2)
  <2>1. Len(h3) = Len(h2) + 2 /\ At(h3, Len(h2), refers, 2)
        BY <1>2, LongerField
  <2> QED BY <1>2, <2>1, LongerField
<1> HIDE DEF h3
<1>4. /\ IsBytes(h4) /\ Len(h4) = 14
      /\ At(h4, 0, number, 2) /\ At(h4, 2, id, 2) /\ At(h4, 4, refers, 2)
      /\ At(h4, 6, s.sec, 4) /\ At(h4, 10, s.usec, 4)
  <2>1. /\ Len(h4) = Len(h3) + 8
        /\ At(h4, Len(h3), s.sec, 4) /\ At(h4, Len(h3) + 4, s.usec, 4)
        BY <1>3, LongerTime
  <2> QED BY <1>3, <2>1, LongerTime
<1> HIDE DEF h4
<1>5. /\ IsBytes(h5) /\ Len(h5) = 22
      /\ At(h5, 0, number, 2) /\ At(h5, 2, id, 2) /\ At(h5, 4, refers, 2)
      /\ At(h5, 6, s.sec, 4) /\ At(h5, 10, s.usec, 4)
      /\ At(h5, 14, r.sec, 4) /\ At(h5, 18, r.usec, 4)
  <2>1. /\ Len(h5) = Len(h4) + 8
        /\ At(h5, Len(h4), r.sec, 4) /\ At(h5, Len(h4) + 4, r.usec, 4)
        BY <1>4, LongerTime
  <2> QED BY <1>4, <2>1, LongerTime
<1> HIDE DEF h5
<1>6. /\ IsBytes(h6) /\ Len(h6) = 26
      /\ At(h6, 0, number, 2) /\ At(h6, 2, id, 2) /\ At(h6, 4, refers, 2)
      /\ At(h6, 6, s.sec, 4) /\ At(h6, 10, s.usec, 4)
      /\ At(h6, 14, r.sec, 4) /\ At(h6, 18, r.usec, 4)
      /\ At(h6, 22, size, 4)
  <2>1. Len(h6) = Len(h5) + 4 /\ At(h6, Len(h5), size, 4)
        BY <1>5, LongerField
  <2> QED BY <1>5, <2>1, LongerField
<1> QED BY <1>6 DEF h1, h2, h3, h4, h5, BASE_SIZE

\* What follows p.
LEMMA Rest ==
    ASSUME NEW p, NEW q, IsBytes(p), IsBytes(q)
    PROVE  SubSeq(p \o q, Len(p) + 1, Len(p) + Len(q)) = q
<1>1. Len(p) \in Nat /\ Len(q) \in Nat
      BY LenOfBytes
<1>2. PICK S : q \in Seq(S)
      BY DEF IsBytes
<1> DEFINE m == Len(p) + 1
           n == Len(p) + Len(q)
           r == SubSeq(p \o q, m, n)
<1>3. \A i \in m .. n : (p \o q)[i] \in S
  <2> TAKE i \in m .. n
  <2>1. i - Len(p) \in 1 .. Len(q) /\ Len(p) + (i - Len(p)) = i
        BY <1>1
  <2>2. (p \o q)[i] = q[i - Len(p)]
        BY <2>1, Joined
  <2> QED BY <1>2, <2>1, <2>2, ElementOfSeq
<1>4. /\ r \in Seq(S) /\ Len(r) = IF m <= n THEN n - m + 1 ELSE 0
      /\ \A i \in 1 .. n - m + 1 : r[i] = (p \o q)[m + i - 1]
      BY <1>1, <1>3, SubSeqProperties
<1>5. Len(r) = Len(q)
      BY <1>1, <1>4
<1>6. \A i \in 1 .. Len(r) : r[i] = q[i]
  <2> TAKE i \in 1 .. Len(r)
  <2>1. i \in 1 .. Len(q) /\ i \in 1 .. n - m + 1 /\ m + i - 1 = Len(p) + i
        BY <1>1, <1>5
  <2> QED BY <1>4, <2>1, Joined
<1> HIDE DEF r
<1> QED BY <1>2, <1>4, <1>5, <1>6, SeqEqual DEF r

-----------------------------------------------------------------------------
\* Messages.

LEMMA MaxPayload == MAX_PAYLOAD \in Nat /\ MAX_PAYLOAD > 1000
BY SMT DEF MAX_PAYLOAD

LEMMA PayloadCases ==
    ASSUME NEW b
    PROVE  /\ b.is = "Time" => Payload(b) = TimeBytes(b.latency)
           /\ b.is \in {"Hello", "ServerSettings"} =>
                 Payload(b) = Prefixed(JSON, Field(b.json, JSON))
           /\ b.is = "WireChunk" =>
                 Payload(b) = TimeBytes(b.timestamp) \o Prefixed(Len(b.data), b.data)
           /\ b.is = "CodecHeader" => Payload(b) = CodecBytes(b)
BY Zenon DEF Payload

LEMMA MetadataCases ==
    ASSUME NEW b
    PROVE  /\ b.codec = "opus" => MetadataBytes(b) = OpusBytes(b.format)
           /\ b.codec = "flac" => MetadataBytes(b) = FlacBytes(b.format)
           /\ b.codec = "pcm" => MetadataBytes(b) = WavBytes(b.format)
BY Zenon DEF MetadataBytes

LEMMA Numbers ==
    /\ DOMAIN Number = {"Base", "CodecHeader", "WireChunk", "ServerSettings", "Time", "Hello",
                        "StreamTags", "ClientInfo"}
    /\ Number["CodecHeader"] = 1 /\ Number["WireChunk"] = 2 /\ Number["ServerSettings"] = 3
    /\ Number["Time"] = 4 /\ Number["Hello"] = 5
BY DEF Number

LEMMA DecodeCases ==
    ASSUME NEW p
    PROVE  /\ Decode(1, p) = CodecFrom(p) /\ Decode(2, p) = ChunkFrom(p)
           /\ Decode(3, p) = SettingsFrom(p) /\ Decode(4, p) = TimeFrom(p)
           /\ DecodeC(5, p) = HelloFrom(p) /\ DecodeC(4, p) = TimeFrom(p)
<1>1. 1 # 2 /\ 1 # 3 /\ 1 # 4 /\ 2 # 3 /\ 2 # 4 /\ 3 # 4 /\ 4 # 5
      OBVIOUS
<1> QED BY <1>1, Numbers, Zenon DEF Decode, DecodeC

\* The bytes p behind their length, and what is read of them.
LEMMA PrefixedLayout ==
    ASSUME NEW w, NEW p, IsBytes(p)
    PROVE  /\ IsBytes(Prefixed(w, p)) /\ Len(Prefixed(w, p)) = Len(p) + 4
           /\ At(Prefixed(w, p), 0, w, 4)
           /\ \A a \in Nat, x \in Nat : \A v : At(p, a, v, x) => At(Prefixed(w, p), a + 4, v, x)
           /\ SubSeq(Prefixed(w, p), 5, 4 + Len(p)) = p
<1>1. /\ IsBytes(Field(w, 4)) /\ Len(Field(w, 4)) = 4 /\ At(Field(w, 4), 0, w, 4)
      /\ Len(p) \in Nat
      BY FieldBytes, FieldAt, LenOfBytes
<1>2. /\ IsBytes(Prefixed(w, p)) /\ At(Prefixed(w, p), 0, w, 4)
      /\ Len(Prefixed(w, p)) = 4 + Len(p)
      BY <1>1, Longer DEF Prefixed
<1>3. ASSUME NEW a \in Nat, NEW x \in Nat, NEW v, At(p, a, v, x)
      PROVE  At(Prefixed(w, p), a + 4, v, x)
  <2>1. At(Prefixed(w, p), 4 + a, v, x)
        BY <1>1, <1>3, RightAt DEF Prefixed
  <2> QED BY <2>1
<1>4. SubSeq(Prefixed(w, p), 5, 4 + Len(p)) = p
  <2>1. SubSeq(Prefixed(w, p), 4 + 1, 4 + Len(p)) = p
        BY <1>1, Rest, Zenon DEF Prefixed
  <2> QED BY <2>1
<1> QED BY <1>1, <1>2, <1>3, <1>4

\* A Time message.
LEMMA TimeBack ==
    ASSUME NEW t \in TimeVals
    PROVE  /\ IsBytes(TimeBytes(t)) /\ Len(TimeBytes(t)) = 8
           /\ TimeFrom(TimeBytes(t)) = [is |-> "Time", latency |-> t]
<1>1. Read(TimeBytes(t), 0) = t.sec /\ Read(TimeBytes(t), 4) = t.usec
      BY TimeAtBytes, ReadAt
<1>2. TimeAt(TimeBytes(t), 0) = t
      BY <1>1 DEF TimeAt, TV, TimeVals
<1>3. 8 <= 8
      OBVIOUS
<1>4. Holds(TimeBytes(t), 8)
      BY <1>3, TimeAtBytes, Zenon DEF Holds
<1> QED BY <1>2, <1>4, TimeAtBytes DEF TimeFrom

\* A JSON document.
LEMMA DocumentBack ==
    ASSUME NEW j
    PROVE  LET p == Prefixed(JSON, Field(j, JSON))
           IN  /\ IsBytes(p) /\ Len(p) \in 0 .. MAX_PAYLOAD
               /\ Holds(p, 4) /\ HelloHolds(p) /\ Parses(p) /\ Read(p, 4) = j
<1> DEFINE p == Prefixed(JSON, Field(j, JSON))
<1>1. JSON \in Nat /\ JSON > 4 /\ JSON + 4 <= MAX_PAYLOAD
      BY JsonAssumption DEF JsonAssumption
<1>2. /\ IsBytes(Field(j, JSON)) /\ Len(Field(j, JSON)) = JSON /\ At(Field(j, JSON), 0, j, JSON)
      BY <1>1, FieldBytes, FieldAt
<1>3. /\ IsBytes(p) /\ Len(p) = JSON + 4 /\ At(p, 0, JSON, 4)
      /\ At(p, 0 + 4, j, JSON)
      BY <1>1, <1>2, PrefixedLayout
<1> HIDE DEF p
<1>4. Read(p, 0) = JSON
      BY <1>3, ReadAt
<1>5. Read(p, 4) = j /\ Whole(p, 4, JSON)
      BY <1>1, <1>3, ReadAt
<1> QED BY <1>1, <1>3, <1>4, <1>5, MaxPayload DEF p, Holds, HelloHolds, Parses

\* A slice: what lies in it, and one that is a whole field.
LEMMA CutAt ==
    ASSUME NEW p, IsBytes(p), NEW a \in Nat, NEW n \in Nat, a + n <= Len(p)
    PROVE  /\ IsBytes(SubSeq(p, a + 1, a + n)) /\ Len(SubSeq(p, a + 1, a + n)) = n
           /\ \A k \in Nat, w \in Nat : \A v :
                 k + w <= n /\ At(p, a + k, v, w) => At(SubSeq(p, a + 1, a + n), k, v, w)
<1> DEFINE r == SubSeq(p, a + 1, a + n)
<1>1. PICK S : p \in Seq(S)
      BY DEF IsBytes
<1>2. Len(p) \in Nat
      BY LenOfBytes
<1>3. \A i \in a + 1 .. a + n : p[i] \in S
      BY <1>1, <1>2, ElementOfSeq
<1>4. /\ r \in Seq(S) /\ Len(r) = IF a + 1 <= a + n THEN (a + n) - (a + 1) + 1 ELSE 0
      /\ \A i \in 1 .. (a + n) - (a + 1) + 1 : r[i] = p[(a + 1) + i - 1]
      BY <1>3, SubSeqProperties
<1>5. Len(r) = n
      BY <1>4
<1>6. ASSUME NEW i \in 1 .. n PROVE r[i] = p[a + i]
      BY <1>4
<1>7. ASSUME NEW k \in Nat, NEW w \in Nat, NEW v, k + w <= n, At(p, a + k, v, w)
      PROVE  At(r, k, v, w)
  <2>1. ASSUME NEW i \in 1 .. w PROVE r[k + i] = [val |-> v, of |-> w, at |-> i]
    <3>1. k + i \in 1 .. n /\ a + (k + i) = (a + k) + i
          BY <1>7
    <3>2. r[k + i] = p[(a + k) + i]
          BY <1>6, <3>1
    <3> QED BY <1>7, <3>2 DEF At
  <2> HIDE DEF r
  <2> QED BY <1>5, <1>7, <2>1 DEF At
<1>8. IsBytes(r)
      BY <1>4 DEF IsBytes
<1> QED BY <1>5, <1>7, <1>8

LEMMA Slice ==
    ASSUME NEW p, IsBytes(p), NEW a \in Nat, NEW v, NEW w \in Nat, At(p, a, v, w)
    PROVE  SubSeq(p, a + 1, a + w) = Field(v, w)
<1> DEFINE r == SubSeq(p, a + 1, a + w)
<1>0. a + w <= Len(p)
      BY DEF At
<1>1. /\ IsBytes(r) /\ Len(r) = w
      /\ 0 + w <= w /\ At(p, a + 0, v, w) => At(r, 0, v, w)
      BY <1>0, CutAt
<1>2. 0 + w <= w /\ a + 0 = a
      OBVIOUS
<1>3. At(r, 0, v, w)
      BY <1>1, <1>2, Zenon
<1> HIDE DEF r
<1>4. \A i \in 1 .. w : r[i] = Field(v, w)[i]
  <2> TAKE i \in 1 .. w
  <2>1. r[0 + i] = [val |-> v, of |-> w, at |-> i]
        BY <1>3 DEF At
  <2> QED BY <2>1, FieldBytes
<1>5. PICK S : r \in Seq(S)
      BY <1>1 DEF IsBytes
<1>6. PICK T : Field(v, w) \in Seq(T)
      BY FieldBytes DEF IsBytes
<1>7. r \in Seq(S \cup T) /\ Field(v, w) \in Seq(S \cup T)
      BY <1>5, <1>6, SeqMonotonic
<1>8. r = Field(v, w)
      BY <1>1, <1>4, <1>7, FieldBytes, SeqEqual
<1> QED BY <1>8 DEF r

\* A chunk.
LEMMA ChunkBack ==
    ASSUME NEW t \in TimeVals, NEW n \in 0 .. MAX_PAYLOAD - 12
    PROVE  LET d == Field("data", n)
               p == TimeBytes(t) \o Prefixed(Len(d), d)
           IN  /\ IsBytes(p) /\ Len(p) \in 0 .. MAX_PAYLOAD
               /\ ChunkFrom(p) = [is |-> "WireChunk", timestamp |-> t, data |-> d]
<1> DEFINE d == Field("data", n)
           q == Prefixed(Len(d), d)
           p == TimeBytes(t) \o q
<1>1. n \in Nat
      BY MaxPayload
<1>2. IsBytes(d) /\ Len(d) = n /\ At(d, 0, "data", n)
      BY <1>1, FieldBytes, FieldAt
<1> HIDE DEF d
<1>3. IsBytes(q) /\ Len(q) = n + 4 /\ At(q, 0, n, 4) /\ At(q, 0 + 4, "data", n)
      BY <1>1, <1>2, PrefixedLayout
<1> HIDE DEF q
<1>4. /\ IsBytes(p) /\ Len(p) = 8 + (n + 4)
      /\ At(p, 0, t.sec, 4) /\ At(p, 4, t.usec, 4)
      <2>1. IsBytes(TimeBytes(t)) /\ Len(TimeBytes(t)) = 8
            BY TimeAtBytes
      <2>2. /\ IsBytes(p) /\ Len(p) = 8 + Len(q)
            /\ \A a \in Nat, w \in Nat : \A v : At(TimeBytes(t), a, v, w) => At(p, a, v, w)
            BY <1>3, <2>1, Longer
      <2>3. At(p, 0, t.sec, 4) /\ At(p, 4, t.usec, 4)
            BY <2>2, TimeAtBytes
      <2> QED BY <1>3, <2>2, <2>3
<1>5. /\ At(p, Len(TimeBytes(t)) + 0, n, 4)
      /\ At(p, Len(TimeBytes(t)) + (0 + 4), "data", n)
      BY <1>1, <1>3, TimeAtBytes, RightAt
<1> HIDE DEF p
<1>6. At(p, 8, n, 4) /\ At(p, 12, "data", n)
  <2>1. At(p, 8 + 0, n, 4) /\ At(p, 8 + (0 + 4), "data", n)
        BY <1>5, TimeAtBytes, Zenon
  <2> QED BY <2>1
<1>7. Read(p, 0) = t.sec /\ Read(p, 4) = t.usec /\ Read(p, 8) = n
      BY <1>4, <1>6, ReadAt
<1>8. TimeAt(p, 0) = t
      BY <1>7 DEF TimeAt, TV, TimeVals
<1>9. SubSeq(p, 12 + 1, 12 + n) = d
      BY <1>1, <1>4, <1>6, Slice, Zenon DEF d
<1>10. SubSeq(p, 13, 12 + n) = d
      BY <1>9
<1>11. Len(p) \in 0 .. MAX_PAYLOAD /\ Holds(p, 12) /\ Holds(p, 12 + n)
      BY <1>1, <1>4, MaxPayload DEF Holds
<1>12. ChunkFrom(p) = [is |-> "WireChunk", timestamp |-> t, data |-> d]
      BY <1>7, <1>8, <1>10, <1>11 DEF ChunkFrom
<1> QED BY <1>4, <1>11, <1>12 DEF p, q, d

\* The pseudo header of Opus, the header of WAV and the beginning of FLAC.
LEMMA OpusLayout ==
    ASSUME NEW f
    PROVE  /\ IsBytes(OpusBytes(f)) /\ Len(OpusBytes(f)) = 12
           /\ At(OpusBytes(f), 4, f.rate, 4) /\ At(OpusBytes(f), 8, f.depth, 2)
           /\ At(OpusBytes(f), 10, f.channels, 2)
<1> DEFINE h1 == Field("OPUS", 4)
           h2 == h1 \o Field(f.rate, 4)
           h3 == h2 \o Field(f.depth, 2)
           h4 == h3 \o Field(f.channels, 2)
<1>1. IsBytes(h1) /\ Len(h1) = 4
      BY FieldBytes
<1> HIDE DEF h1
<1>2. IsBytes(h2) /\ Len(h2) = 8 /\ At(h2, 4, f.rate, 4)
  <2>1. Len(h2) = Len(h1) + 4 /\ At(h2, Len(h1), f.rate, 4)
        BY <1>1, LongerField
  <2> QED BY <1>1, <2>1, LongerField
<1> HIDE DEF h2
<1>3. IsBytes(h3) /\ Len(h3) = 10 /\ At(h3, 4, f.rate, 4) /\ At(h3, 8, f.depth, 2)
  <2>1. Len(h3) = Len(h2) + 2 /\ At(h3, Len(h2), f.depth, 2)
        BY <1>2, LongerField
  <2> QED BY <1>2, <2>1, LongerField
<1> HIDE DEF h3
<1>4. /\ IsBytes(h4) /\ Len(h4) = 12
      /\ At(h4, 4, f.rate, 4) /\ At(h4, 8, f.depth, 2) /\ At(h4, 10, f.channels, 2)
  <2>1. Len(h4) = Len(h3) + 2 /\ At(h4, Len(h3), f.channels, 2)
        BY <1>3, LongerField
  <2> QED BY <1>3, <2>1, LongerField
<1> QED BY <1>4 DEF h1, h2, h3, OpusBytes

LEMMA FlacLayout ==
    ASSUME NEW f
    PROVE  /\ IsBytes(FlacBytes(f)) /\ Len(FlacBytes(f)) = 42
           /\ At(FlacBytes(f), 18, StreamInfo(f), 4)
<1> DEFINE h1 == Field("fLaC", 4)
           h2 == h1 \o Filler(14)
           h3 == h2 \o Field(StreamInfo(f), 4)
           h4 == h3 \o Filler(20)
<1>1. IsBytes(h1) /\ Len(h1) = 4
      BY FieldBytes
<1> HIDE DEF h1
<1>2. IsBytes(h2) /\ Len(h2) = 18
  <2>1. Len(h2) = Len(h1) + 14 /\ IsBytes(h2)
        BY <1>1, LongerField DEF Filler
  <2> QED BY <1>1, <2>1
<1> HIDE DEF h2
<1>3. IsBytes(h3) /\ Len(h3) = 22 /\ At(h3, 18, StreamInfo(f), 4)
  <2>1. IsBytes(h3) /\ Len(h3) = Len(h2) + 4 /\ At(h3, Len(h2), StreamInfo(f), 4)
        BY <1>2, LongerField
  <2> QED BY <1>2, <2>1
<1> HIDE DEF h3
<1>4. IsBytes(h4) /\ Len(h4) = 42 /\ At(h4, 18, StreamInfo(f), 4)
  <2>1. IsBytes(h4) /\ Len(h4) = Len(h3) + 20
        BY <1>3, LongerField DEF Filler
  <2> QED BY <1>3, <2>1, LongerField DEF Filler
<1> QED BY <1>4 DEF h1, h2, h3, FlacBytes

LEMMA WavLayout ==
    ASSUME NEW f
    PROVE  /\ IsBytes(WavBytes(f)) /\ Len(WavBytes(f)) = 44
           /\ At(WavBytes(f), 0, "RIFF", 4) /\ At(WavBytes(f), 20, 1, 2)
           /\ At(WavBytes(f), 22, f.channels, 2) /\ At(WavBytes(f), 24, f.rate, 4)
           /\ At(WavBytes(f), 34, f.depth, 2)
<1> DEFINE h1 == Field("RIFF", 4)
           h2 == h1 \o Filler(16)
           h3 == h2 \o Field(1, 2)
           h4 == h3 \o Field(f.channels, 2)
           h5 == h4 \o Field(f.rate, 4)
           h6 == h5 \o Filler(6)
           h7 == h6 \o Field(f.depth, 2)
           h8 == h7 \o Filler(8)
<1>1. IsBytes(h1) /\ Len(h1) = 4 /\ At(h1, 0, "RIFF", 4)
      BY FieldBytes, FieldAt
<1> HIDE DEF h1
<1>2. IsBytes(h2) /\ Len(h2) = 20 /\ At(h2, 0, "RIFF", 4)
  <2>1. IsBytes(h2) /\ Len(h2) = Len(h1) + 16
        BY <1>1, LongerField DEF Filler
  <2> QED BY <1>1, <2>1, LongerField DEF Filler
<1> HIDE DEF h2
<1>3. IsBytes(h3) /\ Len(h3) = 22 /\ At(h3, 0, "RIFF", 4) /\ At(h3, 20, 1, 2)
  <2>1. IsBytes(h3) /\ Len(h3) = Len(h2) + 2 /\ At(h3, Len(h2), 1, 2)
        BY <1>2, LongerField
  <2> QED BY <1>2, <2>1, LongerField
<1> HIDE DEF h3
<1>4. /\ IsBytes(h4) /\ Len(h4) = 24 /\ At(h4, 0, "RIFF", 4) /\ At(h4, 20, 1, 2)
      /\ At(h4, 22, f.channels, 2)
  <2>1. IsBytes(h4) /\ Len(h4) = Len(h3) + 2 /\ At(h4, Len(h3), f.channels, 2)
        BY <1>3, LongerField
  <2> QED BY <1>3, <2>1, LongerField
<1> HIDE DEF h4
<1>5. /\ IsBytes(h5) /\ Len(h5) = 28 /\ At(h5, 0, "RIFF", 4) /\ At(h5, 20, 1, 2)
      /\ At(h5, 22, f.channels, 2) /\ At(h5, 24, f.rate, 4)
  <2>1. IsBytes(h5) /\ Len(h5) = Len(h4) + 4 /\ At(h5, Len(h4), f.rate, 4)
        BY <1>4, LongerField
  <2> QED BY <1>4, <2>1, LongerField
<1> HIDE DEF h5
<1>6. /\ IsBytes(h6) /\ Len(h6) = 34 /\ At(h6, 0, "RIFF", 4) /\ At(h6, 20, 1, 2)
      /\ At(h6, 22, f.channels, 2) /\ At(h6, 24, f.rate, 4)
  <2>1. IsBytes(h6) /\ Len(h6) = Len(h5) + 6
        BY <1>5, LongerField DEF Filler
  <2> QED BY <1>5, <2>1, LongerField DEF Filler
<1> HIDE DEF h6
<1>7. /\ IsBytes(h7) /\ Len(h7) = 36 /\ At(h7, 0, "RIFF", 4) /\ At(h7, 20, 1, 2)
      /\ At(h7, 22, f.channels, 2) /\ At(h7, 24, f.rate, 4) /\ At(h7, 34, f.depth, 2)
  <2>1. IsBytes(h7) /\ Len(h7) = Len(h6) + 2 /\ At(h7, Len(h6), f.depth, 2)
        BY <1>6, LongerField, ZenonT(40)
  <2> QED BY <1>6, <2>1, LongerField
<1> HIDE DEF h7
<1>8. /\ IsBytes(h8) /\ Len(h8) = 44 /\ At(h8, 0, "RIFF", 4) /\ At(h8, 20, 1, 2)
      /\ At(h8, 22, f.channels, 2) /\ At(h8, 24, f.rate, 4) /\ At(h8, 34, f.depth, 2)
  <2>1. IsBytes(h8) /\ Len(h8) = Len(h7) + 8
        BY <1>7, LongerField, ZenonT(40) DEF Filler
  <2> QED BY <1>7, <2>1, LongerField DEF Filler
<1> QED BY <1>8 DEF h1, h2, h3, h4, h5, h6, h7, WavBytes

CodecBody(b) ==
    /\ b = [is |-> "CodecHeader", codec |-> b.codec, format |-> b.format]
    /\ b.codec \in {"opus", "flac", "pcm"}
    /\ b.format \in [rate : Nat, depth : Nat, channels : Nat]
    /\ b.codec = "flac" =>
          b.format.rate < 65536 /\ b.format.depth = 16 /\ b.format.channels = 2

\* The masks and shifts of FlacMetadata, for the formats they are right for.
LEMMA Masks ==
    ASSUME NEW r \in Int, r >= 0, r < 65536
    PROVE  /\ r * 4096 + (2 - 1) * 512 + (16 - 1) * 16 = r * 4096 + 752
           /\ (r * 4096 + 752) \div 4096 = r /\ r % 65536 = r
           /\ (r * 4096 + 752) % 32 = 16
           /\ (r * 4096 + 752) \div 256 = r * 16 + 2 /\ (r * 16 + 2) % 4 = 2
<1>1. (r * 4096 + 752) \div 4096 = r
      BY SMT
<1>2. (r * 4096 + 752) % 32 = 16
      BY SMT
<1>3. (r * 4096 + 752) \div 256 = r * 16 + 2
      BY SMT
<1>4. (r * 16 + 2) % 4 = 2
      BY SMT
<1>5. r * 4096 + (2 - 1) * 512 + (16 - 1) * 16 = r * 4096 + 752
      BY SMT
<1>6. r % 65536 = r
      BY SMT
<1> QED BY <1>1, <1>2, <1>3, <1>4, <1>5, <1>6, SMT

LEMMA FlacBits ==
    ASSUME NEW f, f.rate \in Int, f.rate >= 0, f.rate < 65536, f.depth = 16, f.channels = 2
    PROVE  /\ (StreamInfo(f) \div 4096) % 65536 = f.rate
           /\ StreamInfo(f) % 32 = f.depth
           /\ (StreamInfo(f) \div 256) % 4 = f.channels
<1>1. PICK r \in Int : r = f.rate /\ r >= 0 /\ r < 65536
      OBVIOUS
<1>2. /\ (r * 4096 + 752) \div 4096 = r /\ r % 65536 = r
      /\ (r * 4096 + 752) % 32 = 16
      /\ (r * 4096 + 752) \div 256 = r * 16 + 2 /\ (r * 16 + 2) % 4 = 2
      BY <1>1, Masks, SMT
<1>3. StreamInfo(f) = r * 4096 + 752
      BY <1>1, Masks, SMT DEF StreamInfo
<1> QED BY <1>1, <1>2, <1>3, SMT

\* The metadata of a codec, wherever it lies.
LEMMA MetadataBack ==
    ASSUME NEW b, CodecBody(b), NEW d,
           \A k \in Nat, w \in Nat : \A v : At(MetadataBytes(b), k, v, w) => At(d, k, v, w)
    PROVE  /\ Playable(b.codec, d)
           /\ b.codec = "opus" => OpusFrom(d) = b.format
           /\ b.codec = "flac" => FlacFrom(d) = b.format
           /\ b.codec = "pcm" => WavFrom(d) = b.format
<1> DEFINE f == b.format
<1>1. f = [rate |-> f.rate, depth |-> f.depth, channels |-> f.channels]
      BY DEF CodecBody
<1>2. CASE b.codec = "opus"
  <2>1. At(d, 4, f.rate, 4) /\ At(d, 8, f.depth, 2) /\ At(d, 10, f.channels, 2)
        BY <1>2, MetadataCases, OpusLayout
  <2>2. Read(d, 4) = f.rate /\ Read(d, 8) = f.depth /\ Read(d, 10) = f.channels
        BY <2>1, ReadAt
  <2>3. Holds(d, 12)
        BY <2>1 DEF At, Holds
  <2> QED BY <1>1, <1>2, <2>2, <2>3 DEF OpusFrom, Playable
<1>3. CASE b.codec = "flac"
  <2>1. At(d, 18, StreamInfo(f), 4)
        BY <1>3, MetadataCases, FlacLayout
  <2>2. Read(d, 18) = StreamInfo(f)
        BY <2>1, ReadAt
  <2>3. /\ f.rate \in Int /\ f.rate >= 0 /\ f.rate < 65536
        /\ f.depth = 16 /\ f.channels = 2
        BY <1>3 DEF CodecBody
  <2>4. FlacFrom(d) = [rate |-> f.rate, depth |-> f.depth, channels |-> f.channels]
        BY <2>2, <2>3, FlacBits, SMT DEF FlacFrom
  <2>5. FlacFrom(d) = f
        BY <1>1, <2>4, Zenon
  <2>6. Holds(d, 22)
        BY <2>1 DEF At, Holds
  <2> QED BY <1>3, <2>5, <2>6 DEF Playable
<1>4. CASE b.codec = "pcm"
  <2>1. /\ At(d, 0, "RIFF", 4) /\ At(d, 20, 1, 2)
        /\ At(d, 22, f.channels, 2) /\ At(d, 24, f.rate, 4) /\ At(d, 34, f.depth, 2)
        BY <1>4, MetadataCases, WavLayout
  <2>2. /\ Read(d, 0) = "RIFF" /\ Read(d, 20) = 1
        /\ Read(d, 22) = f.channels /\ Read(d, 24) = f.rate /\ Read(d, 34) = f.depth
        BY <2>1, ReadAt
  <2>3. Holds(d, 36)
        BY <2>1 DEF At, Holds
  <2> QED BY <1>1, <1>4, <2>2, <2>3 DEF WavFrom, Playable
<1> QED BY <1>2, <1>3, <1>4 DEF CodecBody

LEMMA CodecFromCases ==
    ASSUME NEW p, NEW codec, codec = Read(p, 4), NEW d, d = Behind(p, 4 + Read(p, 0)),
           Within(p, 0), Within(p, 4 + Read(p, 0)), Playable(codec, d)
    PROVE  /\ codec = "opus" =>
                 CodecFrom(p) = [is |-> "CodecHeader", codec |-> codec, format |-> OpusFrom(d)]
           /\ codec = "flac" =>
                 CodecFrom(p) = [is |-> "CodecHeader", codec |-> codec, format |-> FlacFrom(d)]
           /\ codec = "pcm" =>
                 CodecFrom(p) = [is |-> "CodecHeader", codec |-> codec, format |-> WavFrom(d)]
BY Zenon DEF CodecFrom

\* A codec header.
LEMMA CodecBack ==
    ASSUME NEW b, CodecBody(b)
    PROVE  /\ IsBytes(CodecBytes(b)) /\ Len(CodecBytes(b)) \in 0 .. MAX_PAYLOAD
           /\ CodecFrom(CodecBytes(b)) = b
<1> DEFINE n    == NameBytes(b.codec)
           name == Field(b.codec, n)
           meta == MetadataBytes(b)
           l    == Len(meta)
           q1   == Prefixed(n, name)
           q2   == Prefixed(l, meta)
           p    == q1 \o q2
           d    == Behind(p, 4 + Read(p, 0))
<1>1. n \in 3 .. 4
      BY DEF NameBytes
<1>2. IsBytes(meta) /\ l \in 12 .. 44
  <2>1. CASE b.codec = "opus"
        BY <2>1, MetadataCases, OpusLayout
  <2>2. CASE b.codec = "flac"
        BY <2>2, MetadataCases, FlacLayout
  <2>3. CASE b.codec = "pcm"
        BY <2>3, MetadataCases, WavLayout
  <2> QED BY <2>1, <2>2, <2>3 DEF CodecBody
<1> HIDE DEF n, meta, l
<1>3. IsBytes(name) /\ Len(name) = n /\ At(name, 0, b.codec, n)
      BY <1>1, FieldBytes, FieldAt
<1> HIDE DEF name
<1>4. /\ IsBytes(q1) /\ Len(q1) = n + 4 /\ At(q1, 0, n, 4) /\ At(q1, 0 + 4, b.codec, n)
      BY <1>1, <1>3, PrefixedLayout
<1>5. At(q1, 4, b.codec, n)
      BY <1>4
<1>6. /\ IsBytes(q2) /\ Len(q2) = l + 4 /\ At(q2, 0, l, 4)
      /\ \A k \in Nat, w \in Nat : \A v : At(meta, k, v, w) => At(q2, k + 4, v, w)
      BY <1>2, PrefixedLayout DEF l
<1> HIDE DEF q1, q2
<1>7. /\ IsBytes(p) /\ Len(p) = Len(q1) + Len(q2)
      /\ At(p, 0, n, 4) /\ At(p, 4, b.codec, n)
      BY <1>1, <1>4, <1>5, <1>6, Longer
<1>8. Len(p) = (n + 4) + (l + 4)
      BY <1>4, <1>6, <1>7, Zenon
<1>9. At(p, Len(q1) + 0, l, 4)
      BY <1>4, <1>6, RightAt
<1>10. At(p, 4 + n, l, 4)
  <2>1. At(p, (n + 4) + 0, l, 4)
        BY <1>4, <1>9, Zenon
  <2> QED BY <1>1, <2>1
<1>11. ASSUME NEW k \in Nat, NEW w \in Nat, NEW v, At(meta, k, v, w)
       PROVE  At(p, (n + 8) + k, v, w)
  <2>1. At(q2, k + 4, v, w) /\ k + 4 \in Nat
        BY <1>6, <1>11
  <2>2. At(p, Len(q1) + (k + 4), v, w)
        BY <1>4, <1>6, <2>1, RightAt
  <2>3. At(p, (n + 4) + (k + 4), v, w)
        BY <1>4, <2>2, Zenon
  <2> QED BY <1>1, <2>3
<1> HIDE DEF p
<1>12. Read(p, 0) = n /\ Read(p, 4) = b.codec
       BY <1>1, <1>7, ReadAt
<1>13. Read(p, 4 + n) = l
       BY <1>1, <1>10, ReadAt
<1>14. Within(p, 0) /\ Within(p, 4 + Read(p, 0))
       BY <1>1, <1>2, <1>8, <1>12, <1>13 DEF Within, Holds
<1>15. d = SubSeq(p, (n + 8) + 1, (n + 8) + l)
  <2>1. d = SubSeq(p, (4 + n) + 5, (4 + n) + 4 + l)
        BY <1>12, <1>13, Zenon DEF Behind
  <2>2. (4 + n) + 5 = (n + 8) + 1 /\ (4 + n) + 4 + l = (n + 8) + l
        BY <1>1, <1>2
  <2> QED BY <2>1, <2>2, Zenon
<1>16. \A k \in Nat, w \in Nat : \A v : At(meta, k, v, w) => At(d, k, v, w)
  <2> HIDE DEF d
  <2> SUFFICES ASSUME NEW k \in Nat, NEW w \in Nat, NEW v, At(meta, k, v, w)
               PROVE  At(d, k, v, w)
      OBVIOUS
  <2>1. k + w <= l
        BY DEF At, l
  <2>2. n + 8 \in Nat /\ l \in Nat /\ (n + 8) + l <= Len(p)
        BY <1>1, <1>2, <1>8
  <2>3. At(SubSeq(p, (n + 8) + 1, (n + 8) + l), k, v, w)
        BY <1>7, <1>11, <2>1, <2>2, CutAt
  <2> QED BY <1>15, <2>3
<1>17. /\ Playable(b.codec, d)
       /\ b.codec = "opus" => OpusFrom(d) = b.format
       /\ b.codec = "flac" => FlacFrom(d) = b.format
       /\ b.codec = "pcm" => WavFrom(d) = b.format
       BY <1>16, MetadataBack DEF meta
<1>18. CodecFrom(p) = [is |-> "CodecHeader", codec |-> b.codec, format |-> b.format]
       BY <1>12, <1>14, <1>17, CodecFromCases DEF CodecBody
<1>19. Len(p) \in 0 .. MAX_PAYLOAD
       BY <1>1, <1>2, <1>8, MaxPayload
<1>20. CodecBytes(b) = p
       BY Zenon DEF CodecBytes, p, q1, q2, name, n, meta, l
<1>21. CodecFrom(p) = b
       BY <1>18 DEF CodecBody
<1> QED BY <1>7, <1>19, <1>20, <1>21

IsBody(b) ==
    \/ \E t \in TimeVals : b = [is |-> "Time", latency |-> t]
    \/ \E j : b = [is |-> "Hello", json |-> j]
    \/ \E j : b = [is |-> "ServerSettings", json |-> j]
    \/ \E t \in TimeVals, d \in DATA : b = [is |-> "WireChunk", timestamp |-> t, data |-> d]
    \/ b.is = "CodecHeader" /\ CodecBody(b)

LEMMA HelloCases ==
    ASSUME NEW p, HelloHolds(p), Parses(p)
    PROVE  HelloFrom(p) = [is |-> "Hello", json |-> Read(p, 4)]
BY Zenon DEF HelloFrom, HelloHolds

\* What either end writes as a payload, the other end reads.
LEMMA BodyBack ==
    ASSUME NEW b, IsBody(b)
    PROVE  /\ IsBytes(Payload(b)) /\ Len(Payload(b)) \in 0 .. MAX_PAYLOAD
           /\ b.is \in DOMAIN Number
           /\ b.is \in {"Time", "Hello"} => DecodeC(Number[b.is], Payload(b)) = b
           /\ b.is # "Hello" => Decode(Number[b.is], Payload(b)) = b
<1>1. CASE \E t \in TimeVals : b = [is |-> "Time", latency |-> t]
  <2>1. PICK t \in TimeVals : b = [is |-> "Time", latency |-> t]
        BY <1>1
  <2>2. b.is = "Time" /\ b.latency = t /\ Payload(b) = TimeBytes(t)
        BY <2>1, PayloadCases
  <2>3. Len(Payload(b)) \in 0 .. MAX_PAYLOAD
    <3>1. Len(Payload(b)) = 8
          BY <2>2, TimeBack, Zenon
    <3>2. 8 \in 0 .. MAX_PAYLOAD
          BY MaxPayload
    <3> QED BY <3>1, <3>2, Zenon
  <2> QED BY <2>1, <2>2, <2>3, TimeBack, Numbers, DecodeCases
<1>2. CASE \E j : b = [is |-> "Hello", json |-> j]
  <2>1. PICK j : b = [is |-> "Hello", json |-> j]
        BY <1>2
  <2>2. b.is = "Hello" /\ b.json = j /\ Payload(b) = Prefixed(JSON, Field(j, JSON))
        BY <2>1, PayloadCases
  <2>3. HelloFrom(Payload(b)) = b
        BY <2>1, <2>2, DocumentBack, HelloCases
  <2> QED BY <2>2, <2>3, DocumentBack, Numbers, DecodeCases
<1>3. CASE \E j : b = [is |-> "ServerSettings", json |-> j]
  <2>1. PICK j : b = [is |-> "ServerSettings", json |-> j]
        BY <1>3
  <2>2. b.is = "ServerSettings" /\ b.json = j /\ Payload(b) = Prefixed(JSON, Field(j, JSON))
        BY <2>1, PayloadCases
  <2>3. SettingsFrom(Payload(b)) = b
        BY <2>1, <2>2, DocumentBack DEF SettingsFrom
  <2> QED BY <2>2, <2>3, DocumentBack, Numbers, DecodeCases
<1>4. CASE \E t \in TimeVals, d \in DATA : b = [is |-> "WireChunk", timestamp |-> t, data |-> d]
  <2>1. PICK t \in TimeVals, d \in DATA : b = [is |-> "WireChunk", timestamp |-> t, data |-> d]
        BY <1>4
  <2>6. b.is = "WireChunk" /\ b.timestamp = t /\ b.data = d
        BY <2>1
  <2>2. Payload(b) = TimeBytes(t) \o Prefixed(Len(d), d)
        BY <2>6, PayloadCases, Zenon
  <2>3. PICK n \in 0 .. MAX_PAYLOAD - 12 : d = Field("data", n)
        BY <2>1, DataAssumption DEF DataAssumption
  <2>4. /\ IsBytes(Payload(b)) /\ Len(Payload(b)) \in 0 .. MAX_PAYLOAD
        /\ ChunkFrom(Payload(b)) = b
        BY <2>1, <2>2, <2>3, ChunkBack
  <2> QED BY <2>6, <2>4, Numbers, DecodeCases
<1>5. CASE b.is = "CodecHeader" /\ CodecBody(b)
  <2>1. Payload(b) = CodecBytes(b)
        BY <1>5, PayloadCases
  <2> QED BY <1>5, <2>1, CodecBack, Numbers, DecodeCases
<1> QED BY <1>1, <1>2, <1>3, <1>4, <1>5 DEF IsBody

IsMessage(m) ==
    /\ m = Message(m.id, m.refers_to, m.sent_tv, m.received_tv, m.body)
    /\ m.sent_tv \in TimeVals /\ m.received_tv \in TimeVals
    /\ IsBody(m.body)

\* What either end writes as a header, the other end reads, and the payload behind it.
LEMMA HeaderBack ==
    ASSUME NEW m, IsMessage(m)
    PROVE  LET buf == AsBuf(m)
           IN  /\ MType(buf) = Number[m.body.is] /\ Paid(buf) = Payload(m.body)
               /\ \A body : Heard(buf, body) =
                     Message(m.id, m.refers_to, m.sent_tv, m.received_tv, body)
               /\ buf # << >>
<1> DEFINE p == Payload(m.body)
           h == Field(Number[m.body.is], 2) \o Field(m.id, 2) \o Field(m.refers_to, 2)
                    \o TimeBytes(m.sent_tv) \o TimeBytes(m.received_tv) \o Field(Len(p), 4)
           buf == AsBuf(m)
<1>1. /\ IsBytes(h) /\ Len(h) = BASE_SIZE
      /\ At(h, 0, Number[m.body.is], 2) /\ At(h, 2, m.id, 2) /\ At(h, 4, m.refers_to, 2)
      /\ At(h, 6, m.sent_tv.sec, 4) /\ At(h, 10, m.sent_tv.usec, 4)
      /\ At(h, 14, m.received_tv.sec, 4) /\ At(h, 18, m.received_tv.usec, 4)
      /\ At(h, 22, Len(p), 4)
      BY HeaderLayout, Zenon
<1>2. /\ IsBytes(p) /\ Len(p) \in 0 .. MAX_PAYLOAD /\ m.body.is \in DOMAIN Number
      BY BodyBack DEF IsMessage
<1>3. buf = h \o p
      BY Zenon DEF AsBuf
<1> HIDE DEF h, p, buf
<1>4. /\ IsBytes(buf) /\ Len(buf) = Len(h) + Len(p)
      /\ At(buf, 0, Number[m.body.is], 2) /\ At(buf, 2, m.id, 2) /\ At(buf, 4, m.refers_to, 2)
      /\ At(buf, 6, m.sent_tv.sec, 4) /\ At(buf, 10, m.sent_tv.usec, 4)
      /\ At(buf, 14, m.received_tv.sec, 4) /\ At(buf, 18, m.received_tv.usec, 4)
      /\ At(buf, 22, Len(p), 4)
      BY <1>1, <1>2, <1>3, Longer
<1>5. /\ Read(buf, 0) = Number[m.body.is] /\ Read(buf, 2) = m.id /\ Read(buf, 4) = m.refers_to
      /\ Read(buf, 6) = m.sent_tv.sec /\ Read(buf, 10) = m.sent_tv.usec
      /\ Read(buf, 14) = m.received_tv.sec /\ Read(buf, 18) = m.received_tv.usec
      /\ Read(buf, 22) = Len(p)
      BY <1>4, ReadAt
<1>6. TimeAt(buf, 6) = m.sent_tv /\ TimeAt(buf, 14) = m.received_tv
      BY <1>5 DEF TimeAt, TV, TimeVals, IsMessage
<1>7. MType(buf) = Number[m.body.is] /\ Size(buf) = Len(p)
      BY <1>5 DEF MType, Size
<1>8. HeaderOK(buf)
      BY <1>2, <1>7, MaxPayload DEF HeaderOK
<1>9. Len(buf) = BASE_SIZE + Len(p)
      BY <1>1, <1>4, Zenon
<1>10. Holds(buf, BASE_SIZE + Size(buf))
       BY <1>2, <1>7, <1>9 DEF Holds, BASE_SIZE
<1>11. Paid(buf) = p
       BY <1>1, <1>2, <1>3, <1>7, Rest, Zenon DEF Paid
<1>12. ASSUME NEW body
       PROVE  Heard(buf, body) = Message(m.id, m.refers_to, m.sent_tv, m.received_tv, body)
  <2>1. Heard(buf, body) =
            Message(Read(buf, 2), Read(buf, 4), TimeAt(buf, 6), TimeAt(buf, 14), body)
        BY <1>8, <1>10, Zenon DEF Heard
  <2> QED BY <1>5, <1>6, <2>1
<1>13. buf # << >>
       BY <1>2, <1>9 DEF BASE_SIZE
<1> QED BY <1>7, <1>11, <1>12, <1>13 DEF p, buf

\* A message is read as it was written, by the server if a client wrote it and by the
\* client if a server did.
LEMMA MessageBack ==
    ASSUME NEW m, IsMessage(m)
    PROVE  LET buf == AsBuf(m)
           IN  /\ m.body.is \in {"Time", "Hello"} => Heard(buf, DecodeC(MType(buf), Paid(buf))) = m
               /\ m.body.is # "Hello" => Heard(buf, Decode(MType(buf), Paid(buf))) = m
BY HeaderBack, BodyBack DEF IsMessage

-----------------------------------------------------------------------------
\* Bytes of whoever.

LEMMA HeardCases ==
    ASSUME NEW buf, NEW body
    PROVE  \/ Heard(buf, body).body = Refused
           \/ HeaderOK(buf) /\ Heard(buf, body).body = [is |-> "waits", size |-> Size(buf)]
           \/ Heard(buf, body).body = body
<1>1. CASE ~HeaderOK(buf)
  <2>1. Heard(buf, body) = [body |-> Refused]
        BY <1>1, Zenon DEF Heard
  <2> QED BY <2>1
<1>2. CASE HeaderOK(buf) /\ ~Holds(buf, BASE_SIZE + Size(buf))
  <2>1. Heard(buf, body) = [body |-> [is |-> "waits", size |-> Size(buf)]]
        BY <1>2, Zenon DEF Heard
  <2> QED BY <1>2, <2>1
<1>3. CASE HeaderOK(buf) /\ Holds(buf, BASE_SIZE + Size(buf))
  <2>1. Heard(buf, body) =
            Message(Read(buf, 2), Read(buf, 4), TimeAt(buf, 6), TimeAt(buf, 14), body)
        BY <1>3, Zenon DEF Heard
  <2> QED BY <2>1 DEF Message
<1> QED BY <1>1, <1>2, <1>3

\* No slice of decode_c ends behind the payload.
LEMMA DecodeCNeverPanics ==
    ASSUME NEW t, NEW p PROVE DecodeC(t, p).is \in {"Hello", "Time", "refused"}
<1>1. TimeFrom(p).is \in {"Time", "refused"}
      BY DEF TimeFrom, Refused
<1>2. HelloFrom(p).is \in {"Hello", "refused"}
  <2>1. CASE ~HelloHolds(p)
    <3>1. HelloFrom(p) = Refused
          BY <2>1, Zenon DEF HelloFrom, HelloHolds
    <3> QED BY <3>1 DEF Refused
  <2>2. CASE HelloHolds(p) /\ ~Parses(p)
    <3>1. HelloFrom(p) = Refused
          BY <2>2, Zenon DEF HelloFrom, HelloHolds
    <3> QED BY <3>1 DEF Refused
  <2>3. CASE HelloHolds(p) /\ Parses(p)
        BY <2>3, HelloCases
  <2> QED BY <2>1, <2>2, <2>3
<1>3. DecodeC(t, p) \in {HelloFrom(p), TimeFrom(p), Refused}
      BY Zenon DEF DecodeC
<1> QED BY <1>1, <1>2, <1>3 DEF Refused

LEMMA HeardWithoutPanic ==
    ASSUME NEW buf
    PROVE  LET g == Heard(buf, DecodeC(MType(buf), Paid(buf)))
           IN  /\ g.body.is # "panic"
               /\ g.body.is = "waits" => g.body.size <= MAX_PAYLOAD
<1> DEFINE d == DecodeC(MType(buf), Paid(buf))
<1>1. d.is \in {"Hello", "Time", "refused"}
      BY DecodeCNeverPanics
<1> DEFINE g == Heard(buf, d)
<1>2. \/ g.body = Refused
      \/ HeaderOK(buf) /\ g.body = [is |-> "waits", size |-> Size(buf)]
      \/ g.body = d
      BY HeardCases, Zenon
<1> HIDE DEF d, g
<1>3. Refused.is = "refused"
      BY DEF Refused
<1>4. HeaderOK(buf) => Size(buf) <= MAX_PAYLOAD
      BY DEF HeaderOK
<1>5. /\ g.body.is # "panic"
      /\ g.body.is = "waits" => g.body.size <= MAX_PAYLOAD
      BY <1>1, <1>2, <1>3, <1>4
<1> QED BY <1>5 DEF d, g

-----------------------------------------------------------------------------
\* Queues.

IsSeq(q) == \E S : q \in Seq(S)

LEMMA QueueAppend ==
    ASSUME NEW q, IsSeq(q), NEW p
    PROVE  /\ IsSeq(Append(q, p)) /\ Len(q) \in Nat /\ Len(Append(q, p)) = Len(q) + 1
           /\ \A i \in 1 .. Len(q) : Append(q, p)[i] = q[i]
           /\ Append(q, p)[Len(q) + 1] = p
<1>1. PICK S : q \in Seq(S)
      BY DEF IsSeq
<1>2. q \in Seq(S \cup {p})
      BY <1>1, SeqMonotonic
<1>3. Append(q, p) \in Seq(S \cup {p})
      BY <1>2
<1>4. /\ Len(q) \in Nat /\ Len(Append(q, p)) = Len(q) + 1
      /\ \A i \in 1 .. Len(q) : Append(q, p)[i] = q[i]
      /\ Append(q, p)[Len(q) + 1] = p
      BY <1>2
<1> QED BY <1>3, <1>4 DEF IsSeq

LEMMA QueueTail ==
    ASSUME NEW q, IsSeq(q), q # << >>
    PROVE  /\ IsSeq(Tail(q)) /\ Len(q) \in Nat \ {0} /\ Len(Tail(q)) = Len(q) - 1
           /\ Head(q) = q[1]
           /\ \A i \in 1 .. Len(q) - 1 : Tail(q)[i] = q[i + 1]
<1>1. PICK S : q \in Seq(S)
      BY DEF IsSeq
<1> QED BY <1>1, HeadTailProperties DEF IsSeq

LEMMA EmptyQueue == IsSeq(<< >>) /\ Len(<< >>) = 0
<1>1. << >> \in Seq({})
      OBVIOUS
<1> QED BY <1>1 DEF IsSeq

\* A Time request or a reply.
IsTime(p) == p.meant.body.is = "Time"

\* The packets of q that are Time messages are the n that rank names, in that order.
Ranks(rank, q, n) ==
    /\ rank \in [1 .. n -> 1 .. Len(q)]
    /\ \A j, k \in 1 .. n : j < k => rank[j] < rank[k]
    /\ \A i \in 1 .. Len(q) : IsTime(q[i]) <=> \E k \in 1 .. n : rank[k] = i

LEMMA RankAppendTime ==
    ASSUME NEW q, IsSeq(q), NEW p, IsTime(p), NEW n \in Nat, NEW rank, Ranks(rank, q, n)
    PROVE  Ranks([k \in 1 .. n + 1 |-> IF k <= n THEN rank[k] ELSE Len(q) + 1],
                 Append(q, p), n + 1)
<1> DEFINE r == [k \in 1 .. n + 1 |-> IF k <= n THEN rank[k] ELSE Len(q) + 1]
<1>1. /\ Len(q) \in Nat /\ Len(Append(q, p)) = Len(q) + 1
      /\ \A i \in 1 .. Len(q) : Append(q, p)[i] = q[i]
      /\ Append(q, p)[Len(q) + 1] = p
      BY QueueAppend
<1>2. rank \in [1 .. n -> 1 .. Len(q)]
      BY DEF Ranks
<1>3. r \in [1 .. n + 1 -> 1 .. Len(q) + 1]
      BY <1>1, <1>2
<1>4. \A j, k \in 1 .. n + 1 : j < k => r[j] < r[k]
      BY <1>1, <1>2 DEF Ranks
<1>5. ASSUME NEW i \in 1 .. Len(q) + 1
      PROVE  IsTime(Append(q, p)[i]) <=> \E k \in 1 .. n + 1 : r[k] = i
  <2>1. CASE i = Len(q) + 1
    <3>1. r[n + 1] = i
          BY <2>1
    <3> QED BY <1>1, <2>1, <3>1
  <2>2. CASE i \in 1 .. Len(q)
    <3>1. IsTime(Append(q, p)[i]) <=> \E k \in 1 .. n : rank[k] = i
          BY <1>1, <2>2 DEF Ranks
    <3>2. (\E k \in 1 .. n : rank[k] = i) <=> \E k \in 1 .. n + 1 : r[k] = i
      <4>1. ASSUME NEW k \in 1 .. n, rank[k] = i PROVE \E x \in 1 .. n + 1 : r[x] = i
        <5>1. k \in 1 .. n + 1 /\ r[k] = i
              BY <4>1
        <5> QED BY <5>1
      <4>2. ASSUME NEW k \in 1 .. n + 1, r[k] = i PROVE k \in 1 .. n /\ rank[k] = i
            BY <1>1, <2>2, <4>2
      <4> HIDE DEF r
      <4> QED BY <4>1, <4>2
    <3> QED BY <3>1, <3>2
  <2> QED BY <1>1, <2>1, <2>2
<1> HIDE DEF r
<1> QED BY <1>1, <1>3, <1>4, <1>5 DEF Ranks, r

LEMMA RankAppendOther ==
    ASSUME NEW q, IsSeq(q), NEW p, ~IsTime(p), NEW n \in Nat, NEW rank, Ranks(rank, q, n)
    PROVE  Ranks(rank, Append(q, p), n)
<1>1. /\ Len(q) \in Nat /\ Len(Append(q, p)) = Len(q) + 1
      /\ \A i \in 1 .. Len(q) : Append(q, p)[i] = q[i]
      /\ Append(q, p)[Len(q) + 1] = p
      BY QueueAppend
<1>2. rank \in [1 .. n -> 1 .. Len(q)]
      BY DEF Ranks
<1>3. rank \in [1 .. n -> 1 .. Len(q) + 1]
      BY <1>1, <1>2
<1>4. ASSUME NEW i \in 1 .. Len(q) + 1
      PROVE  IsTime(Append(q, p)[i]) <=> \E k \in 1 .. n : rank[k] = i
  <2>1. CASE i = Len(q) + 1
        BY <1>1, <1>2, <2>1
  <2>2. CASE i \in 1 .. Len(q)
        BY <1>1, <2>2 DEF Ranks
  <2> QED BY <1>1, <2>1, <2>2
<1> QED BY <1>1, <1>3, <1>4 DEF Ranks

LEMMA RankTailTime ==
    ASSUME NEW q, IsSeq(q), q # << >>, IsTime(q[1]), NEW n \in Nat, NEW rank, Ranks(rank, q, n)
    PROVE  /\ n > 0 /\ rank[1] = 1
           /\ Ranks([k \in 1 .. n - 1 |-> rank[k + 1] - 1], Tail(q), n - 1)
<1> DEFINE r == [k \in 1 .. n - 1 |-> rank[k + 1] - 1]
<1>1. /\ Len(q) \in Nat \ {0} /\ Len(Tail(q)) = Len(q) - 1
      /\ \A i \in 1 .. Len(q) - 1 : Tail(q)[i] = q[i + 1]
      BY QueueTail
<1>2. /\ rank \in [1 .. n -> 1 .. Len(q)]
      /\ \A j, k \in 1 .. n : j < k => rank[j] < rank[k]
      BY DEF Ranks
<1>3. PICK k1 \in 1 .. n : rank[k1] = 1
      BY <1>1 DEF Ranks
<1>4. n > 0 /\ rank[1] = 1
  <2>1. 1 \in 1 .. n
        BY <1>3
  <2>2. k1 = 1 \/ rank[1] < rank[k1]
        BY <1>2, <1>3, <2>1
  <2>3. rank[1] \in 1 .. Len(q)
        BY <1>2, <2>1
  <2> QED BY <1>1, <1>3, <2>1, <2>2, <2>3
<1>5. ASSUME NEW k \in 1 .. n - 1 PROVE rank[k + 1] - 1 \in 1 .. Len(q) - 1
  <2>1. k + 1 \in 1 .. n /\ 1 \in 1 .. n /\ 1 < k + 1
        BY <1>4
  <2>2. rank[k + 1] \in 1 .. Len(q) /\ rank[1] < rank[k + 1]
        BY <1>2, <2>1
  <2> QED BY <1>1, <1>4, <2>2
<1>6. r \in [1 .. n - 1 -> 1 .. Len(q) - 1]
      BY <1>5
<1>7. ASSUME NEW j \in 1 .. n - 1, NEW k \in 1 .. n - 1, j < k PROVE r[j] < r[k]
  <2>1. j + 1 \in 1 .. n /\ k + 1 \in 1 .. n /\ j + 1 < k + 1
        BY <1>7
  <2>2. rank[j + 1] < rank[k + 1] /\ rank[j + 1] \in Int /\ rank[k + 1] \in Int
        BY <1>1, <1>2, <2>1
  <2> QED BY <2>2
<1>8. ASSUME NEW i \in 1 .. Len(q) - 1
      PROVE  IsTime(Tail(q)[i]) <=> \E k \in 1 .. n - 1 : r[k] = i
  <2>1. i + 1 \in 1 .. Len(q) /\ Tail(q)[i] = q[i + 1]
        BY <1>1
  <2>2. IsTime(Tail(q)[i]) <=> \E k \in 1 .. n : rank[k] = i + 1
        BY <2>1 DEF Ranks
  <2>3. ASSUME NEW k \in 1 .. n, rank[k] = i + 1 PROVE \E x \in 1 .. n - 1 : r[x] = i
    <3>1. k # 1
          BY <1>4, <2>3
    <3>2. k - 1 \in 1 .. n - 1 /\ (k - 1) + 1 = k
          BY <3>1
    <3>3. r[k - 1] = i
          BY <2>3, <3>2
    <3> QED BY <3>2, <3>3
  <2>4. ASSUME NEW k \in 1 .. n - 1, r[k] = i PROVE k + 1 \in 1 .. n /\ rank[k + 1] = i + 1
    <3>1. k + 1 \in 1 .. n
          OBVIOUS
    <3>2. rank[k + 1] \in Int /\ rank[k + 1] - 1 = i
          BY <1>1, <1>2, <2>4, <3>1
    <3> QED BY <3>1, <3>2
  <2> HIDE DEF r
  <2> QED BY <2>2, <2>3, <2>4
<1> HIDE DEF r
<1> QED BY <1>1, <1>4, <1>6, <1>7, <1>8 DEF Ranks, r

LEMMA RankTailOther ==
    ASSUME NEW q, IsSeq(q), q # << >>, ~IsTime(q[1]), NEW n \in Nat, NEW rank, Ranks(rank, q, n)
    PROVE  Ranks([k \in 1 .. n |-> rank[k] - 1], Tail(q), n)
<1> DEFINE r == [k \in 1 .. n |-> rank[k] - 1]
<1>1. /\ Len(q) \in Nat \ {0} /\ Len(Tail(q)) = Len(q) - 1
      /\ \A i \in 1 .. Len(q) - 1 : Tail(q)[i] = q[i + 1]
      BY QueueTail
<1>2. /\ rank \in [1 .. n -> 1 .. Len(q)]
      /\ \A j, k \in 1 .. n : j < k => rank[j] < rank[k]
      BY DEF Ranks
<1>3. ASSUME NEW k \in 1 .. n PROVE rank[k] - 1 \in 1 .. Len(q) - 1
  <2>1. rank[k] # 1
        BY <1>1 DEF Ranks
  <2> QED BY <1>1, <1>2, <2>1
<1>4. r \in [1 .. n -> 1 .. Len(q) - 1]
      BY <1>3
<1>5. \A j, k \in 1 .. n : j < k => r[j] < r[k]
      BY <1>1, <1>2
<1>6. ASSUME NEW i \in 1 .. Len(q) - 1
      PROVE  IsTime(Tail(q)[i]) <=> \E k \in 1 .. n : r[k] = i
  <2>1. i + 1 \in 1 .. Len(q) /\ Tail(q)[i] = q[i + 1]
        BY <1>1
  <2>2. IsTime(Tail(q)[i]) <=> \E k \in 1 .. n : rank[k] = i + 1
        BY <2>1 DEF Ranks
  <2>3. \A k \in 1 .. n : rank[k] = i + 1 <=> r[k] = i
        BY <1>1, <1>2
  <2> HIDE DEF r
  <2> QED BY <2>2, <2>3
<1> HIDE DEF r
<1> QED BY <1>1, <1>4, <1>5, <1>6 DEF Ranks, r

-----------------------------------------------------------------------------
\* The exchange.

\* What the two ends write, whatever the client falsifies ...
DownPacket(p) ==
    /\ p.bytes = AsBuf(p.meant)
    /\ p.meant.body.is # "Hello"
    /\ IsTime(p) =>
          \E id, refers, s, r, t :
             p.meant = Message(id, refers, s, r, [is |-> "Time", latency |-> t])
    /\ ~IsTime(p) => IsMessage(p.meant)
    /\ p.meant.body.is = "ServerSettings" =>
          p.meant.body.json.volume = Percent(p.dial) /\ p.dial \in DIALS

\* ... and while it falsifies nothing.
UpPacket(p) ==
    /\ p.bytes = AsBuf(p.meant)
    /\ p.meant.body.is \in {"Time", "Hello"}
    /\ IsMessage(p.meant)

FlowInv ==
    /\ IsSeq(down)
    /\ \A i \in 1 .. Len(down) : DownPacket(down[i])
    /\ honest =>
          /\ IsSeq(up)
          /\ \A i \in 1 .. Len(up) : UpPacket(up[i])
          /\ \A i \in 1 .. Len(down) : IsMessage(down[i].meant)

GotInv ==
    /\ honest /\ got # Nothing => got.message = got.packet.meant
    /\ got.by = "client" /\ got.message.body.is = "ServerSettings" =>
          got.message.body.json.volume = Percent(got.packet.dial) /\ got.packet.dial \in DIALS

\* The requests that are not answered yet are the replies on their way down, those the
\* server holds, and the requests on their way up, in this order.

Answers(m, k) ==
    /\ m.refers_to = requests[k].id /\ m.body.latency = requests[k].sent_tv
    /\ m.received_tv = heardAt[k] /\ m.sent_tv = writtenAt[k]

Answered ==
    \E rank :
        /\ Ranks(rank, down, Len(writtenAt))
        /\ \A k \in 1 .. Len(writtenAt) : Answers(down[rank[k]].meant, k)

Held ==
    \A k \in 1 .. Len(channel) :
        LET n == Len(writtenAt) + k
        IN  /\ channel[k].refers_to = requests[n].id
            /\ channel[k].client_sent = requests[n].sent_tv
            /\ channel[k].received = heardAt[n]

Asks(m, k) == m.id = requests[k].id /\ m.sent_tv = requests[k].sent_tv

Asked ==
    \E rank :
        /\ Ranks(rank, up, Len(requests) - Len(heardAt))
        /\ \A k \in 1 .. Len(requests) - Len(heardAt) :
              Asks(up[rank[k]].meant, Len(heardAt) + k)

Queues ==
    /\ IsSeq(requests) /\ IsSeq(heardAt) /\ IsSeq(writtenAt) /\ IsSeq(channel)
    /\ Len(heardAt) = Len(writtenAt) + Len(channel)
    /\ Len(heardAt) <= Len(requests)
    /\ \A k \in 1 .. Len(requests) : requests[k].sent_tv \in TIMES
    /\ \A k \in 1 .. Len(heardAt) : heardAt[k] \in TIMES

TurnsInv == Queues /\ Answered /\ Held /\ Asked

ExchangeInv == FlowInv /\ GotInv /\ (honest => TurnsInv /\ Echoed)

LEMMA TimesAreTimeVals == TIMES \subseteq TimeVals /\ Zero \in TimeVals
<1>1. TIMES \subseteq TimeVals
      BY ExchangeAssumption DEF ExchangeAssumption
<1>2. Zero \in TimeVals
      BY DEF Zero, TV, TimeVals
<1> QED BY <1>1, <1>2

LEMMA Written ==
    ASSUME NEW id, NEW refers, NEW s \in TimeVals, NEW r \in TimeVals, NEW b, IsBody(b)
    PROVE  LET m == Message(id, refers, s, r, b)
           IN  /\ IsMessage(m)
               /\ m.id = id /\ m.refers_to = refers /\ m.sent_tv = s /\ m.received_tv = r
               /\ m.body = b
<1> DEFINE m == Message(id, refers, s, r, b)
<1>1. m.id = id /\ m.refers_to = refers /\ m.sent_tv = s /\ m.received_tv = r /\ m.body = b
      BY DEF Message
<1>2. IsMessage(m)
      BY <1>1 DEF IsMessage
<1> QED BY <1>1, <1>2

LEMMA PacketFields ==
    ASSUME NEW m, NEW d
    PROVE  /\ Packet(m, d).bytes = AsBuf(m) /\ Packet(m, d).meant = m /\ Packet(m, d).dial = d
           /\ IsTime(Packet(m, d)) <=> m.body.is = "Time"
BY DEF Packet, IsTime

-----------------------------------------------------------------------------
\* Writing.

\* Nothing was read.
LEMMA NothingRead == got' = Nothing => GotInv' /\ Echoed'
<1>1. Nothing.by = "nobody"
      BY DEF Nothing
<1> QED BY <1>1 DEF GotInv, Echoed

LEMMA UpFlow ==
    ASSUME FlowInv, NEW m, Up(m), m.body.is \in {"Time", "Hello"}, IsMessage(m)
    PROVE  FlowInv' /\ honest /\ IsSeq(up) /\ up' = Append(up, Packet(m, 0))
<1>1. honest /\ up' = Append(up, Packet(m, 0)) /\ UNCHANGED <<down, honest>>
      BY DEF Up
<1>2. IsSeq(up) /\ \A i \in 1 .. Len(up) : UpPacket(up[i])
      BY <1>1 DEF FlowInv
<1>3. UpPacket(Packet(m, 0))
      BY PacketFields DEF UpPacket
<1>4. IsSeq(up') /\ \A i \in 1 .. Len(up') : UpPacket(up'[i])
  <2> HIDE DEF UpPacket
  <2>1. /\ IsSeq(up') /\ Len(up) \in Nat /\ Len(up') = Len(up) + 1
        /\ \A i \in 1 .. Len(up) : up'[i] = up[i]
        /\ up'[Len(up) + 1] = Packet(m, 0)
        BY <1>1, <1>2, QueueAppend
  <2> QED BY <1>2, <1>3, <2>1
<1> QED BY <1>1, <1>2, <1>4 DEF FlowInv

LEMMA DownFlow ==
    ASSUME FlowInv, NEW m, NEW d, Down(m, d), DownPacket(Packet(m, d)), honest => IsMessage(m)
    PROVE  FlowInv' /\ IsSeq(down) /\ down' = Append(down, Packet(m, d))
<1>1. down' = Append(down, Packet(m, d)) /\ UNCHANGED <<up, honest>>
      BY DEF Down
<1>2. IsSeq(down) /\ \A i \in 1 .. Len(down) : DownPacket(down[i])
      BY DEF FlowInv
<1>3. /\ IsSeq(down') /\ Len(down) \in Nat /\ Len(down') = Len(down) + 1
      /\ \A i \in 1 .. Len(down) : down'[i] = down[i]
      /\ down'[Len(down) + 1] = Packet(m, d)
      BY <1>1, <1>2, QueueAppend
<1>4. ASSUME NEW i \in 1 .. Len(down') PROVE DownPacket(down'[i])
      BY <1>2, <1>3
<1>5. ASSUME honest, NEW i \in 1 .. Len(down') PROVE IsMessage(down'[i].meant)
  <2>1. CASE i = Len(down) + 1
        BY <1>3, <1>5, <2>1, PacketFields
  <2>2. CASE i \in 1 .. Len(down)
        BY <1>3, <1>5, <2>2 DEF FlowInv
  <2> QED BY <1>3, <2>1, <2>2
<1> QED BY <1>1, <1>2, <1>3, <1>4, <1>5 DEF FlowInv

\* A Hello goes up.
LEMMA HelloKeeps == ExchangeInv /\ SendHello => ExchangeInv'
<1> SUFFICES ASSUME ExchangeInv, SendHello PROVE ExchangeInv'
    OBVIOUS
<1> DEFINE b == [is |-> "Hello", json |-> [version |-> 2]]
           m == Message(0, 0, Zero, Zero, b)
<1>1. Up(m) /\ UNCHANGED exchangeVars
      BY DEF SendHello
<1>2. IsBody(b) /\ b.is = "Hello"
      BY DEF IsBody
<1>3. IsMessage(m) /\ m.body = b
      BY <1>2, TimesAreTimeVals, Written
<1> HIDE DEF m, b
<1>4. FlowInv' /\ honest /\ IsSeq(up) /\ up' = Append(up, Packet(m, 0))
      BY <1>1, <1>2, <1>3, UpFlow DEF ExchangeInv
<1>5. GotInv' /\ Echoed'
      BY <1>1, NothingRead DEF Up
<1>6. TurnsInv'
  <2>1. TurnsInv /\ UNCHANGED <<channel, down, requests, heardAt, writtenAt>>
        BY <1>1, <1>4 DEF ExchangeInv, Up, exchangeVars
  <2>2. PICK rank :
           /\ Ranks(rank, up, Len(requests) - Len(heardAt))
           /\ \A k \in 1 .. Len(requests) - Len(heardAt) :
                 Asks(up[rank[k]].meant, Len(heardAt) + k)
        BY <2>1 DEF TurnsInv, Asked
  <2>3. Len(requests) - Len(heardAt) \in Nat
        BY <2>1, QueueAppend DEF TurnsInv, Queues
  <2>4. ~IsTime(Packet(m, 0))
        BY <1>2, <1>3, PacketFields
  <2>5. Ranks(rank, up', Len(requests) - Len(heardAt))
        BY <1>4, <2>2, <2>3, <2>4, RankAppendOther
  <2>6. \A k \in 1 .. Len(requests) - Len(heardAt) : up'[rank[k]] = up[rank[k]]
        BY <1>4, <2>2, QueueAppend DEF Ranks
  <2>7. Asked'
        BY <2>1, <2>2, <2>5, <2>6 DEF Asked, Asks
  <2> QED BY <2>1, <2>7 DEF TurnsInv, Queues, Answered, Answers, Held
<1> QED BY <1>4, <1>5, <1>6 DEF ExchangeInv

\* A request goes up, behind those that are not answered yet.
LEMMA RequestKeeps == ExchangeInv /\ SendRequest => ExchangeInv'
<1> SUFFICES ASSUME ExchangeInv, SendRequest PROVE ExchangeInv'
    OBVIOUS
<1>1. PICK id \in IDS, t \in TIMES :
         /\ Up(Message(id, 0, t, t, [is |-> "Time", latency |-> t]))
         /\ requests' = Append(requests, [id |-> id, sent_tv |-> t])
         /\ UNCHANGED <<heardAt, writtenAt, closed>>
      BY DEF SendRequest
<1> DEFINE b == [is |-> "Time", latency |-> t]
           m == Message(id, 0, t, t, b)
<1>2. t \in TimeVals
      BY TimesAreTimeVals
<1>3. IsBody(b) /\ b.is = "Time"
      BY <1>2 DEF IsBody
<1>4. IsMessage(m) /\ m.body = b /\ m.id = id /\ m.sent_tv = t
      BY <1>2, <1>3, Written
<1>5. Up(m)
      BY <1>1
<1> HIDE DEF m, b
<1>6. FlowInv' /\ honest /\ IsSeq(up) /\ up' = Append(up, Packet(m, 0))
      BY <1>3, <1>4, <1>5, UpFlow DEF ExchangeInv
<1>7. GotInv' /\ Echoed'
      BY <1>5, NothingRead DEF Up
<1>8. TurnsInv'
  <2>1. TurnsInv /\ UNCHANGED <<channel, down>>
        BY <1>5, <1>6 DEF ExchangeInv, Up
  <2>2. /\ IsSeq(requests') /\ Len(requests) \in Nat /\ Len(requests') = Len(requests) + 1
        /\ \A k \in 1 .. Len(requests) : requests'[k] = requests[k]
        /\ requests'[Len(requests) + 1] = [id |-> id, sent_tv |-> t]
        BY <1>1, <2>1, QueueAppend DEF TurnsInv, Queues
  <2>3. /\ Len(heardAt) \in Nat /\ Len(writtenAt) \in Nat /\ Len(channel) \in Nat
        /\ Len(heardAt) = Len(writtenAt) + Len(channel) /\ Len(heardAt) <= Len(requests)
        BY <2>1, QueueAppend DEF TurnsInv, Queues
  <2>4. Queues'
        BY <1>1, <2>1, <2>2, <2>3 DEF TurnsInv, Queues
  <2>5. Answered'
    <3>1. PICK rank :
             /\ Ranks(rank, down, Len(writtenAt))
             /\ \A k \in 1 .. Len(writtenAt) : Answers(down[rank[k]].meant, k)
          BY <2>1 DEF TurnsInv, Answered
    <3>2. ASSUME NEW k \in 1 .. Len(writtenAt) PROVE Answers(down[rank[k]].meant, k)'
      <4>1. requests'[k] = requests[k]
            BY <2>2, <2>3
      <4>2. UNCHANGED <<rank, k>>
            OBVIOUS
      <4> QED BY <1>1, <2>1, <3>1, <4>1 DEF Answers
    <3> QED BY <1>1, <2>1, <3>1, <3>2 DEF Answered
  <2>6. Held'
    <3> SUFFICES ASSUME NEW k \in 1 .. Len(channel)
                 PROVE  LET n == Len(writtenAt) + k
                        IN  /\ channel[k].refers_to = requests'[n].id
                            /\ channel[k].client_sent = requests'[n].sent_tv
                            /\ channel[k].received = heardAt[n]
        BY <1>1, <2>1 DEF Held
    <3>1. requests'[Len(writtenAt) + k] = requests[Len(writtenAt) + k]
          BY <2>2, <2>3
    <3> QED BY <2>1, <3>1 DEF TurnsInv, Held
  <2>7. Asked'
    <3> DEFINE n == Len(requests) - Len(heardAt)
    <3>1. PICK rank :
             /\ Ranks(rank, up, n)
             /\ \A k \in 1 .. n : Asks(up[rank[k]].meant, Len(heardAt) + k)
          BY <2>1 DEF TurnsInv, Asked
    <3>2. n \in Nat /\ Len(requests') - Len(heardAt') = n + 1
          BY <1>1, <2>2, <2>3
    <3> HIDE DEF n
    <3> DEFINE r == [k \in 1 .. n + 1 |-> IF k <= n THEN rank[k] ELSE Len(up) + 1]
    <3>3. Ranks(r, up', n + 1)
          BY <1>3, <1>4, <1>6, <3>1, <3>2, PacketFields, RankAppendTime
    <3>4. ASSUME NEW k \in 1 .. n + 1
          PROVE  /\ up'[r[k]].meant.id = requests'[Len(heardAt) + k].id
                 /\ up'[r[k]].meant.sent_tv = requests'[Len(heardAt) + k].sent_tv
      <4>1. CASE k = n + 1
        <5>1. r[k] = Len(up) + 1 /\ up'[Len(up) + 1] = Packet(m, 0)
              BY <1>6, <3>2, <4>1, QueueAppend
        <5>2. Len(heardAt) + k = Len(requests) + 1
              BY <2>2, <2>3, <4>1 DEF n
        <5> QED BY <1>4, <2>2, <5>1, <5>2, PacketFields
      <4>2. CASE k \in 1 .. n
        <5>1. r[k] = rank[k] /\ rank[k] \in 1 .. Len(up)
              BY <3>1, <3>2, <4>2 DEF Ranks
        <5>2. up'[r[k]] = up[rank[k]]
              BY <1>6, <5>1, QueueAppend
        <5>3. Len(heardAt) + k \in 1 .. Len(requests)
              BY <2>2, <2>3, <4>2 DEF n
        <5>4. Asks(up[rank[k]].meant, Len(heardAt) + k)
              BY <3>1, <4>2
        <5> QED BY <2>2, <5>2, <5>3, <5>4 DEF Asks
      <4> QED BY <3>2, <4>1, <4>2
    <3> HIDE DEF r
    <3> QED BY <1>1, <3>2, <3>3, <3>4 DEF Asked, Asks
  <2> QED BY <2>4, <2>5, <2>6, <2>7 DEF TurnsInv
<1> QED BY <1>6, <1>7, <1>8 DEF ExchangeInv

\* The oldest request the server holds is answered.
LEMMA AnswerTurns ==
    ASSUME FlowInv, TurnsInv, honest, channel # << >>, channel' = Tail(channel),
           NEW id, NEW now \in TIMES, Down(Reply(Head(channel), id, now), 0),
           writtenAt' = Append(writtenAt, now), UNCHANGED <<requests, heardAt>>
    PROVE  IsMessage(Reply(Head(channel), id, now)) /\ TurnsInv'
<1> DEFINE w == Len(writtenAt)
           m == Reply(Head(channel), id, now)
<1>1. /\ w \in Nat /\ Len(channel) \in Nat \ {0} /\ Len(heardAt) \in Nat /\ Len(requests) \in Nat
      /\ Len(heardAt) = w + Len(channel) /\ Len(heardAt) <= Len(requests)
      BY QueueAppend, QueueTail DEF TurnsInv, Queues
<1>2. /\ IsSeq(channel') /\ Len(channel') = Len(channel) - 1 /\ Head(channel) = channel[1]
      /\ \A k \in 1 .. Len(channel) - 1 : channel'[k] = channel[k + 1]
      BY QueueTail DEF TurnsInv, Queues
<1>3. /\ IsSeq(writtenAt') /\ Len(writtenAt') = w + 1
      /\ \A k \in 1 .. w : writtenAt'[k] = writtenAt[k]
      /\ writtenAt'[w + 1] = now
      BY QueueAppend DEF TurnsInv, Queues
<1>4. /\ Head(channel).refers_to = requests[w + 1].id
      /\ Head(channel).client_sent = requests[w + 1].sent_tv
      /\ Head(channel).received = heardAt[w + 1]
      BY <1>1, <1>2 DEF TurnsInv, Held
<1>5. requests[w + 1].sent_tv \in TIMES /\ heardAt[w + 1] \in TIMES
      BY <1>1 DEF TurnsInv, Queues
<1>6. /\ IsMessage(m) /\ m.body.is = "Time"
      /\ m.refers_to = requests[w + 1].id /\ m.body.latency = requests[w + 1].sent_tv
      /\ m.received_tv = heardAt[w + 1] /\ m.sent_tv = now
  <2> DEFINE t == Head(channel).client_sent
             b == [is |-> "Time", latency |-> t]
  <2>1. t \in TimeVals /\ Head(channel).received \in TimeVals /\ now \in TimeVals
        BY <1>4, <1>5, TimesAreTimeVals
  <2>2. IsBody(b) /\ b.is = "Time" /\ b.latency = t
        BY <2>1 DEF IsBody
  <2>3. m = Message(id, Head(channel).refers_to, now, Head(channel).received, b)
        BY DEF Reply
  <2> HIDE DEF b, m
  <2> QED BY <1>4, <2>1, <2>2, <2>3, Written
<1>7. IsSeq(down) /\ down' = Append(down, Packet(m, 0)) /\ UNCHANGED up
      BY DEF FlowInv, Down
<1> HIDE DEF m
<1>8. Queues'
  <2>1. /\ IsSeq(requests) /\ IsSeq(heardAt)
        /\ \A k \in 1 .. Len(requests) : requests[k].sent_tv \in TIMES
        /\ \A k \in 1 .. Len(heardAt) : heardAt[k] \in TIMES
        BY DEF TurnsInv, Queues
  <2>2. Len(heardAt) = Len(writtenAt') + Len(channel')
        BY <1>1, <1>2, <1>3
  <2> QED BY <1>1, <1>2, <1>3, <2>1, <2>2 DEF Queues
<1>9. Held'
  <2> SUFFICES ASSUME NEW k \in 1 .. Len(channel')
               PROVE  LET n == w + 1 + k
                      IN  /\ channel'[k].refers_to = requests[n].id
                          /\ channel'[k].client_sent = requests[n].sent_tv
                          /\ channel'[k].received = heardAt[n]
      BY <1>3 DEF Held
  <2>1. channel'[k] = channel[k + 1] /\ k + 1 \in 1 .. Len(channel) /\ w + (k + 1) = w + 1 + k
        BY <1>1, <1>2
  <2> QED BY <2>1 DEF TurnsInv, Held
<1>10. Answered'
  <2>1. PICK rank :
           /\ Ranks(rank, down, w)
           /\ \A k \in 1 .. w : Answers(down[rank[k]].meant, k)
        BY DEF TurnsInv, Answered
  <2> DEFINE r == [k \in 1 .. w + 1 |-> IF k <= w THEN rank[k] ELSE Len(down) + 1]
  <2>2. Ranks(r, down', w + 1)
        BY <1>1, <1>6, <1>7, <2>1, PacketFields, RankAppendTime
  <2>3. ASSUME NEW k \in 1 .. w + 1
        PROVE  /\ down'[r[k]].meant.refers_to = requests[k].id
               /\ down'[r[k]].meant.body.latency = requests[k].sent_tv
               /\ down'[r[k]].meant.received_tv = heardAt[k]
               /\ down'[r[k]].meant.sent_tv = writtenAt'[k]
    <3>1. CASE k = w + 1
      <4>1. r[k] = Len(down) + 1 /\ down'[Len(down) + 1] = Packet(m, 0)
            BY <1>1, <1>7, <3>1, QueueAppend
      <4> QED BY <1>3, <1>6, <3>1, <4>1, PacketFields
    <3>2. CASE k \in 1 .. w
      <4>1. r[k] = rank[k] /\ rank[k] \in 1 .. Len(down)
            BY <1>1, <2>1, <3>2 DEF Ranks
      <4>2. down'[r[k]] = down[rank[k]]
            BY <1>7, <4>1, QueueAppend
      <4> QED BY <1>3, <2>1, <3>2, <4>2 DEF Answers
    <3> QED BY <1>1, <3>1, <3>2
  <2> HIDE DEF r
  <2> QED BY <1>3, <2>2, <2>3 DEF Answered, Answers
<1>11. Asked'
       BY <1>7 DEF TurnsInv, Asked, Asks
<1> QED BY <1>6, <1>8, <1>9, <1>10, <1>11 DEF TurnsInv, m

LEMMA AnswerKeeps == ExchangeInv /\ AnswerRequest => ExchangeInv'
<1> SUFFICES ASSUME ExchangeInv, AnswerRequest PROVE ExchangeInv'
    OBVIOUS
<1>1. PICK id \in IDS, now \in TIMES :
         /\ Down(Reply(Head(channel), id, now), 0)
         /\ writtenAt' = IF honest THEN Append(writtenAt, now) ELSE writtenAt
      BY DEF AnswerRequest
<1>2. channel # << >> /\ channel' = Tail(channel) /\ UNCHANGED <<requests, heardAt, closed>>
      BY DEF AnswerRequest
<1> DEFINE m == Reply(Head(channel), id, now)
<1>3. DownPacket(Packet(m, 0))
  <2>1. m = Message(id, Head(channel).refers_to, now, Head(channel).received,
                    [is |-> "Time", latency |-> Head(channel).client_sent])
        BY DEF Reply
  <2>2. m.body.is = "Time"
        BY <2>1 DEF Message
  <2>3. \E i, refers, s, r, t : m = Message(i, refers, s, r, [is |-> "Time", latency |-> t])
        BY <2>1, Zenon
  <2>4. Packet(m, 0).bytes = AsBuf(m) /\ Packet(m, 0).meant = m
        BY PacketFields
  <2> HIDE DEF m
  <2> QED BY <2>2, <2>3, <2>4 DEF DownPacket, IsTime
<1>4. honest => IsMessage(m) /\ TurnsInv'
      BY <1>1, <1>2, AnswerTurns DEF ExchangeInv
<1>5. FlowInv'
  <2> HIDE DEF m
  <2>1. Down(m, 0)
        BY <1>1 DEF m
  <2> QED BY <1>3, <1>4, <2>1, DownFlow DEF ExchangeInv
<1>6. GotInv' /\ Echoed' /\ honest' = honest
      BY <1>1, NothingRead DEF Down
<1> QED BY <1>4, <1>5, <1>6 DEF ExchangeInv

\* Something else goes down, and no reply changes its turn.
LEMMA OtherKeeps ==
    ASSUME ExchangeInv, NEW m, NEW d, SendOther(m, d), IsMessage(m),
           m.body.is \notin {"Time", "Hello"},
           m.body.is = "ServerSettings" => m.body.json.volume = Percent(d) /\ d \in DIALS
    PROVE  ExchangeInv'
<1>1. Down(m, d) /\ UNCHANGED <<channel, exchangeVars>>
      BY DEF SendOther
<1>2. DownPacket(Packet(m, d)) /\ ~IsTime(Packet(m, d))
      BY PacketFields DEF DownPacket
<1>3. FlowInv' /\ IsSeq(down) /\ down' = Append(down, Packet(m, d))
      BY <1>1, <1>2, DownFlow DEF ExchangeInv
<1>4. GotInv' /\ Echoed' /\ UNCHANGED <<up, honest>>
      BY <1>1, NothingRead DEF Down
<1>5. TurnsInv => TurnsInv'
  <2> SUFFICES ASSUME TurnsInv PROVE TurnsInv'
      OBVIOUS
  <2>1. PICK rank :
           /\ Ranks(rank, down, Len(writtenAt))
           /\ \A k \in 1 .. Len(writtenAt) : Answers(down[rank[k]].meant, k)
        BY DEF TurnsInv, Answered
  <2>2. Len(writtenAt) \in Nat
        BY QueueAppend DEF TurnsInv, Queues
  <2>3. Ranks(rank, down', Len(writtenAt))
        BY <1>2, <1>3, <2>1, <2>2, RankAppendOther
  <2>4. \A k \in 1 .. Len(writtenAt) : down'[rank[k]] = down[rank[k]]
        BY <1>3, <2>1, QueueAppend DEF Ranks
  <2>5. Answered'
        BY <1>1, <2>1, <2>3, <2>4 DEF Answered, Answers, exchangeVars
  <2> QED BY <1>1, <1>4, <2>5 DEF TurnsInv, Queues, Held, Asked, Asks, exchangeVars
<1> QED BY <1>3, <1>4, <1>5 DEF ExchangeInv

LEMMA SettingsKeeps == ExchangeInv /\ SendSettings => ExchangeInv'
<1> SUFFICES ASSUME ExchangeInv, SendSettings PROVE ExchangeInv'
    OBVIOUS
<1>1. PICK id \in IDS, now \in TIMES, v \in DIALS :
         SendOther(Message(id, 0, now, now,
                           [is |-> "ServerSettings", json |-> [volume |-> Percent(v)]]), v)
      BY DEF SendSettings
<1> DEFINE b == [is |-> "ServerSettings", json |-> [volume |-> Percent(v)]]
           m == Message(id, 0, now, now, b)
<1>2. now \in TimeVals
      BY TimesAreTimeVals
<1>3. IsBody(b) /\ b.is = "ServerSettings" /\ b.json.volume = Percent(v)
      BY DEF IsBody
<1>4. IsMessage(m) /\ m.body = b
      BY <1>2, <1>3, Written
<1>5. SendOther(m, v)
      BY <1>1
<1> HIDE DEF m, b
<1> QED BY <1>3, <1>4, <1>5, OtherKeeps

LEMMA CodecKeeps == ExchangeInv /\ SendCodec => ExchangeInv'
<1> SUFFICES ASSUME ExchangeInv, SendCodec PROVE ExchangeInv'
    OBVIOUS
<1>1. PICK id \in IDS, now \in TIMES, f \in FORMATS :
         SendOther(Message(id, 0, now, now,
                           [is |-> "CodecHeader", codec |-> f.codec, format |-> f.format]), 0)
      BY DEF SendCodec
<1> DEFINE b == [is |-> "CodecHeader", codec |-> f.codec, format |-> f.format]
           m == Message(id, 0, now, now, b)
<1>2. now \in TimeVals
      BY TimesAreTimeVals
<1>3. b.is = "CodecHeader" /\ CodecBody(b)
      BY FormatsAssumption DEF FormatsAssumption, CodecBody
<1>4. IsBody(b)
      BY <1>3 DEF IsBody
<1>5. IsMessage(m) /\ m.body = b
      BY <1>2, <1>4, Written
<1>6. SendOther(m, 0)
      BY <1>1
<1> HIDE DEF m, b
<1> QED BY <1>3, <1>5, <1>6, OtherKeeps

LEMMA ChunkKeeps == ExchangeInv /\ SendChunk => ExchangeInv'
<1> SUFFICES ASSUME ExchangeInv, SendChunk PROVE ExchangeInv'
    OBVIOUS
<1>1. PICK id \in IDS, now \in TIMES, t \in TIMES, d \in DATA :
         SendOther(Message(id, 0, now, now,
                           [is |-> "WireChunk", timestamp |-> t, data |-> d]), 0)
      BY DEF SendChunk
<1> DEFINE b == [is |-> "WireChunk", timestamp |-> t, data |-> d]
           m == Message(id, 0, now, now, b)
<1>2. now \in TimeVals /\ t \in TimeVals
      BY TimesAreTimeVals
<1>3. IsBody(b) /\ b.is = "WireChunk"
      BY <1>2 DEF IsBody
<1>4. IsMessage(m) /\ m.body = b
      BY <1>2, <1>3, Written
<1>5. SendOther(m, 0)
      BY <1>1
<1> HIDE DEF m, b
<1> QED BY <1>3, <1>4, <1>5, OtherKeeps

\* Where the replies and the requests are after a step.
LEMMA AnsweredNext ==
    ASSUME NEW w, Len(writtenAt') = w, NEW rank, Ranks(rank, down', w),
           \A k \in 1 .. w :
              /\ down'[rank[k]].meant.refers_to = requests'[k].id
              /\ down'[rank[k]].meant.body.latency = requests'[k].sent_tv
              /\ down'[rank[k]].meant.received_tv = heardAt'[k]
              /\ down'[rank[k]].meant.sent_tv = writtenAt'[k]
    PROVE  Answered'
BY DEF Answered, Answers

LEMMA AskedNext ==
    ASSUME NEW h, Len(heardAt') = h, NEW n, Len(requests') - h = n,
           NEW rank, Ranks(rank, up', n),
           \A k \in 1 .. n :
              /\ up'[rank[k]].meant.id = requests'[h + k].id
              /\ up'[rank[k]].meant.sent_tv = requests'[h + k].sent_tv
    PROVE  Asked'
BY DEF Asked, Asks

-----------------------------------------------------------------------------
\* Reading.

\* The server reads a request, the oldest it has not read.
LEMMA HearTurns ==
    ASSUME FlowInv, TurnsInv, honest, up # << >>, IsTime(up[1]), up' = Tail(up),
           NEW now \in TIMES, channel' = Append(channel, TimeReply(up[1].meant, now)),
           heardAt' = Append(heardAt, now), UNCHANGED <<down, requests, writtenAt>>
    PROVE  TurnsInv'
<1> DEFINE w == Len(writtenAt)
           h == Len(heardAt)
           n == Len(requests) - h
<1>1. /\ w \in Nat /\ h \in Nat /\ Len(channel) \in Nat /\ Len(requests) \in Nat /\ n \in Nat
      /\ h = w + Len(channel)
      BY QueueAppend DEF TurnsInv, Queues
<1>2. /\ IsSeq(heardAt') /\ Len(heardAt') = h + 1 /\ heardAt'[h + 1] = now
      /\ \A k \in 1 .. h : heardAt'[k] = heardAt[k]
      BY QueueAppend DEF TurnsInv, Queues
<1>3. /\ IsSeq(channel') /\ Len(channel') = Len(channel) + 1
      /\ \A k \in 1 .. Len(channel) : channel'[k] = channel[k]
      /\ channel'[Len(channel) + 1] = TimeReply(up[1].meant, now)
      BY QueueAppend DEF TurnsInv, Queues
<1>4. PICK rank :
         /\ Ranks(rank, up, n)
         /\ \A k \in 1 .. n : Asks(up[rank[k]].meant, h + k)
      BY DEF TurnsInv, Asked
<1> DEFINE r == [k \in 1 .. n - 1 |-> rank[k + 1] - 1]
<1>5. IsSeq(up)
      BY DEF FlowInv
<1> HIDE DEF n
<1>6. n > 0 /\ rank[1] = 1 /\ Ranks(r, up', n - 1)
      BY <1>1, <1>4, <1>5, RankTailTime
<1>7. up[1].meant.id = requests[h + 1].id /\ up[1].meant.sent_tv = requests[h + 1].sent_tv
  <2>1. 1 \in 1 .. n
        BY <1>1, <1>6
  <2>2. Asks(up[1].meant, h + 1)
        BY <1>4, <1>6, <2>1
  <2> QED BY <2>2 DEF Asks
<1>8. Queues'
  <2>1. /\ IsSeq(requests) /\ IsSeq(writtenAt)
        /\ \A k \in 1 .. Len(requests) : requests[k].sent_tv \in TIMES
        /\ \A k \in 1 .. h : heardAt[k] \in TIMES
        BY DEF TurnsInv, Queues
  <2>2. Len(heardAt') = Len(writtenAt) + Len(channel') /\ Len(heardAt') <= Len(requests)
        BY <1>1, <1>2, <1>3, <1>6 DEF n
  <2>3. \A k \in 1 .. h + 1 : heardAt'[k] \in TIMES
        BY <1>1, <1>2, <2>1
  <2> QED BY <1>2, <1>3, <2>1, <2>2, <2>3 DEF Queues
<1>9. Held'
  <2> SUFFICES ASSUME NEW k \in 1 .. Len(channel) + 1
               PROVE  /\ channel'[k].refers_to = requests[w + k].id
                      /\ channel'[k].client_sent = requests[w + k].sent_tv
                      /\ channel'[k].received = heardAt'[w + k]
      BY <1>3 DEF Held
  <2>1. CASE k = Len(channel) + 1
    <3>1. w + k = h + 1
          BY <1>1, <2>1
    <3> QED BY <1>2, <1>3, <1>7, <2>1, <3>1 DEF TimeReply
  <2>2. CASE k \in 1 .. Len(channel)
    <3>1. w + k \in 1 .. h
          BY <1>1, <2>2
    <3>2. heardAt'[w + k] = heardAt[w + k] /\ channel'[k] = channel[k]
          BY <1>2, <1>3, <2>2, <3>1
    <3>3. /\ channel[k].refers_to = requests[w + k].id
          /\ channel[k].client_sent = requests[w + k].sent_tv
          /\ channel[k].received = heardAt[w + k]
          BY <2>2 DEF TurnsInv, Held
    <3> QED BY <3>2, <3>3
  <2>3. k = Len(channel) + 1 \/ k \in 1 .. Len(channel)
        BY <1>1
  <2> QED BY <2>1, <2>2, <2>3
<1>10. Answered'
  <2>1. PICK q :
           /\ Ranks(q, down, w)
           /\ \A k \in 1 .. w : Answers(down[q[k]].meant, k)
        BY DEF TurnsInv, Answered
  <2>2. \A k \in 1 .. w : heardAt'[k] = heardAt[k]
        BY <1>1, <1>2
  <2>3. Len(writtenAt') = w /\ Ranks(q, down', w)
        BY <2>1
  <2>4. ASSUME NEW k \in 1 .. w
        PROVE  /\ down'[q[k]].meant.refers_to = requests'[k].id
               /\ down'[q[k]].meant.body.latency = requests'[k].sent_tv
               /\ down'[q[k]].meant.received_tv = heardAt'[k]
               /\ down'[q[k]].meant.sent_tv = writtenAt'[k]
        BY <2>1, <2>2 DEF Answers
  <2> HIDE DEF w
  <2> QED BY <2>3, <2>4, AnsweredNext
<1>11. Asked'
  <2>1. ASSUME NEW k \in 1 .. n - 1
        PROVE  /\ up'[r[k]].meant.id = requests[h + 1 + k].id
               /\ up'[r[k]].meant.sent_tv = requests[h + 1 + k].sent_tv
    <3>1. k + 1 \in 1 .. n /\ 1 \in 1 .. n /\ 1 < k + 1 /\ h + (k + 1) = h + 1 + k
          BY <1>1, <1>6
    <3>2. rank[k + 1] \in 1 .. Len(up) /\ rank[1] < rank[k + 1]
          BY <1>4, <3>1 DEF Ranks
    <3>3. Len(up) \in Nat /\ \A i \in 1 .. Len(up) - 1 : up'[i] = up[i + 1]
          BY <1>5, QueueTail
    <3>4. up'[rank[k + 1] - 1] = up[rank[k + 1]]
      <4>1. 1 < rank[k + 1]
            BY <1>6, <3>2
      <4>2. rank[k + 1] - 1 \in 1 .. Len(up) - 1 /\ (rank[k + 1] - 1) + 1 = rank[k + 1]
            BY <3>2, <3>3, <4>1
      <4> QED BY <3>3, <4>2
    <3>5. r[k] = rank[k + 1] - 1
          OBVIOUS
    <3>6. Asks(up[rank[k + 1]].meant, h + 1 + k)
          BY <1>4, <3>1
    <3> QED BY <3>4, <3>5, <3>6 DEF Asks
  <2>2. Len(requests') - (h + 1) = n - 1
        BY <1>1 DEF n
  <2>3. Len(heardAt') = h + 1 /\ Ranks(r, up', n - 1)
        BY <1>2, <1>6
  <2> HIDE DEF r, h
  <2> QED BY <2>1, <2>2, <2>3, AskedNext
<1> QED BY <1>8, <1>9, <1>10, <1>11 DEF TurnsInv

\* It reads something else, and no request changes its turn.
LEMMA HearOther ==
    ASSUME FlowInv, TurnsInv, honest, up # << >>, ~IsTime(up[1]), up' = Tail(up),
           UNCHANGED <<channel, heardAt, down, requests, writtenAt>>
    PROVE  TurnsInv'
<1> DEFINE n == Len(requests) - Len(heardAt)
<1>1. PICK rank :
         /\ Ranks(rank, up, n)
         /\ \A k \in 1 .. n : Asks(up[rank[k]].meant, Len(heardAt) + k)
      BY DEF TurnsInv, Asked
<1>2. n \in Nat
      BY QueueAppend DEF TurnsInv, Queues
<1>3. IsSeq(up)
      BY DEF FlowInv
<1> HIDE DEF n
<1> DEFINE r == [k \in 1 .. n |-> rank[k] - 1]
<1>4. Ranks(r, up', n)
      BY <1>1, <1>2, <1>3, RankTailOther
<1>5. ASSUME NEW k \in 1 .. n PROVE up'[r[k]] = up[rank[k]]
  <2>1. Len(up) \in Nat /\ \A i \in 1 .. Len(up) - 1 : up'[i] = up[i + 1]
        BY <1>3, QueueTail
  <2>2. rank[k] \in 1 .. Len(up) /\ rank[k] # 1
        BY <1>1, <2>1 DEF Ranks
  <2>3. rank[k] - 1 \in 1 .. Len(up) - 1 /\ (rank[k] - 1) + 1 = rank[k]
        BY <2>1, <2>2
  <2>4. r[k] = rank[k] - 1
        OBVIOUS
  <2> HIDE DEF r
  <2> QED BY <2>1, <2>3, <2>4
<1>6. ASSUME NEW k \in 1 .. n
      PROVE  /\ up'[r[k]].meant.id = requests'[Len(heardAt) + k].id
             /\ up'[r[k]].meant.sent_tv = requests'[Len(heardAt) + k].sent_tv
      BY <1>1, <1>5 DEF Asks
<1>7. Len(heardAt') = Len(heardAt) /\ Len(requests') - Len(heardAt) = n
      BY DEF n
<1> HIDE DEF r
<1>8. Asked'
      BY <1>4, <1>6, <1>7, AskedNext
<1> QED BY <1>8 DEF TurnsInv, Queues, Answered, Answers, Held

LEMMA ServerReadsKeeps == ExchangeInv /\ ServerReads => ExchangeInv'
<1> SUFFICES ASSUME ExchangeInv, ServerReads PROVE ExchangeInv'
    OBVIOUS
<1> DEFINE bytes   == Head(up).bytes
           message == Heard(bytes, DecodeC(MType(bytes), Paid(bytes)))
<1>1. /\ up # << >> /\ up' = Tail(up) /\ got' = Got("server", message, Head(up))
      /\ UNCHANGED <<down, honest, requests, writtenAt, closed>>
      BY DEF ServerReads
<1>2. /\ message.body.is = "Time" =>
            \E now \in TIMES :
               /\ channel' = Append(channel, TimeReply(message, now))
               /\ heardAt' = IF honest THEN Append(heardAt, now) ELSE heardAt
      /\ message.body.is # "Time" => UNCHANGED <<channel, heardAt>>
      BY DEF ServerReads
<1>3. got'.by = "server" /\ got'.message = message /\ got'.packet = Head(up)
      BY <1>1 DEF Got
<1>4. Echoed'
      BY <1>3 DEF Echoed
<1>5. CASE ~honest
      BY <1>1, <1>3, <1>5 DEF ExchangeInv, FlowInv, GotInv
<1>6. CASE honest
  <2>1. IsSeq(up) /\ \A i \in 1 .. Len(up) : UpPacket(up[i])
        BY <1>6 DEF ExchangeInv, FlowInv
  <2>2. /\ IsSeq(up') /\ Len(up) \in Nat \ {0} /\ Len(up') = Len(up) - 1 /\ Head(up) = up[1]
        /\ \A i \in 1 .. Len(up) - 1 : up'[i] = up[i + 1]
        BY <1>1, <2>1, QueueTail
  <2>3. UpPacket(up[1])
        BY <2>1, <2>2
  <2>4. message = up[1].meant
        BY <2>2, <2>3, MessageBack DEF UpPacket
  <2>5. GotInv'
        BY <1>3, <2>2, <2>4 DEF GotInv
  <2>6. FlowInv'
    <3>1. \A i \in 1 .. Len(up') : UpPacket(up'[i])
          BY <2>1, <2>2
    <3> QED BY <1>1, <2>2, <3>1 DEF ExchangeInv, FlowInv
  <2>7. TurnsInv'
    <3> HIDE DEF message
    <3>1. CASE IsTime(up[1])
      <4>1. PICK now \in TIMES : /\ channel' = Append(channel, TimeReply(up[1].meant, now))
                                 /\ heardAt' = Append(heardAt, now)
            BY <1>2, <1>6, <2>4, <3>1 DEF IsTime
      <4> QED BY <1>1, <1>6, <3>1, <4>1, HearTurns DEF ExchangeInv
    <3>2. CASE ~IsTime(up[1])
      <4>1. UNCHANGED <<channel, heardAt>>
            BY <1>2, <2>4, <3>2 DEF IsTime
      <4> QED BY <1>1, <1>6, <3>2, <4>1, HearOther DEF ExchangeInv
    <3> QED BY <3>1, <3>2
  <2> QED BY <1>4, <2>5, <2>6, <2>7 DEF ExchangeInv
<1> QED BY <1>5, <1>6

\* Whatever a reply holds, it is not taken for something else.
LEMMA ReplyHeard ==
    ASSUME NEW p, DownPacket(p), IsTime(p)
    PROVE  Heard(p.bytes, Decode(MType(p.bytes), Paid(p.bytes))).body.is # "ServerSettings"
<1>1. PICK id, refers, s, r, t :
         p.meant = Message(id, refers, s, r, [is |-> "Time", latency |-> t])
      BY DEF DownPacket
<1> DEFINE m == p.meant
           buf == AsBuf(m)
           size == Len(Payload(m.body))
           head == Field(Number[m.body.is], 2) \o Field(m.id, 2) \o Field(m.refers_to, 2)
                       \o TimeBytes(m.sent_tv) \o TimeBytes(m.received_tv) \o Field(size, 4)
<1>2. m.body.is = "Time" /\ m.body.latency = t
      BY <1>1 DEF Message
<1>3. Payload(m.body) = TimeBytes(t)
      BY <1>2, PayloadCases
<1>4. IsBytes(Payload(m.body))
      BY <1>3, TimeAtBytes
<1>5. IsBytes(head) /\ At(head, 0, Number[m.body.is], 2)
      BY HeaderLayout, Zenon
<1>6. buf = head \o Payload(m.body)
      BY Zenon DEF AsBuf
<1> HIDE DEF head, buf
<1>7. At(buf, 0, 4, 2)
      BY <1>2, <1>4, <1>5, <1>6, Longer, Numbers
<1>8. MType(buf) = 4
      BY <1>7, ReadAt DEF MType
<1>9. p.bytes = buf
      BY DEF DownPacket, buf
<1>10. Decode(MType(p.bytes), Paid(p.bytes)) = TimeFrom(Paid(p.bytes))
      BY <1>8, <1>9, DecodeCases
<1>11. TimeFrom(Paid(p.bytes)).is \in {"Time", "refused"}
      BY DEF TimeFrom, Refused
<1> DEFINE d == Decode(MType(p.bytes), Paid(p.bytes))
           g == Heard(p.bytes, d)
<1>12. \/ g.body = Refused
       \/ g.body = [is |-> "waits", size |-> Size(p.bytes)]
       \/ g.body = d
      BY HeardCases, Zenon
<1>13. d.is \in {"Time", "refused"}
      BY <1>10, <1>11
<1> HIDE DEF d, g
<1>14. g.body.is # "ServerSettings"
      BY <1>12, <1>13 DEF Refused
<1> QED BY <1>14 DEF d, g

\* The client reads a reply: to its oldest request that is not answered.
LEMMA ReplyTurns ==
    ASSUME FlowInv, TurnsInv, honest, down # << >>, IsTime(down[1]), down' = Tail(down),
           requests' = Tail(requests), heardAt' = Tail(heardAt), writtenAt' = Tail(writtenAt),
           UNCHANGED <<up, channel>>
    PROVE  TurnsInv' /\ Answers(down[1].meant, 1)
           /\ Head(requests) = requests[1] /\ Head(heardAt) = heardAt[1]
           /\ Head(writtenAt) = writtenAt[1]
<1> DEFINE w == Len(writtenAt)
           h == Len(heardAt)
           n == Len(requests) - h
<1>1. /\ w \in Nat /\ h \in Nat /\ Len(channel) \in Nat /\ Len(requests) \in Nat
      /\ h = w + Len(channel) /\ h <= Len(requests)
      BY QueueAppend DEF TurnsInv, Queues
<1>2. PICK rank :
         /\ Ranks(rank, down, w)
         /\ \A k \in 1 .. w : Answers(down[rank[k]].meant, k)
      BY DEF TurnsInv, Answered
<1>3. IsSeq(down)
      BY DEF FlowInv
<1> HIDE DEF w
<1> DEFINE r == [k \in 1 .. w - 1 |-> rank[k + 1] - 1]
<1>4. w > 0 /\ rank[1] = 1 /\ Ranks(r, down', w - 1)
  <2>1. w \in Nat
        BY <1>1
  <2> QED BY <1>2, <1>3, <2>1, RankTailTime
<1>5. Answers(down[1].meant, 1)
      BY <1>1, <1>2, <1>4
<1>6. requests # << >> /\ heardAt # << >> /\ writtenAt # << >>
      BY <1>1, <1>4, EmptyQueue DEF w
<1>7. /\ IsSeq(requests') /\ Len(requests') = Len(requests) - 1 /\ Head(requests) = requests[1]
      /\ \A k \in 1 .. Len(requests) - 1 : requests'[k] = requests[k + 1]
      BY <1>6, QueueTail DEF TurnsInv, Queues
<1>8. /\ IsSeq(heardAt') /\ Len(heardAt') = h - 1 /\ Head(heardAt) = heardAt[1]
      /\ \A k \in 1 .. h - 1 : heardAt'[k] = heardAt[k + 1]
      BY <1>6, QueueTail DEF TurnsInv, Queues
<1>9. /\ IsSeq(writtenAt') /\ Len(writtenAt') = w - 1 /\ Head(writtenAt) = writtenAt[1]
      /\ \A k \in 1 .. w - 1 : writtenAt'[k] = writtenAt[k + 1]
      BY <1>6, QueueTail DEF TurnsInv, Queues, w
<1>10. Queues'
  <2>1. /\ IsSeq(channel)
        /\ \A k \in 1 .. Len(requests) : requests[k].sent_tv \in TIMES
        /\ \A k \in 1 .. h : heardAt[k] \in TIMES
        BY DEF TurnsInv, Queues
  <2>2. h - 1 = (w - 1) + Len(channel) /\ h - 1 <= Len(requests) - 1
        BY <1>1 DEF w
  <2>3. /\ \A k \in 1 .. Len(requests) - 1 : requests'[k].sent_tv \in TIMES
        /\ \A k \in 1 .. h - 1 : heardAt'[k] \in TIMES
        BY <1>1, <1>7, <1>8, <2>1
  <2> QED BY <1>7, <1>8, <1>9, <2>1, <2>2, <2>3 DEF Queues
<1>11. Held'
  <2> SUFFICES ASSUME NEW k \in 1 .. Len(channel)
               PROVE  /\ channel[k].refers_to = requests'[w - 1 + k].id
                      /\ channel[k].client_sent = requests'[w - 1 + k].sent_tv
                      /\ channel[k].received = heardAt'[w - 1 + k]
      BY <1>9 DEF Held
  <2>1. /\ w - 1 + k \in 1 .. h - 1 /\ w - 1 + k \in 1 .. Len(requests) - 1
        /\ (w - 1 + k) + 1 = w + k
        BY <1>1, <1>4 DEF w
  <2>2. requests'[w - 1 + k] = requests[w + k] /\ heardAt'[w - 1 + k] = heardAt[w + k]
        BY <1>7, <1>8, <2>1
  <2> QED BY <2>2 DEF TurnsInv, Held, w
<1>12. Answered'
  <2>1. ASSUME NEW k \in 1 .. w - 1
        PROVE  /\ down'[r[k]].meant.refers_to = requests'[k].id
               /\ down'[r[k]].meant.body.latency = requests'[k].sent_tv
               /\ down'[r[k]].meant.received_tv = heardAt'[k]
               /\ down'[r[k]].meant.sent_tv = writtenAt'[k]
    <3>1. k + 1 \in 1 .. w /\ 1 \in 1 .. w /\ 1 < k + 1
          BY <1>1, <1>4 DEF w
    <3>2. rank[k + 1] \in 1 .. Len(down) /\ rank[1] < rank[k + 1]
          BY <1>2, <3>1 DEF Ranks
    <3>3. Len(down) \in Nat /\ \A i \in 1 .. Len(down) - 1 : down'[i] = down[i + 1]
          BY <1>3, QueueTail
    <3>4. down'[rank[k + 1] - 1] = down[rank[k + 1]]
      <4>1. rank[k + 1] - 1 \in 1 .. Len(down) - 1 /\ (rank[k + 1] - 1) + 1 = rank[k + 1]
            BY <1>4, <3>2, <3>3
      <4> QED BY <3>3, <4>1
    <3>5. r[k] = rank[k + 1] - 1
          OBVIOUS
    <3>6. Answers(down[rank[k + 1]].meant, k + 1)
          BY <1>2, <3>1
    <3>7. /\ requests'[k] = requests[k + 1] /\ heardAt'[k] = heardAt[k + 1]
          /\ writtenAt'[k] = writtenAt[k + 1]
      <4>1. k \in 1 .. h - 1 /\ k \in 1 .. Len(requests) - 1
            BY <1>1 DEF w
      <4> QED BY <1>7, <1>8, <1>9, <4>1
    <3> QED BY <3>4, <3>5, <3>6, <3>7 DEF Answers
  <2>2. Len(writtenAt') = w - 1 /\ Ranks(r, down', w - 1)
        BY <1>4, <1>9
  <2> HIDE DEF r
  <2> QED BY <2>1, <2>2, AnsweredNext
<1>13. Asked'
  <2>1. PICK q :
           /\ Ranks(q, up, n)
           /\ \A k \in 1 .. n : Asks(up[q[k]].meant, h + k)
        BY DEF TurnsInv, Asked
  <2>2. Len(heardAt') = h - 1 /\ Len(requests') - (h - 1) = n
        BY <1>1, <1>7, <1>8
  <2>3. ASSUME NEW k \in 1 .. n
        PROVE  /\ up[q[k]].meant.id = requests'[h - 1 + k].id
               /\ up[q[k]].meant.sent_tv = requests'[h - 1 + k].sent_tv
    <3>1. h - 1 + k \in 1 .. Len(requests) - 1 /\ (h - 1 + k) + 1 = h + k
          BY <1>1, <1>4 DEF w
    <3>2. requests'[h - 1 + k] = requests[h + k]
          BY <1>7, <3>1
    <3> QED BY <2>1, <3>2 DEF Asks
  <2>4. /\ Ranks(q, up', n)
        /\ \A k \in 1 .. n : /\ up'[q[k]].meant.id = requests'[h - 1 + k].id
                              /\ up'[q[k]].meant.sent_tv = requests'[h - 1 + k].sent_tv
        BY <2>1, <2>3
  <2> HIDE DEF n, h
  <2> QED BY <2>2, <2>4, AskedNext
<1> QED BY <1>5, <1>7, <1>8, <1>9, <1>10, <1>11, <1>12, <1>13 DEF TurnsInv

\* It reads something else, and no reply changes its turn.
LEMMA ReadOther ==
    ASSUME FlowInv, TurnsInv, honest, down # << >>, ~IsTime(down[1]), down' = Tail(down),
           UNCHANGED <<up, channel, requests, heardAt, writtenAt>>
    PROVE  TurnsInv'
<1> DEFINE w == Len(writtenAt)
<1>1. PICK rank :
         /\ Ranks(rank, down, w)
         /\ \A k \in 1 .. w : Answers(down[rank[k]].meant, k)
      BY DEF TurnsInv, Answered
<1>2. w \in Nat
      BY QueueAppend DEF TurnsInv, Queues
<1>3. IsSeq(down)
      BY DEF FlowInv
<1> HIDE DEF w
<1> DEFINE r == [k \in 1 .. w |-> rank[k] - 1]
<1>4. Ranks(r, down', w)
      BY <1>1, <1>2, <1>3, RankTailOther
<1>5. ASSUME NEW k \in 1 .. w PROVE down'[r[k]] = down[rank[k]]
  <2>1. Len(down) \in Nat /\ \A i \in 1 .. Len(down) - 1 : down'[i] = down[i + 1]
        BY <1>3, QueueTail
  <2>2. rank[k] \in 1 .. Len(down) /\ rank[k] # 1
        BY <1>1, <2>1 DEF Ranks
  <2>3. rank[k] - 1 \in 1 .. Len(down) - 1 /\ (rank[k] - 1) + 1 = rank[k]
        BY <2>1, <2>2
  <2>4. r[k] = rank[k] - 1
        OBVIOUS
  <2> HIDE DEF r
  <2> QED BY <2>1, <2>3, <2>4
<1>6. ASSUME NEW k \in 1 .. w
      PROVE  /\ down'[r[k]].meant.refers_to = requests'[k].id
             /\ down'[r[k]].meant.body.latency = requests'[k].sent_tv
             /\ down'[r[k]].meant.received_tv = heardAt'[k]
             /\ down'[r[k]].meant.sent_tv = writtenAt'[k]
      BY <1>1, <1>5 DEF Answers
<1>7. Len(writtenAt') = w
      BY DEF w
<1> HIDE DEF r
<1>8. Answered'
      BY <1>4, <1>6, <1>7, AnsweredNext
<1> QED BY <1>8 DEF TurnsInv, Queues, Held, Asked, Asks

LEMMA ClientReadsKeeps == ExchangeInv /\ ClientReads => ExchangeInv'
<1> SUFFICES ASSUME ExchangeInv, ClientReads PROVE ExchangeInv'
    OBVIOUS
<1> DEFINE bytes   == Head(down).bytes
           message == Heard(bytes, Decode(MType(bytes), Paid(bytes)))
<1>1. /\ down # << >> /\ down' = Tail(down) /\ got' = Got("client", message, Head(down))
      /\ UNCHANGED <<up, channel, honest>>
      BY DEF ClientReads
<1>2. /\ honest /\ message.body.is = "Time" =>
            /\ closed' = [request |-> Head(requests), heard |-> Head(heardAt),
                          written |-> Head(writtenAt)]
            /\ requests' = Tail(requests) /\ heardAt' = Tail(heardAt)
            /\ writtenAt' = Tail(writtenAt)
      /\ ~(honest /\ message.body.is = "Time") => UNCHANGED exchangeVars
      BY DEF ClientReads
<1>3. got'.by = "client" /\ got'.message = message /\ got'.packet = Head(down)
      BY <1>1 DEF Got
<1>4. IsSeq(down) /\ \A i \in 1 .. Len(down) : DownPacket(down[i])
      BY DEF ExchangeInv, FlowInv
<1>5. /\ IsSeq(down') /\ Len(down) \in Nat \ {0} /\ Len(down') = Len(down) - 1
      /\ Head(down) = down[1]
      /\ \A i \in 1 .. Len(down) - 1 : down'[i] = down[i + 1]
      BY <1>1, <1>4, QueueTail
<1>6. DownPacket(down[1])
      BY <1>4, <1>5
<1>7. IsMessage(down[1].meant) => message = down[1].meant
      BY <1>5, <1>6, MessageBack DEF DownPacket
<1>8. honest => message = down[1].meant
      BY <1>5, <1>7 DEF ExchangeInv, FlowInv
<1>9. FlowInv'
  <2>1. \A i \in 1 .. Len(down') : DownPacket(down'[i])
        BY <1>4, <1>5
  <2>2. honest => \A i \in 1 .. Len(down') : IsMessage(down'[i].meant)
        BY <1>5 DEF ExchangeInv, FlowInv
  <2> QED BY <1>1, <1>5, <2>1, <2>2 DEF ExchangeInv, FlowInv
<1>10. IsTime(down[1]) => message.body.is # "ServerSettings"
       BY <1>5, <1>6, ReplyHeard
<1> HIDE DEF message
<1>11. GotInv'
  <2>1. ASSUME message.body.is = "ServerSettings"
        PROVE  message.body.json.volume = Percent(down[1].dial) /\ down[1].dial \in DIALS
    <3>1. ~IsTime(down[1])
          BY <1>10, <2>1
    <3>2. message = down[1].meant
          BY <1>6, <1>7, <3>1 DEF DownPacket
    <3> QED BY <1>6, <2>1, <3>2 DEF DownPacket
  <2> QED BY <1>1, <1>3, <1>5, <1>8, <2>1 DEF GotInv
<1>12. ASSUME honest PROVE TurnsInv' /\ Echoed'
  <2>1. CASE IsTime(down[1])
    <3>1. message.body.is = "Time"
          BY <1>8, <1>12, <2>1 DEF IsTime
    <3>2. /\ closed' = [request |-> Head(requests), heard |-> Head(heardAt),
                        written |-> Head(writtenAt)]
          /\ requests' = Tail(requests) /\ heardAt' = Tail(heardAt)
          /\ writtenAt' = Tail(writtenAt)
          BY <1>2, <1>12, <3>1
    <3>3. /\ TurnsInv' /\ Answers(down[1].meant, 1)
          /\ Head(requests) = requests[1] /\ Head(heardAt) = heardAt[1]
          /\ Head(writtenAt) = writtenAt[1]
          BY <1>1, <1>12, <2>1, <3>2, ReplyTurns DEF ExchangeInv
    <3>4. Echoed'
          BY <1>3, <1>8, <1>12, <3>2, <3>3 DEF Echoed, Answers
    <3> QED BY <3>3, <3>4
  <2>2. CASE ~IsTime(down[1])
    <3>1. message.body.is # "Time"
          BY <1>8, <1>12, <2>2 DEF IsTime
    <3>2. UNCHANGED exchangeVars
          BY <1>2, <3>1
    <3>3. TurnsInv'
          BY <1>1, <1>12, <2>2, <3>2, ReadOther DEF ExchangeInv, exchangeVars
    <3> QED BY <1>3, <3>1, <3>3 DEF Echoed
  <2> QED BY <2>1, <2>2
<1> QED BY <1>1, <1>9, <1>11, <1>12 DEF ExchangeInv

\* ExchangeInv is inductive.
LEMMA InitExchange == WireInit => ExchangeInv
<1> SUFFICES ASSUME WireInit PROVE ExchangeInv
    OBVIOUS
<1>1. /\ up = << >> /\ channel = << >> /\ down = << >> /\ got = Nothing
      /\ requests = << >> /\ heardAt = << >> /\ writtenAt = << >>
      BY DEF WireInit
<1>2. FlowInv
      BY <1>1, EmptyQueue DEF FlowInv
<1>3. GotInv /\ Echoed
      BY <1>1 DEF GotInv, Echoed, Nothing
<1>4. Queues
      BY <1>1, EmptyQueue DEF Queues
<1>5. Ranks([k \in 1 .. 0 |-> 0], << >>, 0)
      BY EmptyQueue DEF Ranks
<1>6. Answered /\ Held /\ Asked
  <2>1. Len(requests) - Len(heardAt) = 0 /\ Len(writtenAt) = 0 /\ Len(channel) = 0
        BY <1>1, EmptyQueue
  <2> QED BY <1>1, <1>5, <2>1 DEF Answered, Held, Asked
<1> QED BY <1>2, <1>3, <1>4, <1>6 DEF ExchangeInv, TurnsInv

LEMMA ExchangeStep == ExchangeInv /\ [WireNext]_wireVars => ExchangeInv'
<1> SUFFICES ASSUME ExchangeInv, [WireNext]_wireVars PROVE ExchangeInv'
    OBVIOUS
<1>1. CASE Falsify
  <2>1. ~honest' /\ got' = Nothing /\ UNCHANGED down
        BY <1>1 DEF Falsify
  <2>2. FlowInv'
        BY <2>1 DEF ExchangeInv, FlowInv
  <2> QED BY <2>1, <2>2, NothingRead DEF ExchangeInv
<1>2. CASE UNCHANGED wireVars
  <2>1. /\ UNCHANGED <<up, channel, down, got, honest>>
        /\ UNCHANGED <<requests, heardAt, writtenAt, closed>>
        BY <1>2 DEF wireVars, exchangeVars
  <2>2. FlowInv' /\ GotInv'
        BY <2>1 DEF ExchangeInv, FlowInv, GotInv
  <2>3. honest => TurnsInv' /\ Echoed'
        BY <2>1 DEF ExchangeInv, TurnsInv, Queues, Answered, Answers, Held, Asked, Asks, Echoed
  <2> QED BY <2>1, <2>2, <2>3 DEF ExchangeInv
<1> QED BY <1>1, <1>2, HelloKeeps, RequestKeeps, AnswerKeeps, SettingsKeeps, CodecKeeps,
           ChunkKeeps, ClientReadsKeeps, ServerReadsKeeps DEF WireNext

LEMMA ExchangeInvariant == WireSpec => []ExchangeInv
BY InitExchange, ExchangeStep, PTL DEF WireSpec

\* Both ends read what the other meant, whatever the ids, times and data, and for every
\* Opus and PCM format and FLAC of 16 bit stereo below 65536 Hz: every offset, width and
\* length of the writers is that of the readers in proto.rs.
THEOREM RoundTripCorrect == WireSpec => []RoundTrip
<1>1. ExchangeInv => RoundTrip
      BY DEF ExchangeInv, GotInv, RoundTrip
<1> QED BY <1>1, ExchangeInvariant, PTL

\* However many requests are unanswered, and whatever comes between, a reply is about
\* the oldest and brings the times at which the server read it and wrote the reply
\* (server.rs 67-71, net.rs 287-297 and 320-324).
THEOREM EchoedCorrect == WireSpec => []Echoed
<1>1. ExchangeInv => Echoed
      BY DEF ExchangeInv, Echoed
<1> QED BY <1>1, ExchangeInvariant, PTL

-----------------------------------------------------------------------------
\* The volume.

\* What a bounded integer is.
LEMMA InRange == ASSUME NEW n \in Nat, NEW v \in 0 .. n PROVE v \in Int /\ 0 <= v /\ v <= n
OBVIOUS

\* Rounding is to the nearest percentage.
LEMMA PercentNearest == ASSUME NEW v \in U16 PROVE Nearest(Percent(v), v)
<1>1. v \in Int /\ 0 <= v /\ v <= 65535
      BY InRange DEF U16
<1>2. PICK p \in Int : p = Percent(v)
      BY <1>1 DEF Percent
<1>3. 65535 * p <= v * 100 + 32767 /\ v * 100 + 32767 < 65535 * p + 65535
      BY <1>1, <1>2 DEF Percent
<1>4. p \in 0 .. 100
      BY <1>1, <1>2, <1>3
<1>5. 2 * (65535 * p - 100 * v) <= 65535
      BY <1>1, <1>2, <1>3
<1>6. 2 * (100 * v - 65535 * p) <= 65535
      BY <1>1, <1>2, <1>3
<1>7. Nearest(p, v)
      BY <1>4, <1>5, <1>6, SMT DEF Nearest
<1> QED BY <1>2, <1>7, ZenonT(40)

\* Whatever Spotify says the volume is, the client is left with the nearest percentage
\* (spotify.rs 125).
THEOREM VolumeNearestCorrect == WireSpec => []VolumeNearest
<1>1. ExchangeInv => VolumeNearest
  <2> SUFFICES ASSUME ExchangeInv, got.by = "client", got.message.body.is = "ServerSettings"
               PROVE  Nearest(got.message.body.json.volume, got.packet.dial)
      BY DEF VolumeNearest
  <2>1. got.message.body.json.volume = Percent(got.packet.dial) /\ got.packet.dial \in DIALS
        BY DEF ExchangeInv, GotInv
  <2>2. got.packet.dial \in U16
        BY <2>1, ExchangeAssumption DEF ExchangeAssumption
  <2> QED BY <2>1, <2>2, PercentNearest
<1> QED BY <1>1, ExchangeInvariant, PTL

-----------------------------------------------------------------------------
\* Lies.

\* "never panicking on garbage", for all bytes: what the server makes of a message does
\* not depend on who wrote it.
THEOREM UntrustedCorrect == WireSpec => []UntrustedRefused
<1>1. WireInit => UntrustedRefused
      BY DEF WireInit, UntrustedRefused, Nothing
<1>2. UntrustedRefused /\ [WireNext]_wireVars => UntrustedRefused'
  <2> SUFFICES ASSUME UntrustedRefused, [WireNext]_wireVars PROVE UntrustedRefused'
      OBVIOUS
  <2>1. CASE got' = Nothing
        BY <2>1 DEF UntrustedRefused, Nothing
  <2>2. SendHello \/ SendRequest => got' = Nothing
        BY DEF SendHello, SendRequest, Up
  <2>3. AnswerRequest \/ SendSettings \/ SendCodec \/ SendChunk => got' = Nothing
        BY DEF AnswerRequest, SendSettings, SendCodec, SendChunk, SendOther, Down
  <2>4. Falsify => got' = Nothing
        BY DEF Falsify
  <2>5. CASE ClientReads
    <3>1. got'.by = "client"
          BY <2>5 DEF ClientReads, Got
    <3> QED BY <3>1 DEF UntrustedRefused
  <2>6. CASE ServerReads
    <3> DEFINE bytes   == Head(up).bytes
               message == Heard(bytes, DecodeC(MType(bytes), Paid(bytes)))
    <3>1. got' = Got("server", message, Head(up))
          BY <2>6 DEF ServerReads
    <3>2. got'.message = message
          BY <3>1 DEF Got
    <3> QED BY <3>2, HeardWithoutPanic DEF UntrustedRefused
  <2>7. CASE UNCHANGED wireVars
        BY <2>7 DEF wireVars, UntrustedRefused
  <2> QED BY <2>1, <2>2, <2>3, <2>4, <2>5, <2>6, <2>7 DEF WireNext
<1> QED BY <1>1, <1>2, PTL DEF WireSpec

-----------------------------------------------------------------------------
\* The loops of normalize (TimeValMC).

\* What the first loop leaves: at most a second.
Lowered(t) ==
    LET k == IF t.usec > SECOND THEN (t.usec - 1) \div SECOND ELSE 0
    IN  TV(t.sec + k, t.usec - k * SECOND)

\* What the second loop leaves: nothing below zero.
Raised(t) ==
    LET k == IF t.usec < 0 THEN t.usec \div SECOND ELSE 0
    IN  TV(t.sec + k, t.usec - k * SECOND)

LEMMA LoweredLoops ==
    ASSUME NEW t \in TimeVals
    PROVE  Lowered(t) = IF t.usec > SECOND THEN Lowered(TV(t.sec + 1, t.usec - SECOND)) ELSE t
  <1>1. CASE t.usec > SECOND
    <2> DEFINE k == (t.usec - 1) \div SECOND
               u == t.usec - SECOND
               j == IF u > SECOND THEN (u - 1) \div SECOND ELSE 0
    <2>1. k \in Int /\ j \in Int /\ k = j + 1 /\ t.sec \in Int /\ t.usec \in Int
      BY <1>1, SMT DEF TimeVals, SECOND
    <2>2. Lowered(t) = TV(t.sec + k, t.usec - k * SECOND)
      BY <1>1 DEF Lowered
    <2>3. Lowered(TV(t.sec + 1, u)) = TV((t.sec + 1) + j, u - j * SECOND)
      BY SMT DEF Lowered, TV
    <2> HIDE DEF k, j
    <2>4. t.sec + k = (t.sec + 1) + j /\ t.usec - k * SECOND = u - j * SECOND
      BY <2>1, SMT DEF SECOND
    <2>5. Lowered(t) = Lowered(TV(t.sec + 1, u))
      BY <2>2, <2>3, <2>4
    <2> QED
      BY <1>1, <2>5
  <1>2. CASE ~(t.usec > SECOND)
    <2>1. TV(t.sec + 0, t.usec - 0 * SECOND) = t
      BY SMT DEF TV, TimeVals, SECOND
    <2>2. Lowered(t) = TV(t.sec + 0, t.usec - 0 * SECOND)
      BY <1>2, Zenon DEF Lowered
    <2> QED
      BY <1>2, <2>1, <2>2, Zenon
  <1> QED
    BY <1>1, <1>2

LEMMA RaisedLoops ==
    ASSUME NEW t \in TimeVals
    PROVE  Raised(t) = IF t.usec < 0 THEN Raised(TV(t.sec - 1, t.usec + SECOND)) ELSE t
  <1>1. CASE t.usec < 0
    <2> DEFINE k == t.usec \div SECOND
               u == t.usec + SECOND
               j == IF u < 0 THEN u \div SECOND ELSE 0
    <2>1. k \in Int /\ j \in Int /\ k = j - 1 /\ t.sec \in Int /\ t.usec \in Int
      BY <1>1, SMT DEF TimeVals, SECOND
    <2>2. Raised(t) = TV(t.sec + k, t.usec - k * SECOND)
      BY <1>1 DEF Raised
    <2>3. Raised(TV(t.sec - 1, u)) = TV((t.sec - 1) + j, u - j * SECOND)
      BY SMT DEF Raised, TV
    <2> HIDE DEF k, j
    <2>4. t.sec + k = (t.sec - 1) + j /\ t.usec - k * SECOND = u - j * SECOND
      BY <2>1, SMT DEF SECOND
    <2>5. Raised(t) = Raised(TV(t.sec - 1, u))
      BY <2>2, <2>3, <2>4
    <2> QED
      BY <1>1, <2>5
  <1>2. CASE ~(t.usec < 0)
    <2>1. TV(t.sec + 0, t.usec - 0 * SECOND) = t
      BY SMT DEF TV, TimeVals, SECOND
    <2>2. Raised(t) = TV(t.sec + 0, t.usec - 0 * SECOND)
      BY <1>2, Zenon DEF Raised
    <2> QED
      BY <1>2, <2>1, <2>2, Zenon
  <1> QED
    BY <1>1, <1>2

LEMMA StepsStay ==
    ASSUME NEW t \in TimeVals
    PROVE  TV(t.sec + 1, t.usec - SECOND) \in TimeVals /\ TV(t.sec - 1, t.usec + SECOND) \in TimeVals
  BY SMT DEF TV, TimeVals, SECOND

\* The recursion has a solution, so that the function is one.
LEMMA AboveUnfolds ==
    ASSUME NEW t \in TimeVals
    PROVE  Above[t] = IF t.usec > SECOND THEN Above[TV(t.sec + 1, t.usec - SECOND)] ELSE t
  <1> DEFINE F(g) == [s \in TimeVals |->
                          IF s.usec > SECOND THEN g[TV(s.sec + 1, s.usec - SECOND)] ELSE s]
             G == [s \in TimeVals |-> Lowered(s)]
  <1>1. Above = CHOOSE g : g = F(g)
    BY DEF Above
  <1>2. G = F(G)
    <2>1. ASSUME NEW s \in TimeVals
          PROVE  Lowered(s) = IF s.usec > SECOND THEN G[TV(s.sec + 1, s.usec - SECOND)] ELSE s
      <3>1. G[TV(s.sec + 1, s.usec - SECOND)] = Lowered(TV(s.sec + 1, s.usec - SECOND))
        BY StepsStay, Zenon
      <3> QED
        BY <3>1, LoweredLoops, Zenon
    <2> QED
      BY <2>1, Zenon
  <1> HIDE DEF F, G
  <1>3. Above = F(Above)
    BY <1>1, <1>2, Zenon
  <1> QED
    BY <1>3, Zenon DEF F

LEMMA BelowUnfolds ==
    ASSUME NEW t \in TimeVals
    PROVE  Below[t] = IF t.usec < 0 THEN Below[TV(t.sec - 1, t.usec + SECOND)] ELSE t
  <1> DEFINE F(g) == [s \in TimeVals |->
                          IF s.usec < 0 THEN g[TV(s.sec - 1, s.usec + SECOND)] ELSE s]
             G == [s \in TimeVals |-> Raised(s)]
  <1>1. Below = CHOOSE g : g = F(g)
    BY DEF Below
  <1>2. G = F(G)
    <2>1. ASSUME NEW s \in TimeVals
          PROVE  Raised(s) = IF s.usec < 0 THEN G[TV(s.sec - 1, s.usec + SECOND)] ELSE s
      <3>1. G[TV(s.sec - 1, s.usec + SECOND)] = Raised(TV(s.sec - 1, s.usec + SECOND))
        BY StepsStay, Zenon
      <3> QED
        BY <3>1, RaisedLoops, Zenon
    <2> QED
      BY <2>1, Zenon
  <1> HIDE DEF F, G
  <1>3. Below = F(Below)
    BY <1>1, <1>2, Zenon
  <1> QED
    BY <1>3, Zenon DEF F

\* Each loop computes its closed form: one turn after the other, by induction on how far
\* the microseconds are from where it stops.
LEMMA AboveIsLowered ==
    ASSUME NEW t \in TimeVals
    PROVE  Above[t] = Lowered(t)
  <1> DEFINE S == {n \in Nat : \A s \in TimeVals : s.usec <= n => Above[s] = Lowered(s)}
  <1>1. 0 \in S
    <2>1. ASSUME NEW s \in TimeVals, s.usec <= 0
          PROVE  Above[s] = Lowered(s)
      <3>1. ~(s.usec > SECOND)
        BY <2>1, SMT DEF TimeVals, SECOND
      <3> QED
        BY <3>1, AboveUnfolds, LoweredLoops, Zenon
    <2> QED
      BY <2>1
  <1>2. ASSUME NEW n \in Nat, n \in S
        PROVE  n + 1 \in S
    <2>1. ASSUME NEW s \in TimeVals, s.usec <= n + 1
          PROVE  Above[s] = Lowered(s)
      <3> DEFINE r == TV(s.sec + 1, s.usec - SECOND)
      <3>1. r \in TimeVals /\ r.usec <= n
        BY <2>1, StepsStay, SMT DEF TV, TimeVals, SECOND
      <3> HIDE DEF r
      <3>2. Above[r] = Lowered(r)
        BY <1>2, <3>1
      <3> QED
        BY <3>2, AboveUnfolds, LoweredLoops, Zenon DEF r
    <2>2. n + 1 \in Nat
      OBVIOUS
    <2> QED
      BY <2>1, <2>2
  <1> HIDE DEF S
  <1>3. Nat \subseteq S
    BY <1>1, <1>2, InductionOnNat
  <1>4. PICK n \in Nat : t.usec <= n
    <2>1. t.usec \in Int
      BY DEF TimeVals
    <2>2. CASE t.usec >= 0
      BY <2>1, <2>2
    <2>3. CASE t.usec < 0
      BY <2>1, <2>3
    <2> QED
      BY <2>1, <2>2, <2>3
  <1>5. n \in S
    BY <1>3, <1>4
  <1> QED
    BY <1>4, <1>5 DEF S

LEMMA BelowIsRaised ==
    ASSUME NEW t \in TimeVals
    PROVE  Below[t] = Raised(t)
  <1> DEFINE S == {n \in Nat : \A s \in TimeVals : s.usec >= -n => Below[s] = Raised(s)}
  <1>1. 0 \in S
    <2>1. ASSUME NEW s \in TimeVals, s.usec >= -0
          PROVE  Below[s] = Raised(s)
      <3>1. ~(s.usec < 0)
        BY <2>1, SMT DEF TimeVals
      <3> QED
        BY <3>1, BelowUnfolds, RaisedLoops, Zenon
    <2> QED
      BY <2>1
  <1>2. ASSUME NEW n \in Nat, n \in S
        PROVE  n + 1 \in S
    <2>1. ASSUME NEW s \in TimeVals, s.usec >= -(n + 1)
          PROVE  Below[s] = Raised(s)
      <3> DEFINE r == TV(s.sec - 1, s.usec + SECOND)
      <3>1. r \in TimeVals /\ r.usec >= -n
        BY <2>1, StepsStay, SMT DEF TV, TimeVals, SECOND
      <3> HIDE DEF r
      <3>2. Below[r] = Raised(r)
        BY <1>2, <3>1
      <3> QED
        BY <3>2, BelowUnfolds, RaisedLoops, Zenon DEF r
    <2>2. n + 1 \in Nat
      OBVIOUS
    <2> QED
      BY <2>1, <2>2
  <1> HIDE DEF S
  <1>3. Nat \subseteq S
    BY <1>1, <1>2, InductionOnNat
  <1>4. PICK n \in Nat : t.usec >= -n
    <2>1. t.usec \in Int
      BY DEF TimeVals
    <2>2. CASE t.usec >= 0
      BY <2>1, <2>2
    <2>3. CASE t.usec < 0
      <3>1. -t.usec \in Nat /\ t.usec >= -(-t.usec)
        BY <2>1, <2>3
      <3> QED
        BY <3>1
    <2> QED
      BY <2>1, <2>2, <2>3
  <1>5. n \in S
    BY <1>3, <1>4
  <1> QED
    BY <1>4, <1>5 DEF S

\* The two loops of normalize, for every TimeVal, end with what Normalize says.
THEOREM LoopsComputeNormalize ==
    ASSUME NEW t \in TimeVals
    PROVE  Below[Above[t]] = Normalize(t)
  <1>1. Above[t] = Lowered(t) /\ Lowered(t) \in TimeVals
    <2>1. Lowered(t) \in TimeVals
      BY SMT DEF Lowered, TV, TimeVals, SECOND
    <2> QED
      BY <2>1, AboveIsLowered
  <1>2. Below[Lowered(t)] = Raised(Lowered(t))
    BY <1>1, BelowIsRaised
  <1>3. Raised(Lowered(t)) = Normalize(t)
    <2>1. t.sec \in Int /\ t.usec \in Int
      BY DEF TimeVals
    <2>2. CASE t.usec > SECOND
      <3> DEFINE k == (t.usec - 1) \div SECOND
      <3>1. Lowered(t) = TV(t.sec + k, t.usec - k * SECOND)
        BY <2>2 DEF Lowered
      <3>2. k \in Int /\ t.usec - k * SECOND >= 0
        BY <2>1, <2>2, SMT DEF SECOND
      <3>3. Carry(t.usec) = k
        BY <2>2 DEF Carry
      <3> HIDE DEF k
      <3>4. ~(Lowered(t).usec < 0)
        BY <3>1, <3>2, <2>1, SMT DEF TV, SECOND
      <3>5. Raised(Lowered(t)) = Lowered(t)
        BY <1>1, <3>4, RaisedLoops, Zenon
      <3> QED
        BY <3>1, <3>3, <3>5, Zenon DEF Normalize
    <2>3. CASE ~(t.usec > SECOND)
      <3>1. Lowered(t) = t
        BY <2>3, LoweredLoops, Zenon
      <3>2. CASE t.usec < 0
        <4>1. Raised(t) = TV(t.sec + (t.usec \div SECOND), t.usec - (t.usec \div SECOND) * SECOND)
          BY <3>2, Zenon DEF Raised
        <4>2. Carry(t.usec) = t.usec \div SECOND
          BY <2>3, <3>2, Zenon DEF Carry
        <4> QED
          BY <3>1, <4>1, <4>2, Zenon DEF Normalize
      <3>3. CASE ~(t.usec < 0)
        <4>1. Raised(t) = TV(t.sec + 0, t.usec - 0 * SECOND)
          BY <3>3, Zenon DEF Raised
        <4>2. Carry(t.usec) = 0
          BY <2>3, <3>3, Zenon DEF Carry
        <4> QED
          BY <3>1, <4>1, <4>2, Zenon DEF Normalize
      <3> QED
        BY <3>2, <3>3
    <2> QED
      BY <2>2, <2>3
  <1> QED
    BY <1>1, <1>2, <1>3

-----------------------------------------------------------------------------
\* The running sum.

SumInv == sum \in TimeVals /\ micros \in Int /\ SumExact

LEMMA InitSum == Init => SumInv
  <1> SUFFICES ASSUME Init
               PROVE  SumInv
    OBVIOUS
  <1>1. sum = TV(0, 0) /\ micros = 0
    BY DEF Init
  <1>2. sum \in TimeVals /\ micros \in Int
    BY <1>1 DEF TV, TimeVals
  <1>3. ToMicros(sum) = micros /\ IsNormal(sum)
    BY <1>1, SMT DEF ToMicros, IsNormal, TV, SECOND
  <1> QED
    BY <1>2, <1>3 DEF SumInv, SumExact

LEMMA SumStep == SumInv /\ [Next]_vars => SumInv'
  <1> SUFFICES ASSUME SumInv, [Next]_vars
               PROVE  SumInv'
    OBVIOUS
  <1>1. sum \in TimeVals /\ micros \in Int /\ ToMicros(sum) = micros /\ IsNormal(sum)
    BY DEF SumInv, SumExact
  <1>2. CASE AddTerm
    <2>1. PICK us \in TERMS : sum' = Add(sum, FromMicros(us)) /\ micros' = micros + us
      BY <1>2 DEF AddTerm
    <2>2. us \in Int /\ FromMicros(us) \in TimeVals /\ ToMicros(FromMicros(us)) = us
      BY TermsAssumption, MicrosRoundTrip
    <2>3. /\ Add(sum, FromMicros(us)) \in TimeVals /\ IsNormal(Add(sum, FromMicros(us)))
          /\ ToMicros(Add(sum, FromMicros(us))) = micros + us
      BY <1>1, <2>2, SumsKeepTime
    <2> QED
      BY <1>1, <2>1, <2>2, <2>3 DEF SumInv, SumExact
  <1>3. CASE SubTerm
    <2>1. PICK us \in TERMS : sum' = Sub(sum, FromMicros(us)) /\ micros' = micros - us
      BY <1>3 DEF SubTerm
    <2>2. us \in Int /\ FromMicros(us) \in TimeVals /\ ToMicros(FromMicros(us)) = us
      BY TermsAssumption, MicrosRoundTrip
    <2>3. /\ Sub(sum, FromMicros(us)) \in TimeVals /\ IsNormal(Sub(sum, FromMicros(us)))
          /\ ToMicros(Sub(sum, FromMicros(us))) = micros - us
      BY <1>1, <2>2, SumsKeepTime
    <2> QED
      BY <1>1, <2>1, <2>2, <2>3 DEF SumInv, SumExact
  <1>4. CASE UNCHANGED vars
    BY <1>4 DEF SumInv, SumExact, vars
  <1> QED
    BY <1>2, <1>3, <1>4 DEF Next

LEMMA SumInvariant == Spec => []SumInv
  BY InitSum, SumStep, PTL DEF Spec

-----------------------------------------------------------------------------
\* One run checks both.

\* Sums and exchanges have nothing in common: each goes on as if it were alone.
THEOREM ProtoImplementsBoth == ProtoSpec => Spec /\ WireSpec
  <1>1. ProtoInit => Init /\ WireInit
    BY DEF ProtoInit
  <1>2. [ProtoNext]_<<vars, wireVars>> => [Next]_vars /\ [WireNext]_wireVars
    BY DEF ProtoNext
  <1> QED
    BY <1>1, <1>2, PTL DEF ProtoSpec, Spec, WireSpec

\* A chain of conversions, sums and differences of TimeVals, of any length, is the same
\* chain of microseconds, and stays normal.
THEOREM SumExactCorrect == ProtoSpec => []SumExact
  <1>1. SumInv => SumExact
    BY DEF SumInv
  <1> QED
    BY <1>1, SumInvariant, ProtoImplementsBoth, PTL

\* The sign of the seconds of such a chain gives the verdict on a chunk.
THEOREM LateCorrect == ProtoSpec => []LateByTheSeconds
  <1>1. SumInv => LateByTheSeconds
    BY SignOfSeconds DEF SumInv, SumExact, LateByTheSeconds
  <1> QED
    BY <1>1, SumInvariant, ProtoImplementsBoth, PTL

\* The closed form of normalize is what its loops compute along every such chain.
THEOREM LoopsCorrect == ProtoSpec => []NormalizeIsLoops
  <1>1. ASSUME SumInv
        PROVE  NormalizeIsLoops
    <2>1. TV(sum.sec, sum.usec + micros) \in TimeVals
      BY <1>1 DEF SumInv, TV, TimeVals
    <2> QED
      BY <2>1, LoopsComputeNormalize DEF NormalizeIsLoops
  <1> QED
    BY <1>1, SumInvariant, ProtoImplementsBoth, PTL

\* What was proved of the exchange holds of it there.
THEOREM ProtoKeepsExchange ==
    ProtoSpec => [](RoundTrip /\ Echoed /\ UntrustedRefused /\ VolumeNearest)
  BY ProtoImplementsBoth, RoundTripCorrect, EchoedCorrect, UntrustedCorrect,
     VolumeNearestCorrect, PTL

=============================================================================
