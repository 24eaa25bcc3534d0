-------------------------------- MODULE Wire --------------------------------
(***************************************************************************)
(* The messages of src/proto.rs as bytes: what either end writes, where it *)
(* puts it, and what the other end makes of it.                            *)
(*                                                                         *)
(* A byte knows the value of the field it belongs to, how wide the field   *)
(* is and which of its bytes it is; endianness and UTF-8 are left out.     *)
(* JSON is a document that serde reads only whole.  A read past the end of *)
(* a slice panics, and so does an unwrap or an assert.                     *)
(***************************************************************************)
EXTENDS TimeVal, Sequences

U16 == 0 .. 65535

BASE_SIZE   == 26
MAX_PAYLOAD == 1048576

CONSTANT JSON  \* bytes of a JSON document

\* It is wider than any number, and fits.
ASSUME JsonAssumption == JSON \in Nat /\ JSON > 4 /\ JSON + 4 <= MAX_PAYLOAD

Number == [Base |-> 0, CodecHeader |-> 1, WireChunk |-> 2, ServerSettings |-> 3,
           Time |-> 4, Hello |-> 5, StreamTags |-> 6, ClientInfo |-> 7]

-----------------------------------------------------------------------------
\* Bytes.

Field(v, w) == [i \in 1 .. w |-> [val |-> v, of |-> w, at |-> i]]
Filler(n)   == Field("-", n)

Read(p, a) == p[a + 1].val
Holds(p, n) == n <= Len(p)

\* The w bytes from a on are one field, from its first byte to its last.
Whole(p, a, w) ==
    /\ w > 0 /\ Holds(p, a + w)
    /\ \A i \in 1 .. w : p[a + i].of = w /\ p[a + i].at = i

TimeBytes(t)  == Field(t.sec, 4) \o Field(t.usec, 4)
TimeAt(p, a)  == TV(Read(p, a), Read(p, a + 4))

\* What a decoder returns when it does not return a message.
Refused == [is |-> "refused"]
Panic   == [is |-> "panic"]

-----------------------------------------------------------------------------
\* Writing (the as_buf of each message, Base::write).

\* A message with its header.
Message(id, refers, sent, received, body) ==
    [id |-> id, refers_to |-> refers, sent_tv |-> sent, received_tv |-> received,
     body |-> body]

\* Mutant of Prefixed: the length counts its own four bytes.
PrefixedWithItself(w, bytes) == Field(w + 4, 4) \o bytes

\* Bytes behind their length.
Prefixed(w, bytes) == Field(w, 4) \o bytes

OpusBytes(f) ==
    Field("OPUS", 4) \o Field(f.rate, 4) \o Field(f.depth, 2) \o Field(f.channels, 2)

\* The 32 bits of STREAMINFO with rate, channels and depth; the length of the stream
\* that follows them is unknown, 0.
StreamInfo(f) == f.rate * 4096 + (f.channels - 1) * 512 + (f.depth - 1) * 16

FlacBytes(f) == Field("fLaC", 4) \o Filler(14) \o Field(StreamInfo(f), 4) \o Filler(20)

WavBytes(f) ==
    Field("RIFF", 4) \o Filler(16) \o Field(1, 2) \o Field(f.channels, 2)
        \o Field(f.rate, 4) \o Filler(6) \o Field(f.depth, 2) \o Filler(8)

NameBytes(codec) == IF codec = "pcm" THEN 3 ELSE 4

MetadataBytes(b) ==
    CASE b.codec = "opus" -> OpusBytes(b.format)
      [] b.codec = "flac" -> FlacBytes(b.format)
      [] b.codec = "pcm"  -> WavBytes(b.format)

CodecBytes(b) ==
    Prefixed(NameBytes(b.codec), Field(b.codec, NameBytes(b.codec)))
        \o Prefixed(Len(MetadataBytes(b)), MetadataBytes(b))

Payload(b) ==
    CASE b.is = "Time"           -> TimeBytes(b.latency)
      [] b.is = "Hello"          -> Prefixed(JSON, Field(b.json, JSON))
      [] b.is = "ServerSettings" -> Prefixed(JSON, Field(b.json, JSON))
      [] b.is = "WireChunk"      -> TimeBytes(b.timestamp) \o Prefixed(Len(b.data), b.data)
      [] b.is = "CodecHeader"    -> CodecBytes(b)

AsBuf(m) ==
    Field(Number[m.body.is], 2) \o Field(m.id, 2) \o Field(m.refers_to, 2)
        \o TimeBytes(m.sent_tv) \o TimeBytes(m.received_tv)
        \o Field(Len(Payload(m.body)), 4) \o Payload(m.body)

-----------------------------------------------------------------------------
\* Reading (Base::try_from, then decode or decode_c of as many bytes as it says).

MType(buf) == Read(buf, 0)
Size(buf)  == Read(buf, 22)
Paid(buf)  == SubSeq(buf, BASE_SIZE + 1, BASE_SIZE + Size(buf))

HeaderOK(buf) ==
    /\ MType(buf) \in {Number[t] : t \in DOMAIN Number}
    /\ Size(buf) <= MAX_PAYLOAD

TimeFrom(p) == IF Holds(p, 8) THEN [is |-> "Time", latency |-> TimeAt(p, 0)] ELSE Refused

\* serde reads the document of p, which begins with its length.
Parses(p) == Read(p, 0) = JSON /\ Whole(p, 4, JSON)

\* Mutant of HelloHolds: the length is believed.
HelloHoldsPrefix(p) == Holds(p, 4)

\* The checks before the slice.
HelloHolds(p) == Holds(p, 4) /\ Holds(p, 4 + Read(p, 0))

HelloFrom(p) ==
    CASE ~HelloHolds(p)                                  -> Refused
      [] HelloHolds(p) /\ ~Holds(p, 4 + Read(p, 0))      -> Panic
      [] HelloHolds(p) /\ Holds(p, 4 + Read(p, 0)) /\ ~Parses(p) -> Refused
      [] OTHER -> [is |-> "Hello", json |-> Read(p, 4)]

SettingsFrom(p) ==
    IF Holds(p, 4) /\ Parses(p) THEN [is |-> "ServerSettings", json |-> Read(p, 4)] ELSE Panic

ChunkFrom(p) ==
    IF Holds(p, 12) /\ Holds(p, 12 + Read(p, 8))
    THEN [is |-> "WireChunk", timestamp |-> TimeAt(p, 0), data |-> SubSeq(p, 13, 12 + Read(p, 8))]
    ELSE Panic

\* The metadata of a codec, d the bytes after its name and their length.
OpusFrom(d) == [rate |-> Read(d, 4), depth |-> Read(d, 8), channels |-> Read(d, 10)]

\* Mask and shift of the four bytes after the marker and 14 more.
FlacFrom(d) ==
    LET bitfield == Read(d, 18)
    IN  [rate |-> (bitfield \div 4096) % 65536, depth |-> bitfield % 32,
         channels |-> (bitfield \div 256) % 4]

WavFrom(d) == [rate |-> Read(d, 24), depth |-> Read(d, 34), channels |-> Read(d, 22)]

\* The bytes of p behind the length at a.
Behind(p, a) == SubSeq(p, a + 5, a + 4 + Read(p, a))
Within(p, a) == Holds(p, a + 4) /\ Holds(p, a + 4 + Read(p, a))

\* No codec but these three is decoded; what is read of their metadata must be there,
\* and the marks of a WAV header.
Playable(codec, d) ==
    \/ codec = "opus" /\ Holds(d, 12)
    \/ codec = "flac" /\ Holds(d, 22)
    \/ codec = "pcm"  /\ Holds(d, 36) /\ Read(d, 0) = "RIFF" /\ Read(d, 20) = 1

CodecFrom(p) ==
    LET codec == Read(p, 4)
        d     == Behind(p, 4 + Read(p, 0))
    IN  IF ~Within(p, 0) \/ ~Within(p, 4 + Read(p, 0)) \/ ~Playable(codec, d) THEN Panic
        ELSE [is |-> "CodecHeader", codec |-> codec,
              format |-> CASE codec = "opus" -> OpusFrom(d)
                           [] codec = "flac" -> FlacFrom(d)
                           [] codec = "pcm"  -> WavFrom(d)]

\* decode, on the client.
Decode(mtype, p) ==
    CASE mtype = Number.CodecHeader    -> CodecFrom(p)
      [] mtype = Number.ServerSettings -> SettingsFrom(p)
      [] mtype = Number.WireChunk      -> ChunkFrom(p)
      [] mtype = Number.Time           -> TimeFrom(p)
      [] OTHER                         -> Refused

\* decode_c, on the server.
DecodeC(mtype, p) ==
    CASE mtype = Number.Hello -> HelloFrom(p)
      [] mtype = Number.Time  -> TimeFrom(p)
      [] OTHER                -> Refused

\* What a reader makes of buf, whose payload decodes to body: the header is refused,
\* the payload is still to come, or there is a message.
Heard(buf, body) ==
    CASE ~HeaderOK(buf) -> [body |-> Refused]
      [] HeaderOK(buf) /\ ~Holds(buf, BASE_SIZE + Size(buf)) ->
            [body |-> [is |-> "waits", size |-> Size(buf)]]
      [] OTHER ->
            Message(Read(buf, 2), Read(buf, 4), TimeAt(buf, 6), TimeAt(buf, 14), body)

-----------------------------------------------------------------------------
\* The volume that settings carry: what Spotify says, a u16, in percent (spotify.rs).

PercentFloor(v) == (v * 100) \div 65535      \* mutant of Percent: no rounding

Percent(v) == (v * 100 + 32767) \div 65535

\* No other percentage is nearer to v.
Nearest(p, v) ==
    /\ p \in 0 .. 100
    /\ 2 * (65535 * p - 100 * v) <= 65535
    /\ 2 * (100 * v - 65535 * p) <= 65535

=============================================================================
