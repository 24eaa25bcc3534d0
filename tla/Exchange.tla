------------------------------ MODULE Exchange ------------------------------
(***************************************************************************)
(* A client and the server exchange the messages of Wire over one          *)
(* connection, several under way at a time in either direction.  What      *)
(* either end reads is what the other wrote, in that order.                *)
(*                                                                         *)
(* The server is the one of server/src, with the codec headers of others   *)
(* besides.  A client may falsify the type and the lengths it sends; what  *)
(* follows a message it falsified is left to FrameReader.                  *)
(***************************************************************************)
EXTENDS Wire

CONSTANTS
    IDS,      \* message ids, which wrap
    TIMES,    \* readings of either clock
    DATA,     \* data of a chunk
    FORMATS,  \* codecs and formats of a stream
    DIALS,    \* what Spotify says the volume is
    LIES,     \* <<place, width, value>>: fields a client falsifies
    FLIGHT    \* bound: messages under way, and requests in the server's channel

ASSUME ExchangeAssumption ==
    /\ IDS \subseteq U16
    /\ DIALS \subseteq U16
    /\ TIMES \subseteq TimeVals

ASSUME DataAssumption ==
    \A d \in DATA : Len(d) \in 0 .. MAX_PAYLOAD - 12 /\ d = Field("data", Len(d))

\* For FLAC, all that the masks of FlacMetadata are right for.
ASSUME FormatsAssumption ==
    /\ FORMATS \subseteq [codec : {"opus", "flac", "pcm"},
                          format : [rate : Nat, depth : Nat, channels : Nat]]
    /\ \A f \in FORMATS : f.codec = "flac" =>
          f.format.rate < 65536 /\ f.format.depth = 16 /\ f.format.channels = 2

VARIABLES
    up,       \* what the server has still to read: packets
    channel,  \* Outbound::TimeReply messages the writer has still to take
    down,     \* what the client has still to read: packets
    got,      \* what was read in the last step, Nothing if nothing was
    honest,   \* history: no client has falsified anything
    \* history of the requests that are not answered yet, oldest first
    requests, \* as the client sent them
    heardAt,  \* when the server had read them, the first Len(heardAt) of them
    writtenAt,\* when their replies were written, the first Len(writtenAt) of them
    closed    \* history: the request, and those times, that the last reply is due to

exchangeVars == <<requests, heardAt, writtenAt, closed>>
wireVars == <<up, channel, down, got, honest, exchangeVars>>

Nothing    == [by |-> "nobody"]
NoExchange == [request |-> "none"]

Zero == TV(0, 0)

\* The bytes of m, and as history m itself and the volume it was made for.
Packet(m, dial) == [bytes |-> AsBuf(m), meant |-> m, dial |-> dial]

\* message was read of packet.
Got(by, message, packet) == [by |-> by, message |-> message, packet |-> packet]

WireInit ==
    /\ up = << >> /\ channel = << >> /\ down = << >>
    /\ got = Nothing
    /\ honest = TRUE
    /\ requests = << >> /\ heardAt = << >> /\ writtenAt = << >> /\ closed = NoExchange

Room == Len(up) + Len(channel) + Len(down) < FLIGHT

\* The client writes m; what it falsified is the last it writes.
Up(m) ==
    /\ honest /\ Room
    /\ up' = Append(up, Packet(m, 0))
    /\ got' = Nothing
    /\ UNCHANGED <<channel, down, honest>>

\* The writer writes m.
Down(m, dial) ==
    /\ down' = Append(down, Packet(m, dial))
    /\ got' = Nothing
    /\ UNCHANGED <<up, honest>>

-----------------------------------------------------------------------------
\* The client.

SendHello ==
    /\ Up(Message(0, 0, Zero, Zero, [is |-> "Hello", json |-> [version |-> 2]]))
    /\ UNCHANGED exchangeVars

\* poll_transmit: the same time three times, whatever is unanswered.
SendRequest ==
    \E id \in IDS, t \in TIMES :
       /\ Up(Message(id, 0, t, t, [is |-> "Time", latency |-> t]))
       /\ requests' = Append(requests, [id |-> id, sent_tv |-> t])
       /\ UNCHANGED <<heardAt, writtenAt, closed>>

\* A field of what a client wrote last holds something else.
Falsify ==
    /\ up # << >> /\ honest
    /\ \E lie \in LIES :
          LET bytes == up[Len(up)].bytes
          IN  /\ lie[1] + lie[2] <= Len(bytes)
              /\ up' = [up EXCEPT ![Len(up)].bytes =
                           SubSeq(bytes, 1, lie[1]) \o Field(lie[3], lie[2])
                              \o SubSeq(bytes, lie[1] + lie[2] + 1, Len(bytes))]
    /\ honest' = FALSE
    /\ got' = Nothing
    /\ requests' = << >> /\ heardAt' = << >> /\ writtenAt' = << >> /\ closed' = NoExchange
    /\ UNCHANGED <<channel, down>>

ClientReads ==
    /\ down # << >>
    /\ LET bytes   == Head(down).bytes
           message == Heard(bytes, Decode(MType(bytes), Paid(bytes)))
       IN  /\ got' = Got("client", message, Head(down))
           /\ IF honest /\ message.body.is = "Time"
              THEN /\ closed' = [request |-> Head(requests), heard |-> Head(heardAt),
                                 written |-> Head(writtenAt)]
                   /\ requests' = Tail(requests)
                   /\ heardAt' = Tail(heardAt)
                   /\ writtenAt' = Tail(writtenAt)
              ELSE UNCHANGED exchangeVars
    /\ down' = Tail(down)
    /\ UNCHANGED <<up, channel, honest>>

-----------------------------------------------------------------------------
\* The server.

\* Mutant of TimeReply: the time the request left is taken for the time it arrived.
TimeReplyFromSender(m, now) ==
    [refers_to |-> m.id, client_sent |-> m.sent_tv, received |-> m.sent_tv]

\* What handle_event and the reader make of a Time request of a greeted session.
TimeReply(m, now) ==
    [refers_to |-> m.id, client_sent |-> m.sent_tv, received |-> now]

\* handle_event, and the reader's send of the reply to come.
ServerReads ==
    /\ up # << >>
    /\ LET bytes   == Head(up).bytes
           message == Heard(bytes, DecodeC(MType(bytes), Paid(bytes)))
       IN  /\ got' = Got("server", message, Head(up))
           /\ IF message.body.is = "Time"
              THEN \E now \in TIMES :
                      /\ channel' = Append(channel, TimeReply(message, now))
                      /\ heardAt' = IF honest THEN Append(heardAt, now) ELSE heardAt
              ELSE UNCHANGED <<channel, heardAt>>
    /\ up' = Tail(up)
    /\ UNCHANGED <<down, honest, requests, writtenAt, closed>>

\* Mutants of Reply: it refers to itself; the two times of the server are swapped.
ReplyToItself(r, id, now) ==
    Message(id, id, now, r.received, [is |-> "Time", latency |-> r.client_sent])
ReplySwapped(r, id, now) ==
    Message(id, r.refers_to, r.received, now, [is |-> "Time", latency |-> r.client_sent])

\* run_writer of a TimeReply.
Reply(r, id, now) ==
    Message(id, r.refers_to, now, r.received, [is |-> "Time", latency |-> r.client_sent])

AnswerRequest ==
    /\ channel # << >> /\ channel' = Tail(channel)
    /\ \E id \in IDS, now \in TIMES :
          /\ Down(Reply(Head(channel), id, now), 0)
          /\ writtenAt' = IF honest THEN Append(writtenAt, now) ELSE writtenAt
    /\ UNCHANGED <<requests, heardAt, closed>>

\* The reader, a broadcast or the fan-out enqueued something else (bound: one at a time,
\* none after a lie).
SendOther(m, dial) ==
    /\ honest /\ Room
    /\ \A i \in DOMAIN down : down[i].meant.body.is = "Time"
    /\ Down(m, dial)
    /\ UNCHANGED <<channel, exchangeVars>>

SendSettings ==
    \E id \in IDS, now \in TIMES, v \in DIALS :
       SendOther(Message(id, 0, now, now,
                         [is |-> "ServerSettings", json |-> [volume |-> Percent(v)]]), v)

SendCodec ==
    \E id \in IDS, now \in TIMES, f \in FORMATS :
       SendOther(Message(id, 0, now, now,
                         [is |-> "CodecHeader", codec |-> f.codec, format |-> f.format]), 0)

SendChunk ==
    \E id \in IDS, now \in TIMES, t \in TIMES, d \in DATA :
       SendOther(Message(id, 0, now, now,
                         [is |-> "WireChunk", timestamp |-> t, data |-> d]), 0)

-----------------------------------------------------------------------------
WireNext ==
    \/ SendHello \/ SendRequest \/ Falsify \/ ClientReads
    \/ ServerReads \/ AnswerRequest \/ SendSettings \/ SendCodec \/ SendChunk

WireSpec == WireInit /\ [][WireNext]_wireVars

-----------------------------------------------------------------------------
\* What one end reads is what the other meant, header and body: offsets, widths and
\* lengths of the writers and the readers agree (proto.rs as_buf, from, try_from).
RoundTrip ==
    honest /\ got # Nothing =>
        got.message.body.is = got.packet.meant.body.is /\ got.message = got.packet.meant

\* A reply is about the client's oldest unanswered request, whatever was sent since and
\* whatever comes between, and carries the two times of the server where the client
\* subtracts them: when it had read that request, and when it wrote this reply (server.rs
\* 67-71, net.rs 287-297 and 320-324, client.rs 128-130).
Echoed ==
    honest /\ got.by = "client" /\ got.message.body.is = "Time" =>
        /\ got.message.refers_to = closed.request.id
        /\ got.message.body.latency = closed.request.sent_tv
        /\ got.message.received_tv = closed.heard
        /\ got.message.sent_tv = closed.written

\* "never panicking on garbage": whatever types and lengths a client announces, the
\* server reads it, refuses it or waits for no more than MAX_PAYLOAD bytes
\* (proto.rs 288-296, 564-571).
UntrustedRefused ==
    got.by = "server" =>
        /\ got.message.body.is # "panic"
        /\ got.message.body.is = "waits" => got.message.body.size <= MAX_PAYLOAD

\* The volume a client is left with is the percentage nearest to what Spotify said.
VolumeNearest ==
    got.by = "client" /\ got.message.body.is = "ServerSettings" =>
        Nearest(got.message.body.json.volume, got.packet.dial)

=============================================================================
