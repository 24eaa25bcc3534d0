------------------------------ MODULE TimeSync ------------------------------
(***************************************************************************)
(* Clock synchronisation end to end: the client core (ClientMachine) in    *)
(* the loop that drives it (ConnectedClient::tick in src/client.rs, main   *)
(* in src/main.rs), a network that delays and keeps order, and the server  *)
(* that stamps the replies (server/src/net.rs).                            *)
(*                                                                         *)
(* Time is the client's clock, in microseconds; the server's is OFFSET     *)
(* ahead.  Time jumps to the next thing that is to happen (Advance), and   *)
(* what is due happens before it moves on: a delay of the client's thread  *)
(* counts as a delay of the message it was to send or to read.             *)
(***************************************************************************)
EXTENDS ClientMachine, FiniteSets

CONSTANTS
    OFFSET,    \* server clock minus client clock
    DELAYS,    \* one-way delays of the network
    HOLDS,     \* how long a reply waits between its two stamps
    GAPS,      \* times between two messages the server pushes
    SETTINGS,  \* the <<bufferMs, latency>> it may push
    MAX_PUSHES,\* bound: messages the server pushes in a behaviour
    MAX_TIME   \* bound: how long a behaviour lasts

ASSUME SyncAssumption ==
    /\ OFFSET \in Int
    /\ DELAYS \subseteq Nat /\ \E most \in DELAYS : \A d \in DELAYS : d <= most
    /\ HOLDS \subseteq Nat /\ \E most \in HOLDS : \A h \in HOLDS : h <= most
    /\ GAPS # {} /\ GAPS \subseteq Nat \ {0}
    /\ SETTINGS \subseteq Nat \X Nat
    /\ MAX_PUSHES \in Nat
    /\ MAX_TIME \in Nat

READ_TIMEOUT == SECOND     \* set_read_timeout

VARIABLES
    now,        \* the client's clock
    phase,      \* the driver: about to "poll", or blocked in "read"
    readSince,  \* when it entered the read
    inSync,     \* main's in_sync: synchronized() before this tick
    up,         \* requests on their way; history: when sent and if already in sync
    down,       \* messages on their way back, in the order the writer sent them
    nextPush,   \* when the server pushes its next message
    pushes,     \* how many it has still to push
    playErr     \* history: schedule of the chunk just forwarded minus the exact one

driverVars  == <<phase, readSince, inSync>>
networkVars == <<up, down, nextPush, pushes>>
vars == <<machineVars, now, driverVars, networkVars, playErr>>

Init ==
    /\ MachineInit
    /\ now = 0
    /\ phase = "poll"
    /\ readSince = 0
    /\ inSync = FALSE
    /\ up = <<>>
    /\ down = <<>>
    /\ nextPush \in GAPS
    /\ pushes = MAX_PUSHES
    /\ playErr = 0

Latest(a, b) == IF a >= b THEN a ELSE b

\* A stream keeps order: nothing arrives before what was sent ahead of it.
Arrival(stream, at) ==
    IF stream = <<>> THEN at ELSE Latest(at, stream[Len(stream)].at)

-----------------------------------------------------------------------------
\* The client: main's loop around tick.

\* The request is written at once; at the same time a second one is never due.
SendRequest ==
    /\ PollTransmit(now)
    /\ \E delay \in DELAYS :
          up' = Append(up, [sent |-> now, synced |-> Synchronized,
                            at |-> Arrival(up, now + delay)])

BeginTick ==
    /\ phase = "poll"
    /\ inSync' = Synchronized
    /\ \/ SendRequest
       \/ ~Due(now) /\ UNCHANGED <<machineVars, up>>
    /\ phase' = "read"
    /\ readSince' = now
    /\ UNCHANGED <<now, down, nextPush, pushes, playErr>>

\* tick returns Nothing when nothing could be read for READ_TIMEOUT.
ReadTimesOut ==
    /\ phase = "read"
    /\ now >= readSince + READ_TIMEOUT
    /\ phase' = "poll"
    /\ UNCHANGED <<machineVars, now, readSince, inSync, networkVars, playErr>>

Readable(kind) ==
    /\ phase = "read"
    /\ down # <<>>
    /\ Head(down).at <= now
    /\ Head(down).msg.kind = kind

Read == down' = Tail(down) /\ phase' = "poll"

ReadTime ==
    /\ Readable("time")
    /\ OnTime(Head(down).msg.received, Head(down).msg.stamp, now)
    /\ Read
    /\ playErr' = 0
    /\ UNCHANGED <<now, readSince, inSync, up, nextPush, pushes>>

ReadSettings ==
    /\ Readable("settings")
    /\ OnSettings(Head(down).msg.settings[1], Head(down).msg.settings[2])
    /\ Read
    /\ playErr' = 0
    /\ UNCHANGED <<now, readSince, inSync, up, nextPush, pushes>>

\* The schedule a chunk would have if the client knew the server's clock.
ExactAudibleAt(ts) == ts - OFFSET + ToMicros(serverBuffer) - ToMicros(localLatency)

\* Mutant of Forwarded: main's gate on in_sync is missing.
ForwardedUnsynced(ts) == ~Expired(ts, now)

\* main hands the chunk to the player only once it is in sync.
Forwarded(ts) == ~Expired(ts, now) /\ inSync

ReadChunk ==
    /\ Readable("chunk")
    /\ Read
    /\ playErr' = LET ts == Head(down).msg.stamp
                  IN  IF Forwarded(ts) THEN ToMicros(AudibleAt(ts)) - ExactAudibleAt(ts)
                                       ELSE 0
    /\ UNCHANGED <<machineVars, now, readSince, inSync, up, nextPush, pushes>>

-----------------------------------------------------------------------------
\* The server.  What it writes leaves in the order of the client's channel.

Leave(at) == IF down = <<>> THEN at ELSE Latest(at, down[Len(down)].left)

Write(msg, left) ==
    \E delay \in DELAYS :
        down' = Append(down, [msg |-> msg, left |-> left,
                              at |-> Arrival(down, left + delay)])

\* The reader stamps the request's arrival; the writer stamps the reply as it leaves.
AnswerTime ==
    /\ up # <<>>
    /\ Head(up).at <= now
    /\ up' = Tail(up)
    /\ \E hold \in HOLDS :
          LET left == Leave(now + hold)
          IN  Write([kind |-> "time", received |-> now + OFFSET,
                     stamp |-> left + OFFSET], left)
    /\ UNCHANGED <<machineVars, now, driverVars, nextPush, pushes, playErr>>

Pushed == {[kind |-> "chunk", stamp |-> now + OFFSET]} \cup
          {[kind |-> "settings", settings |-> s] : s \in SETTINGS}

PushMessage ==
    /\ nextPush <= now
    /\ pushes > 0
    /\ pushes' = pushes - 1
    /\ \E gap \in GAPS : nextPush' = now + gap
    /\ \E msg \in Pushed : Write(msg, Leave(now))
    /\ UNCHANGED <<machineVars, now, driverVars, up, playErr>>

-----------------------------------------------------------------------------
\* When the next thing is to happen while the client reads.
Pending ==
    {readSince + READ_TIMEOUT} \cup
    (IF pushes = 0 THEN {} ELSE {nextPush}) \cup
    (IF up = <<>> THEN {} ELSE {Head(up).at}) \cup
    (IF down = <<>> THEN {} ELSE {Head(down).at})

Advance ==
    /\ phase = "read"
    /\ \E t \in Pending :
          /\ now < t /\ t <= MAX_TIME
          /\ \A u \in Pending : t <= u
          /\ now' = t
    /\ UNCHANGED <<machineVars, driverVars, networkVars, playErr>>

Next ==
    \/ BeginTick \/ ReadTimesOut \/ ReadTime \/ ReadSettings \/ ReadChunk
    \/ AnswerTime \/ PushMessage
    \/ Advance

Spec == Init /\ [][Next]_vars

-----------------------------------------------------------------------------
LeastIn(S)    == CHOOSE x \in S : \A y \in S : x <= y
GreatestIn(S) == CHOOSE x \in S : \A y \in S : x >= y

\* The longest a request may take to be answered, and the shortest.
LongestTrip  == 2 * GreatestIn(DELAYS) + GreatestIn(HOLDS)
ShortestTrip == 2 * LeastIn(DELAYS)

\* Every variable keeps to its type.
TypeOK ==
    /\ latencyBuf \in Seq(Int) /\ Len(latencyBuf) <= LATENCY_SAMPLES
    /\ sortedBuf \in [1 .. LATENCY_SAMPLES -> Int]
    /\ clockOffset \in Int
    /\ lastSent \in 0 .. now
    /\ serverBuffer \in TimeVals /\ localLatency \in TimeVals
    /\ now \in 0 .. MAX_TIME
    /\ phase \in {"poll", "read"} /\ readSince \in 0 .. now
    /\ inSync \in BOOLEAN
    /\ nextPush \in Nat /\ pushes \in 0 .. MAX_PUSHES
    /\ playErr \in Int

\* n samples lie at or below the upper middle x, and at most half of them below it.
IsUpperMedian(x, buf) ==
    LET Below   == {i \in DOMAIN buf : buf[i] < x}
        AtBelow == {i \in DOMAIN buf : buf[i] <= x}
    IN  /\ 2 * Cardinality(Below) <= Len(buf)
        /\ 2 * Cardinality(AtBelow) > Len(buf)

\* Once the buffer is full, the offset in use is the median of the newest samples:
\* nothing of the sorted buffer's earlier contents gets through (client.rs 136-142).
MedianWhenSynchronized == Synchronized => IsUpperMedian(clockOffset, latencyBuf)

\* A chunk that reaches the player is scheduled within one uplink's half, one
\* downlink and half a hold of its exact time, although a sample may be computed
\* with the time of a request it does not answer (client.rs 128, main.rs 86-93).
PlayoutWithin ==
    /\ 2 * playErr <= 2 * GreatestIn(DELAYS) + GreatestIn(HOLDS) + 1
    /\ -2 * playErr <= GreatestIn(DELAYS) + 1

\* A client becomes synchronized in the time its requests take, whatever is pushed in
\* between: it waits for the read timeout at most once, before its first request, and
\* that wait may begin just before the request is due. That is, if no reply comes back
\* before the next request is due: then it has nothing on its way and blocks in a read
\* for a whole timeout (client.rs 87 and 191).
SynchronizesInTime ==
    /\ ShortestTrip >= 1000
    /\ now >= 1000 + READ_TIMEOUT + LATENCY_SAMPLES * LongestTrip
    => Synchronized

\* Once synchronized, a request that is on its way is the last one sent, so that its
\* reply is measured against its own departure (client.rs 88-92, 128).
OneRequestWhenSynchronized ==
    LongestTrip < SECOND =>
        \A i \in DOMAIN up : up[i].synced => up[i].sent = lastSent

\* What the comment of feed_time_reply says (client.rs 327-330): with the same delay
\* both ways, the offset is recovered whatever the delay.
SamplesExact == \A i \in DOMAIN latencyBuf : latencyBuf[i] = OFFSET

=============================================================================
