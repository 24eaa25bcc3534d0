--------------------------- MODULE ClientMachine ----------------------------
(***************************************************************************)
(* The socket-free client core of src/client.rs: the estimate of the       *)
(* server's clock and the schedule of a chunk.  Each handler is an         *)
(* operator on the machine's variables; TimeSync gives them a driver, a    *)
(* network and a server.                                                   *)
(*                                                                         *)
(* Times are microseconds.  The offsets, which the code keeps as TimeVals, *)
(* are kept as the microseconds they stand for: they are canonical         *)
(* (TimeValProofs!OffsetsCanonical), so order and equality agree.  The     *)
(* schedule of a chunk is computed with TimeVals, whose carry decides it.  *)
(* A message is taken framed and decoded, and the packet id, which no      *)
(* reader of it uses, is left out.                                         *)
(***************************************************************************)
EXTENDS TimeVal, Sequences, Functions

CONSTANT LATENCY_SAMPLES   \* size of the offset buffer, 20 in the code

ASSUME MachineAssumption == LATENCY_SAMPLES \in Nat \ {0}

VARIABLES
    latencyBuf,    \* latency_buf: the newest offsets, oldest first
    sortedBuf,     \* sorted_latency_buf, always LATENCY_SAMPLES long
    clockOffset,   \* clock_offset
    lastSent,      \* last_sent_time, and last_time_sent_us: set together
    serverBuffer,  \* server_buffer_ms
    localLatency   \* local_latency

machineVars == <<latencyBuf, sortedBuf, clockOffset, lastSent, serverBuffer,
                 localLatency>>

MachineInit ==
    /\ latencyBuf = <<>>
    /\ sortedBuf = [i \in 1 .. LATENCY_SAMPLES |-> 0]
    /\ clockOffset = 1000
    /\ lastSent = 0
    /\ serverBuffer = TV(0, 999999)
    /\ localLatency = TV(0, 0)

Synchronized == Len(latencyBuf) = LATENCY_SAMPLES

-----------------------------------------------------------------------------
\* poll_transmit.

\* Mutants of Due: requests stay dense once synchronized; they are never dense.
DueAlwaysDense(now)  == now - lastSent >= 1000
DueAlwaysSparse(now) == now - lastSent >= SECOND

Due(now) ==
    \/ ~Synchronized /\ now - lastSent >= 1000
    \/ now - lastSent >= SECOND

PollTransmit(now) ==
    /\ Due(now)
    /\ lastSent' = now
    /\ UNCHANGED <<latencyBuf, sortedBuf, clockOffset, serverBuffer, localLatency>>

-----------------------------------------------------------------------------
\* process_packet.

\* Mutant of Offset: the sum, which cancels the offset instead of the delay.
OffsetSummed(received, sent, now) ==
    Quotient((received - lastSent) + (now - sent), 2)

\* Half the difference of what the two directions seem to take.  The code subtracts
\* the time of the LAST request, whichever request the reply answers.
Offset(received, sent, now) == Quotient((received - lastSent) - (now - sent), 2)

\* Mutant of Push: nothing is ever dropped.
PushGrows(buf, x) == Append(buf, x)

\* CircularBuffer::push_back: a full buffer drops its oldest element.
Push(buf, x) == Append(IF Len(buf) < LATENCY_SAMPLES THEN buf ELSE Tail(buf), x)

\* Mutant of Overwrite: only the newest sample is copied.
OverwriteNewest(old, buf) == [old EXCEPT ![Len(buf)] = buf[Len(buf)]]

\* The samples are copied over the front of the previous sorted buffer.
Overwrite(old, buf) ==
    [i \in 1 .. LATENCY_SAMPLES |-> IF i <= Len(buf) THEN buf[i] ELSE old[i]]

Ascending(s) == \A i, j \in DOMAIN s : i < j => s[i] <= s[j]

\* sort: the same elements in ascending order.
Sorted(buf) ==
    CHOOSE s \in {[i \in DOMAIN buf |-> buf[p[i]]] :
                      p \in Surjection(DOMAIN buf, DOMAIN buf)} : Ascending(s)

\* The middle of the topmost n elements of a sorted buffer.
Middle(sorted, n) == sorted[LATENCY_SAMPLES - n + (n \div 2) + 1]

\* A Time reply, received and sent at these times of the server's clock.
OnTime(received, sent, now) ==
    /\ latencyBuf' = Push(latencyBuf, Offset(received, sent, now))
    /\ sortedBuf' = Sorted(Overwrite(sortedBuf, latencyBuf'))
    /\ clockOffset' = Middle(sortedBuf', Len(latencyBuf'))
    /\ UNCHANGED <<lastSent, serverBuffer, localLatency>>

FromMillis(ms) == Normalize(TV(0, ms * 1000))

OnSettings(bufferMs, latency) ==
    /\ serverBuffer' = FromMillis(bufferMs)
    /\ localLatency' = FromMillis(latency)
    /\ UNCHANGED <<latencyBuf, sortedBuf, clockOffset, lastSent>>

\* When a chunk of server time ts should sound, on the client's clock.
AudibleAt(ts) ==
    Sub(Add(Sub(FromMicros(ts), Normalize(FromMicros(clockOffset))), serverBuffer),
        localLatency)

\* A chunk is only forwarded when it is still to sound.
Expired(ts, now) == Sub(AudibleAt(ts), FromMicros(now)).sec < 0

=============================================================================
