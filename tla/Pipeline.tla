------------------------------ MODULE Pipeline ------------------------------
(***************************************************************************)
(* The audio pipeline of the server: server/src/pipeline.rs as librespot   *)
(* drives it through server/src/sink.rs.  Audio is pushed in packets,      *)
(* resampled in batches, cut into opus frames, and each frame is handed to *)
(* the registry at its presentation instant.                               *)
(*                                                                         *)
(* Audio and time have the same unit, a slice that divides a batch and a   *)
(* frame; both channels have the same length.  The two readings of the     *)
(* clock in pace are one step with what is computed from them; time may    *)
(* pass at any other point, so a sleep may last longer than asked and the  *)
(* fan-out of a frame may block.                                           *)
(***************************************************************************)
EXTENDS Integers

CONSTANTS
    IN_CHUNK,   \* what the resampler takes at a time (20 ms)
    FRAME,      \* one opus frame, chunk_ms
    PACKETS,    \* sizes of the packets of the source
    MAX_FAILURES,  \* bound: how often the resampler or the encoder fails
    MAX_TIME    \* bound: how long a behaviour lasts

ASSUME PipelineAssumption ==
    /\ IN_CHUNK \in Nat \ {0}
    /\ FRAME \in Nat \ {0}
    /\ PACKETS \subseteq Nat \ {0}
    /\ MAX_FAILURES \in Nat
    /\ MAX_TIME \in Nat

Unset == -1     \* the None of t0_us, and no frame handed out yet

VARIABLES
    now,       \* the server's clock
    running,   \* whether librespot has the sink started
    inLen,     \* length of in_l and in_r
    outLen,    \* length of out_l and out_r
    t0,        \* t0_us
    count,     \* chunks_since_anchor
    phase,     \* "idle"; "emit": frames are to be emitted; "pace": one is timed
    target,    \* the timestamp of the frame being timed
    failures,  \* how often the resampler or the encoder failed
    \* history
    lastTs,    \* timestamp of the frame handed out last
    resumed,   \* whether the sink was started since
    pastDated, \* frames handed out after their time since the clock last moved
    ahead      \* audio handed out since the sink was started, less the time since

audioVars   == <<inLen, outLen>>
anchorVars  == <<t0, count>>
historyVars == <<lastTs, resumed, pastDated, ahead>>
vars == <<now, running, audioVars, anchorVars, phase, target, failures, historyVars>>

Init ==
    /\ now = 0
    /\ running = FALSE
    /\ inLen = 0
    /\ outLen = 0
    /\ t0 = Unset
    /\ count = 0
    /\ phase = "idle"
    /\ target = 0
    /\ failures = 0
    /\ lastTs = Unset
    /\ resumed = FALSE
    /\ pastDated = 0
    /\ ahead = 0

-----------------------------------------------------------------------------
\* The calls of the sink.

\* Both flush_with_silence and push end by emitting every whole frame.
EmitFrom(len) == phase' = IF len >= FRAME THEN "emit" ELSE "idle"

\* Mutant of Anchorless: the clock keeps the anchor of the audio that was dropped.
AnchorKept == t0' = t0 /\ count' = 0

Anchorless == t0' = Unset /\ count' = 0

\* start: reanchor.
Start ==
    /\ phase = "idle" /\ ~running
    /\ running' = TRUE
    /\ Anchorless
    /\ inLen' = 0 /\ outLen' = 0
    /\ resumed' = TRUE
    /\ ahead' = 0
    /\ UNCHANGED <<now, phase, target, failures, lastTs, pastDated>>

\* What is left of the input once its whole batches are resampled.
Remainder(len) == len % IN_CHUNK

\* write: push.
Push ==
    /\ phase = "idle" /\ running
    /\ \E n \in PACKETS :
          /\ inLen' = Remainder(inLen + n)
          /\ outLen' = outLen + (inLen + n - inLen')
    /\ EmitFrom(outLen')
    /\ UNCHANGED <<now, running, anchorVars, target, failures, historyVars>>

\* The resampler fails on a batch, which is gone: push returns before it emits, with
\* the batches before in the output and those behind still in the input.
PushFails ==
    /\ phase = "idle" /\ running
    /\ failures < MAX_FAILURES /\ failures' = failures + 1
    /\ \E n \in PACKETS : \E done \in 0 .. (inLen + n) \div IN_CHUNK - 1 :
          /\ inLen' = inLen + n - (done + 1) * IN_CHUNK
          /\ outLen' = outLen + done * IN_CHUNK
    /\ UNCHANGED <<now, running, anchorVars, phase, target, historyVars>>

\* The length rounded up to whole frames.
Padded(len) == IF len % FRAME = 0 THEN len ELSE len + (FRAME - (len % FRAME))

\* stop: flush_with_silence.
Stop ==
    /\ phase = "idle" /\ running
    /\ running' = FALSE
    /\ outLen' = Padded(outLen)
    /\ EmitFrom(outLen')
    /\ UNCHANGED <<now, inLen, anchorVars, target, failures, historyVars>>

-----------------------------------------------------------------------------
\* emit_frame.

Anchor == IF t0 = Unset THEN now ELSE t0

\* When the next frame is due by the anchor.
Due == Anchor + count * FRAME

\* Mutants of Stalled: the clock is never re-anchored; only once far behind.
StalledNever == FALSE
StalledFar   == now - Due > 3 * FRAME

\* More than a frame behind.
Stalled == now - Due > FRAME

\* Mutant of Reanchored: only the count starts again, so that each frame that follows is
\* taken for late as well.
ReanchoredCount == t0' = Anchor /\ count' = 0 /\ target' = now

Reanchored == t0' = now /\ count' = 0 /\ target' = now

Pace ==
    /\ phase = "emit"
    /\ outLen' = outLen - FRAME
    /\ phase' = "pace"
    /\ IF Stalled THEN Reanchored
                  ELSE t0' = Anchor /\ UNCHANGED count /\ target' = Due
    /\ UNCHANGED <<now, running, inLen, failures, historyVars>>

\* The encoder fails: the frame is gone and the call returns.
EncodeFails ==
    /\ phase = "emit"
    /\ failures < MAX_FAILURES /\ failures' = failures + 1
    /\ outLen' = outLen - FRAME
    /\ phase' = "idle"
    /\ UNCHANGED <<now, running, inLen, anchorVars, target, historyVars>>

\* The sleep of pace is over.
Rested == now >= target

\* broadcast_chunk.
HandOut ==
    /\ phase = "pace"
    /\ Rested
    /\ count' = count + 1
    /\ lastTs' = target
    /\ resumed' = FALSE
    /\ pastDated' = pastDated + (IF target < now THEN 1 ELSE 0)
    /\ ahead' = ahead + FRAME
    /\ EmitFrom(outLen)
    /\ UNCHANGED <<now, running, audioVars, t0, target, failures>>

Tick ==
    /\ now < MAX_TIME
    /\ now' = now + 1
    /\ pastDated' = 0
    /\ ahead' = ahead - 1
    /\ UNCHANGED <<running, audioVars, anchorVars, phase, target, failures, lastTs,
                   resumed>>

Next == Start \/ Push \/ PushFails \/ Stop \/ Pace \/ EncodeFails \/ HandOut \/ Tick

Spec == Init /\ [][Next]_vars

-----------------------------------------------------------------------------
\* Every variable keeps to its type.
TypeOK ==
    /\ now \in 0 .. MAX_TIME
    /\ running \in BOOLEAN
    /\ inLen \in Nat
    /\ outLen \in Nat
    /\ t0 \in {Unset} \cup 0 .. now
    /\ count \in Nat
    /\ phase \in {"idle", "emit", "pace"}
    /\ target \in Nat
    /\ lastTs \in {Unset} \cup Nat
    /\ resumed \in BOOLEAN
    /\ failures \in 0 .. MAX_FAILURES
    /\ pastDated \in Nat
    /\ ahead \in Int

\* "its pacing sleep is what throttles that source" (pipeline.rs 24): through every
\* stall, re-anchoring and failure, the source is let run ahead of real time by a frame
\* at most from the start of the sink on, however much audio it has.
Throttled == ahead <= FRAME

\* "so a stalled source does not emit a burst of past-dated chunks" (pipeline.rs
\* 153-154): at most two frames in a row are handed out after their time, however
\* long the source, the sleep or the fan-out was held up.
NoBurst == pastDated <= 2

\* The timestamps of one stream are a frame apart or more, through every re-anchoring
\* of pace; where the sink was started in between they still never go back.
InOrder ==
    [][HandOut /\ lastTs # Unset =>
          lastTs' >= lastTs + (IF resumed THEN 0 ELSE FRAME)]_vars

\* What the comment of flush_with_silence says (pipeline.rs 87-88): the tail of a
\* track is not swallowed when the source stops.
TailEmitted ==
    phase = "idle" /\ ~running /\ failures = 0 => inLen = 0 /\ outLen = 0

=============================================================================
