---------------------------- MODULE PlayerClient ----------------------------
(***************************************************************************)
(* The client process of src/main.rs: the main thread, which reads         *)
(* messages (FrameReader), installs a decoder and a player for each codec  *)
(* header and queues the chunks, and the player thread, handle_samples,    *)
(* which sleeps until a chunk is due, decodes it and writes it.  They      *)
(* share the queue and two mutexes, which the player thread holds for as   *)
(* long as it writes.                                                      *)
(*                                                                         *)
(* Time is milliseconds of the client's clock and may pass at any point.   *)
(* TimeSync decides when a chunk is to sound and whether it is forwarded;  *)
(* here it is any time that is still to come.  A decoder and a player are  *)
(* the number of the codec header they were made for.                      *)
(***************************************************************************)
EXTENDS FrameReader, Integers, FiniteSets

CONSTANTS
    SCRIPTS,    \* what the server may send
    LATENCIES,  \* what latency_ms may say
    MAX_TIME    \* bound: how long a behaviour lasts

ASSUME PlayerAssumption ==
    /\ SCRIPTS # {} /\ SCRIPTS \subseteq Seq([kind : Kinds, size : Nat \ {0}])
    /\ LATENCIES # {} /\ LATENCIES \subseteq Nat
    /\ MAX_TIME \in Nat

None == 0     \* no decoder, no player, and garbage for a chunk

VARIABLES
    now,      \* the client's clock
    main,     \* main thread: in "tick", waiting to insert the "decoder", to "make" a
              \* player, waiting to insert the "player", or "ended" with the process
    fresh,    \* the codec header it handles
    thread,   \* player thread: "recv", "sleep", holding the "decoder", holding both
              \* and about to "play", in "write", or "dead" by a panic
    queue,    \* the chunks between them
    job,      \* the chunk the player thread has taken
    wake,     \* when its sleep is over
    lead,     \* player_lat_ms
    dec,      \* the decoder behind its mutex
    player,   \* the player behind its mutex
    played,   \* history: the chunk written last, how early, by whom, and the latency
              \* that was read for it
    unheard   \* history: how often main had a chunk to queue, or the codec header of
              \* one, when the player thread was dead

mainVars   == <<main, fresh, unheard>>
sharedVars == <<queue, dec, player>>
threadVars == <<thread, job, wake, lead, played>>
vars == <<frameVars, now, mainVars, sharedVars, threadVars>>

NoJob == [id |-> None, gen |-> None, due |-> 0]

Init ==
    /\ sent \in SCRIPTS
    /\ FrameInit
    /\ now = 0
    /\ main = "tick" /\ fresh = None /\ unheard = 0
    /\ thread = "recv" /\ job = NoJob /\ wake = 0
    /\ lead = 1
    /\ queue = <<>> /\ dec = None /\ player = None
    /\ played = [id |-> None, gen |-> None, ahead |-> 0, latency |-> 0,
                 dec |-> None, player |-> None]

\* How many codec headers the server had sent with message i.
Gen(i) == Cardinality({j \in 1 .. i : sent[j].kind = "codec"})

-----------------------------------------------------------------------------
\* The main thread.

Tick ==
    /\ main = "tick"
    /\ ReadUnit \/ ReadTimesOut \/ OnHeader
    /\ UNCHANGED <<now, mainVars, sharedVars, threadVars>>

\* tick fails: the connection, a request that cannot be written, bytes that do not
\* pass for a message; or no decoder can be made.  main returns.
Fails ==
    /\ main = "tick"
    /\ main' = "ended"
    /\ UNCHANGED <<frameVars, now, fresh, unheard, sharedVars, threadVars>>

\* Settings and Time, and a chunk that is late or came before synchronization.
HandleNothing ==
    /\ main = "tick"
    /\ OnPacket("other") \/ OnPacket("chunk")
    /\ UNCHANGED <<now, mainVars, sharedVars, threadVars>>

\* A panic of the player thread drops the receiver and poisons both mutexes.
Alive == thread # "dead"

\* Mutant of Queued: the newest chunk goes first.
QueuedFirst(chunk) == <<chunk>> \o queue

Queued(chunk) == Append(queue, chunk)

\* Mutant of SendFails: the error is ignored.
SendFailsUnseen == UNCHANGED main

\* The error of a dropped receiver ends main.
SendFails == main' = "ended"

\* Main has something for the player thread, in time or not.
Noticed == unheard' = IF Alive THEN unheard ELSE unheard + 1

\* sample_tx.send of a chunk that is forwarded.
HandleChunk ==
    /\ main = "tick"
    /\ OnPacket("chunk")
    /\ IF Alive
       THEN /\ \E due \in now .. MAX_TIME :
                  queue' = Queued([id |-> Received, gen |-> Gen(Received), due |-> due])
            /\ UNCHANGED main
       ELSE SendFails /\ UNCHANGED queue
    /\ Noticed
    /\ UNCHANGED <<now, fresh, dec, player, threadVars>>

\* Garbage does not pass for a codec header, whose name and lengths must match.
HandleCodec ==
    /\ main = "tick"
    /\ OnPacket("codec")
    /\ Received # None
    /\ fresh' = Gen(Received)
    /\ main' = "decoder"
    /\ Noticed
    /\ UNCHANGED <<now, sharedVars, threadVars>>

\* Mutants of DecoderFree and PlayerFree: the player thread never drops the guard.
DecoderFreeNever == FALSE
PlayerFreeNever  == FALSE

DecoderFree == thread \notin {"decoder", "play", "write"}
PlayerFree  == thread \notin {"play", "write"}

\* Mutant of Replace: what is there is kept.
ReplaceFirst(old, new) == IF old = None THEN new ELSE old

\* insert replaces what was there.
Replace(old, new) == new

\* lock().unwrap() succeeds.
Usable == Alive

InsertDecoder ==
    /\ main = "decoder"
    /\ IF Usable THEN /\ DecoderFree
                      /\ dec' = Replace(dec, fresh)
                      /\ main' = "make"
                 ELSE main' = "ended" /\ UNCHANGED dec
    /\ Noticed
    /\ UNCHANGED <<frameVars, now, fresh, queue, player, threadVars>>

\* make_player, before the mutex of the player is asked for.
MakePlayer ==
    /\ main = "make"
    /\ main' = "player"
    /\ UNCHANGED <<frameVars, now, fresh, unheard, sharedVars, threadVars>>

\* It fails, for instance as the player it is to replace has the device.
MakePlayerFails ==
    /\ main = "make"
    /\ main' = "ended"
    /\ UNCHANGED <<frameVars, now, fresh, unheard, sharedVars, threadVars>>

InsertPlayer ==
    /\ main = "player"
    /\ IF Usable THEN /\ PlayerFree
                      /\ player' = Replace(player, fresh)
                      /\ main' = "tick"
                 ELSE main' = "ended" /\ UNCHANGED player
    /\ fresh' = None
    /\ Noticed
    /\ UNCHANGED <<frameVars, now, queue, dec, threadVars>>

-----------------------------------------------------------------------------
\* The player thread; the process ends with main.

\* Mutant of WakeAt: no sleep.
WakeAtOnce(due) == now

\* The end of the sleep: the player's own latency before the chunk is due.
WakeAt(due) == IF due - now > lead THEN due - lead ELSE now

\* A chunk "in the past" is dropped; one that is due right now may go either way, as
\* the sign of the seconds of zero may (TimeVal.tla).
Take ==
    /\ main # "ended" /\ thread = "recv"
    /\ queue # <<>>
    /\ queue' = Tail(queue)
    /\ \/ /\ Head(queue).due <= now
          /\ UNCHANGED <<thread, job, wake>>
       \/ /\ Head(queue).due >= now
          /\ thread' = "sleep"
          /\ job' = Head(queue)
          /\ wake' = WakeAt(Head(queue).due)
    /\ UNCHANGED <<frameVars, now, mainVars, dec, player, lead, played>>

\* The end of an iteration: the guards are dropped.
Iterated == thread' = "recv" /\ job' = NoJob /\ wake' = 0

\* The guard of the decoder is held to the end of the iteration, and so is the player's.
LockDecoder ==
    /\ main # "ended" /\ thread = "sleep"
    /\ now >= wake
    /\ IF dec = None THEN Iterated ELSE thread' = "decoder" /\ UNCHANGED <<job, wake>>
    /\ UNCHANGED <<frameVars, now, mainVars, sharedVars, lead, played>>

LockPlayer ==
    /\ main # "ended" /\ thread = "decoder"
    /\ IF player = None THEN Iterated ELSE thread' = "play" /\ UNCHANGED <<job, wake>>
    /\ UNCHANGED <<frameVars, now, mainVars, sharedVars, lead, played>>

Lead(latency) == IF latency > 1 THEN latency ELSE 1

\* latency_ms, decode_sample, play and the call of write.
StartWrite ==
    /\ main # "ended" /\ thread = "play"
    /\ thread' = "write"
    /\ \E latency \in LATENCIES :
          /\ lead' = Lead(latency)
          /\ played' = [id |-> job.id, gen |-> job.gen, ahead |-> job.due - now,
                        latency |-> latency, dec |-> dec, player |-> player]
    /\ UNCHANGED <<frameVars, now, mainVars, sharedVars, job, wake>>

FinishWrite ==
    /\ main # "ended" /\ thread = "write"
    /\ Iterated
    /\ UNCHANGED <<frameVars, now, mainVars, sharedVars, lead, played>>

\* One of the unwraps: the backend fails, or a decoder refuses bytes of another codec.
Panic ==
    /\ main # "ended" /\ thread \in {"play", "write"}
    /\ thread' = "dead"
    /\ queue' = <<>>
    /\ UNCHANGED <<frameVars, now, mainVars, dec, player, job, wake, lead, played>>

TimePasses ==
    /\ main # "ended"
    /\ now < MAX_TIME
    /\ now' = now + 1
    /\ UNCHANGED <<frameVars, mainVars, sharedVars, threadVars>>

Next ==
    \/ Tick \/ Fails \/ HandleNothing \/ HandleChunk \/ HandleCodec
    \/ InsertDecoder \/ MakePlayer \/ MakePlayerFails \/ InsertPlayer
    \/ Take \/ LockDecoder \/ LockPlayer \/ StartWrite \/ FinishWrite \/ Panic
    \/ TimePasses

Spec == Init /\ [][Next]_vars

\* Both threads are scheduled, a write and make_player return, and time goes on.  Nothing
\* is asked of the socket, and the mutexes need not be fair: a thread gets one only if it
\* stays free.
ThreadsFair ==
    /\ WF_vars(InsertDecoder) /\ WF_vars(MakePlayer \/ MakePlayerFails)
    /\ WF_vars(InsertPlayer)
    /\ WF_vars(Take) /\ WF_vars(LockDecoder) /\ WF_vars(LockPlayer)
    /\ WF_vars(StartWrite \/ Panic) /\ WF_vars(FinishWrite \/ Panic)

FairSpec == Spec /\ ThreadsFair /\ WF_vars(TimePasses)

-----------------------------------------------------------------------------
Chunks == [id : 0 .. Len(sent), gen : 0 .. Len(sent), due : 0 .. MAX_TIME]

\* Every variable keeps to its type.
TypeOK ==
    /\ sent \in SCRIPTS
    /\ FrameTypes
    /\ now \in 0 .. MAX_TIME
    /\ main \in {"tick", "decoder", "make", "player", "ended"}
    /\ fresh \in 0 .. Len(sent) /\ unheard \in Nat
    /\ thread \in {"recv", "sleep", "decoder", "play", "write", "dead"}
    /\ queue \in Seq(Chunks) /\ job \in Chunks \cup {NoJob}
    /\ wake \in 0 .. MAX_TIME /\ lead \in Nat \ {0}
    /\ dec \in 0 .. Len(sent) /\ player \in 0 .. Len(sent)
    /\ played \in [id : 0 .. Len(sent), gen : 0 .. Len(sent), ahead : Int,
                  latency : Nat, dec : 0 .. Len(sent), player : 0 .. Len(sent)]

\* A timeout loses nothing as long as it takes no half-read header or payload with it,
\* not even one between the two: what passes for a message is the one whose turn it is
\* (framing.rs 15-17, client.rs 233-260).
InStep == ~torn /\ framing # NoBase => framing.of > 0 /\ start[1] = framing.of

\* The chunks that are heard are heard in the order in which they were sent.
PlayedInOrder == [][played' # played => torn \/ played'.id > played.id]_vars

\* handle_samples sleeps before it asks the player for its latency, so "the player's own
\* latency of lead" (main.rs 122) is what was read for the chunk before, 1 ms at first: no
\* chunk is written earlier than that.  Where a codec header has replaced the player since,
\* it is still the old one's latency, for this one chunk (main.rs 122-127, 137).
NeverEarly == [][played' # played => played'.ahead <= Lead(played.latency)]_vars

\* A chunk may meet the decoder and the player of a LATER codec header, when it was
\* queued before that was read, but never those of an earlier one: main installs both
\* before it reads on (main.rs 82-84, 91).
NeverBehind ==
    ~torn => /\ played.gen <= played.dec
             /\ played.gen <= played.player

\* A client whose player thread has panicked ends instead of going on in silence: with
\* the next chunk to be played, whose send fails, with the next codec header, or with the
\* one it is installing, whose mutex is poisoned (main.rs 82-84, 91).
DeadPlayerEnds == unheard > 0 ~> main = "ended"

\* A codec header that waits for a mutex the player thread takes again and again does
\* get it, fair or not: the main thread, which waits, is the only one that queues.  One
\* whose player could be made is installed, unless the player thread panics.
CodecInstalled ==
    /\ main \in {"decoder", "make"} ~> main \in {"player", "ended"}
    /\ main = "player" ~> main = "tick" \/ thread = "dead"

=============================================================================
