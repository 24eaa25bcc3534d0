---------------------------- MODULE FrameReader -----------------------------
(***************************************************************************)
(* How the client reads messages off its socket: the framing of            *)
(* src/framing.rs and the two read_exact calls of ConnectedClient::tick    *)
(* in src/client.rs.  PlayerClient gives it a main loop.                   *)
(*                                                                         *)
(* The stream is the messages of sent, each HEADER units of header and     *)
(* then its payload.  A unit is named by its place in the stream, so a     *)
(* read that lasts over the right units is the only one that gets a        *)
(* message; any other gets Garbage.  How slow the stream is shows only in  *)
(* the timeouts, which may fall before any unit.                           *)
(***************************************************************************)
EXTENDS Naturals, Sequences

CONSTANTS
    HEADER,       \* units of a header, 26 bytes in the code
    GARBAGE_SIZES \* bound: payload sizes a header of garbage may announce

ASSUME FrameAssumption ==
    /\ HEADER \in Nat \ {0}
    /\ GARBAGE_SIZES \subseteq Nat

Kinds == {"chunk", "codec", "other"}    \* "other": settings and Time replies

VARIABLES
    sent,     \* what the server sends: records of a kind and a size
    next,     \* the unit to be read next: <<message, unit>>
    start,    \* the unit the current read_exact began with
    got,      \* how many units it has read
    framing,  \* FramingState: NoBase is ReadingHeader, else the parsed header
    torn      \* history: a timeout lost units that had been read

frameVars == <<sent, next, start, got, framing, torn>>

\* of: the message the header is of, 0 if it was parsed from garbage.
Bases  == [kind : Kinds, size : Nat, of : Nat]
NoBase == [kind |-> "none", size |-> 0, of |-> 0]

FrameInit ==
    /\ next = <<1, 0>> /\ start = <<1, 0>>
    /\ got = 0
    /\ framing = NoBase
    /\ torn = FALSE

AtEnd == next[1] > Len(sent)

After(unit) ==
    IF unit[2] + 1 < HEADER + sent[unit[1]].size THEN <<unit[1], unit[2] + 1>>
                                                 ELSE <<unit[1] + 1, 0>>

\* next_action: how much the driver is to read.
Needed == IF framing = NoBase THEN HEADER ELSE framing.size

-----------------------------------------------------------------------------
\* A read inside read_exact returns a unit.
ReadUnit ==
    /\ got < Needed
    /\ ~AtEnd
    /\ got' = got + 1
    /\ next' = After(next)
    /\ UNCHANGED <<sent, start, framing, torn>>

\* Mutant of KeepFraming: a timeout starts over with a header.
ForgetFraming == framing' = NoBase

KeepFraming == framing' = framing

\* No unit for READ_TIMEOUT: read_exact fails, and what it had read is gone.  tick
\* returns Nothing and the next one reads from where the stream is now.
ReadTimesOut ==
    /\ got < Needed
    /\ got' = 0
    /\ start' = next
    /\ torn' = (torn \/ got > 0)
    /\ KeepFraming
    /\ UNCHANGED <<sent, next>>

\* Base::try_from: the header of a message, or what a run of other bytes passes for.
Parsed ==
    IF start[2] = 0
    THEN {[kind |-> sent[start[1]].kind, size |-> sent[start[1]].size, of |-> start[1]]}
    ELSE [kind : Kinds, size : GARBAGE_SIZES, of : {0}]

\* handle_event(HeaderReceived): on_header, when the bytes pass for a header.
OnHeader ==
    /\ framing = NoBase
    /\ got = HEADER
    /\ framing' \in Parsed
    /\ got' = 0
    /\ start' = next
    /\ UNCHANGED <<sent, next, torn>>

\* The message whose header was parsed is the one that was read, whole.
Intact == framing.of > 0 /\ start = <<framing.of, HEADER>>

\* Which message was read, 0 for garbage.
Received == IF Intact THEN framing.of ELSE 0

\* handle_event(PacketReceived): take_base, with the payload read.
OnPacket(kind) ==
    /\ framing # NoBase
    /\ got = Needed
    /\ framing.kind = kind
    /\ framing' = NoBase
    /\ got' = 0
    /\ start' = next
    /\ UNCHANGED <<sent, next, torn>>

\* The variables of the reader keep to their types.
FrameTypes ==
    /\ next \in Nat \X Nat /\ start \in Nat \X Nat
    /\ framing \in Bases \cup {NoBase}
    /\ got \in 0 .. Needed
    /\ torn \in BOOLEAN

=============================================================================
