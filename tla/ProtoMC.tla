------------------------------ MODULE ProtoMC -------------------------------
(***************************************************************************)
(* src/proto.rs for TLC: the arithmetic of TimeValMC and the messages of   *)
(* Exchange, one beside the other.                                         *)
(***************************************************************************)
EXTENDS TimeValMC, Exchange

\* The first and the last id, two times.
Ids   == {0, 65535}
Times == {TV(0, 7), TV(8, 999999)}

\* No data, and data of three bytes.
Data == {<< >>, Field("data", 3)}

\* What the server sends, and what others do that the client can play.
CD48 == [rate |-> 48000, depth |-> 16, channels |-> 2]
CD44 == [rate |-> 44100, depth |-> 16, channels |-> 2]
Formats == {[codec |-> "opus", format |-> CD48],
            [codec |-> "flac", format |-> CD48], [codec |-> "flac", format |-> CD44],
            [codec |-> "pcm", format |-> CD48]}

\* Around half a percent at both ends, and in the middle.
Dials == {0, 327, 328, 32768, 65207, 65208, 65535}

\* Every type there is and one that is not, lengths of the payload around those of Time
\* and Hello and around the greatest allowed, lengths of the JSON around its own.
Lies == ({0} \X {2} \X (0 .. 8))
        \cup ({22} \X {4} \X {0, 3, 4, 7, 8, 9, JSON + 3, JSON + 5, MAX_PAYLOAD, MAX_PAYLOAD + 1})
        \cup ({26} \X {4} \X {0, 4, JSON - 1, JSON + 1, 2 * MAX_PAYLOAD})

\* The two have nothing in common: a behaviour is of one of them.
ProtoInit == Init /\ WireInit
ProtoNext ==
    \/ Next /\ up = << >> /\ down = << >> /\ got = Nothing /\ UNCHANGED wireVars
    \/ WireNext /\ left = MAX_TERMS /\ UNCHANGED vars

ProtoSpec == ProtoInit /\ [][ProtoNext]_<<vars, wireVars>>
=============================================================================
