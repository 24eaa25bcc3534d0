--------------------------- MODULE ClientProcessMC --------------------------
(* Instances of ClientProcess for TLC: the .cfg file binds the constants.     *)
EXTENDS ClientProcess

\* A codec header, or nothing, and then chunks around a change of codec.  The payload
\* of a chunk has two units, so that it can be cut in the middle.
Codec == [kind |-> "codec", size |-> 1]
Chunk == [kind |-> "chunk", size |-> 2]
Other == [kind |-> "other", size |-> 1]
Scripts == {<<Codec, Chunk, Chunk>>, <<Codec, Chunk, Codec>>, <<Codec, Codec, Chunk>>,
            <<Chunk, Codec, Other>>}

\* Datagrams of two hosts: a whole answer; one record of the two; two addresses after a
\* question; one cut short of its address; an address of the wrong length.
Entry(type, host) == [type |-> type, fits |-> TRUE, host |-> host]
Misfit == [type |-> "A", fits |-> FALSE, host |-> 2]
Answer(q, n, entries) == [questions |-> q, records |-> n, body |-> entries]
Answers == {
    Answer(0, 2, <<Entry("SRV", 1), Entry("A", 1)>>),
    Answer(0, 1, <<Entry("A", 1)>>),
    Answer(1, 3, <<Entry("question", 1), Entry("A", 1), Entry("SRV", 2), Entry("A", 2)>>),
    Answer(0, 2, <<Entry("SRV", 2)>>),
    Answer(0, 2, <<Misfit, Entry("SRV", 2)>>)}
=============================================================================
