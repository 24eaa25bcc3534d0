--------------------------- MODULE StreamServerMC ---------------------------
(* Instances of StreamServer for TLC: the .cfg files bind the constants.      *)
EXTENDS ServerDelivery, TLC, FiniteSets

\* Connections are interchangeable.  So are event tasks, the first of which may as well be
\* the one that sends the first volume.
Symmetry == Permutations(Conns)
FirstTask == CHOOSE t \in Tasks : TRUE

\* The state without the histories.  No guard reads them, so two states with the same
\* view have the same future.
WithoutHistory ==
    <<sockVars, readerVars, regVars, chanVars, pipeVars, sending, rest, vol>>

\* A time request was answered, or is about to be.
Asked ==
    \/ \E c \in Conns : reader[c] = "reply"
    \/ \E id \in ClientId : "reply" \in given[id]

\* Bound: one registration sees two volume changes and requests for the time; two of one
\* connection see one or the other; of two connections, neither.
OneOrTheOther ==
    /\ volume < 2 => \A t \in Tasks \ {FirstTask} : sending[t] = NoId
    /\ \/ nextId < 2 /\ Cardinality({c \in Conns : sock[c] # "new"}) < 2
       \/ /\ Cardinality({c \in Conns : sock[c] # "new"}) < 2
          /\ volume = 0 \/ (volume = 1 /\ ~Asked)
       \/ volume = 0 /\ ~Asked

\* Bound: the source is paused from the start (broadcast_chunk is never called),
\* each connection greets once and none of them fails.
PausedAndWell ==
    /\ pipe = "idle"
    /\ \A c \in Conns :
          /\ sock[c] # "shut" /\ reader[c] \notin {"leave", "close", "done"}
          /\ helloId[c] # NoId => myId[c] = NoId
=============================================================================
