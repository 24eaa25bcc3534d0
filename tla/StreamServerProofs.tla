------------------------- MODULE StreamServerProofs -------------------------
(***************************************************************************)
(* Proofs about StreamServer, for every number of connections and event    *)
(* tasks, channel capacity, limit, and bound on registrations and volumes. *)
(***************************************************************************)
EXTENDS StreamServer, TLAPS

USE ConstantsAssumption DEF ConstantsAssumption

-----------------------------------------------------------------------------
\* Types.

LEMMA InitType == Init => TypeOK
<1> SUFFICES ASSUME Init PROVE TypeOK
    OBVIOUS
<1> USE DEF Init, ClientId, NoId, NotFull, Untold, Volume
<1>1. SocketTypes    BY DEF SocketTypes
<1>2. ReaderTypes    BY DEF ReaderTypes
<1>3. RegistryTypes
  <2>1. \E c \in Conns : TRUE
        OBVIOUS
  <2>2. (CHOOSE c \in Conns : TRUE) \in Conns
        BY <2>1, Zenon
  <2>3. connOf \in [ClientId -> Conns]
        BY <2>2
  <2>4. clients \in SUBSET ClientId
        OBVIOUS
  <2>5. fullFor \in [ClientId -> -1 .. LIMIT + 1]
        OBVIOUS
  <2>6. volume \in Volume /\ nextId \in 0 .. MAX_CLIENT_ID
        OBVIOUS
  <2> HIDE DEF Init, ClientId, Volume
  <2> QED BY <2>3, <2>4, <2>5, <2>6 DEF RegistryTypes
<1>4. ChannelTypes   BY DEF ChannelTypes
<1>5. PipeTypes      BY DEF PipeTypes
<1>6. TaskTypes      BY DEF TaskTypes
<1>7. HistTypes      BY DEF HistTypes
<1> QED BY <1>1, <1>2, <1>3, <1>4, <1>5, <1>6, <1>7 DEF TypeOK

\* A group of variables that a step leaves alone keeps its types.
LEMMA KeptTypes ==
    ASSUME TypeOK
    PROVE  /\ UNCHANGED sockVars   => SocketTypes'
           /\ UNCHANGED readerVars => ReaderTypes'
           /\ UNCHANGED regVars    => RegistryTypes'
           /\ UNCHANGED chanVars   => ChannelTypes'
           /\ UNCHANGED pipeVars   => PipeTypes'
           /\ UNCHANGED taskVars   => TaskTypes'
           /\ UNCHANGED histVars   => HistTypes'
<1>1. UNCHANGED sockVars => SocketTypes'
      BY DEF TypeOK, SocketTypes, sockVars
<1>2. UNCHANGED readerVars => ReaderTypes'
      BY DEF TypeOK, ReaderTypes, readerVars
<1>3. UNCHANGED regVars => RegistryTypes'
      BY DEF TypeOK, RegistryTypes, regVars
<1>4. UNCHANGED chanVars => ChannelTypes'
      BY DEF TypeOK, ChannelTypes, chanVars
<1>5. UNCHANGED pipeVars => PipeTypes'
      BY DEF TypeOK, PipeTypes, pipeVars
<1>6. UNCHANGED taskVars => TaskTypes'
      BY DEF TypeOK, TaskTypes, taskVars
<1>7. UNCHANGED histVars => HistTypes'
      BY DEF TypeOK, HistTypes, histVars
<1> QED BY <1>1, <1>2, <1>3, <1>4, <1>5, <1>6, <1>7

\* What the shared pieces do to the types.
LEMMA EnqueueTypes ==
    ASSUME ChannelTypes, NEW id, NEW m, Room(id), Enqueue(id, m),
           UNCHANGED <<writer, inHand>>
    PROVE  ChannelTypes'
<1>1. \A i \in ClientId : queue'[i] \in 0 .. CHANNEL_SLOTS
  <2> TAKE i \in ClientId
  <2>1. CASE i = id    BY <2>1 DEF ChannelTypes, Room, Enqueue
  <2>2. CASE i # id    BY <2>2 DEF ChannelTypes, Enqueue
  <2> QED BY <2>1, <2>2
<1> QED BY <1>1 DEF ChannelTypes, Enqueue

LEMMA RemoveTypes ==
    ASSUME RegistryTypes, NEW id, Remove(id), UNCHANGED <<connOf, volume, nextId>>
    PROVE  RegistryTypes'
  BY DEF RegistryTypes, Remove, NotFull

LEMMA TurnTypes ==
    ASSUME TaskTypes, NEW t \in Tasks, NEW ids \in SUBSET ClientId, NEW v \in Volume,
           Turn(t, ids, v), overtaken' \in SUBSET ClientId
    PROVE  TaskTypes'
  BY DEF TaskTypes, Turn, Volume

LEMMA ReaderStepType ==
    ASSUME TypeOK, NEW c \in Conns, Accept(c) \/ ReaderStep(c)
    PROVE  TypeOK'
<1>1. CASE Accept(c)
  <2>1. SocketTypes'
        BY <1>1 DEF TypeOK, Accept, SocketTypes
  <2>2. ReaderTypes'
        BY <1>1 DEF TypeOK, Accept, ReaderTypes, ClientId, NoId, Volume
  <2> QED BY <1>1, <2>1, <2>2, KeptTypes DEF Accept, TypeOK
<1>2. CASE Hello(c)
  <2>1. ReaderTypes'
        BY <1>2, SMTT(30) DEF TypeOK, Hello, ReaderTypes, ClientId, NoId, Volume, RegistryTypes
  <2>2. RegistryTypes'
        BY <1>2 DEF TypeOK, Hello, RegistryTypes, ClientId, NotFull
  <2>3. ChannelTypes'
        BY <1>2 DEF TypeOK, Hello, ChannelTypes, RegistryTypes, ClientId
  <2> QED BY <1>2, <2>1, <2>2, <2>3, KeptTypes DEF Hello, TypeOK
<1>3. CASE HelloFails(c)
  <2>1. ReaderTypes'
        BY <1>3 DEF TypeOK, HelloFails, ReaderTypes, ClientId, NoId, Volume
  <2> QED BY <1>3, <2>1, KeptTypes DEF HelloFails, TypeOK
<1>4. CASE RecvTime(c)
  <2>1. ReaderTypes'
        BY <1>4 DEF TypeOK, RecvTime, ReaderTypes, ClientId, NoId, Volume
  <2> QED BY <1>4, <2>1, KeptTypes DEF RecvTime, TypeOK
<1>5. CASE ReadFails(c)
  <2>1. ReaderTypes'
        BY <1>5 DEF TypeOK, ReadFails, ReaderTypes, ClientId, NoId, Volume
  <2> QED BY <1>5, <2>1, KeptTypes DEF ReadFails, TypeOK
<1>6. CASE ReadSettings(c)
  <2>1. ReaderTypes'
        BY <1>6 DEF TypeOK, ReadSettings, ReaderTypes, ClientId, NoId, Volume, RegistryTypes
  <2> QED BY <1>6, <2>1, KeptTypes DEF ReadSettings, TypeOK
<1>7. CASE SendSettings(c)
  <2>1. ReaderTypes'
        BY <1>7 DEF TypeOK, SendSettings, ReaderTypes, ClientId, NoId, Volume
  <2>2. ChannelTypes'
        BY <1>7, EnqueueTypes DEF TypeOK, SendSettings, Tell
  <2>3. HistTypes'
        BY <1>7 DEF TypeOK, SendSettings, HistTypes, Untold, Volume, Outbound, Tell, Enqueue, ReaderTypes, ClientId
  <2> QED BY <1>7, <2>1, <2>2, <2>3, KeptTypes DEF SendSettings, TypeOK
<1>8. CASE SendCodec(c)
  <2>1. ReaderTypes'
        BY <1>8 DEF TypeOK, SendCodec, ReaderTypes, ClientId, NoId, Volume
  <2>2. ChannelTypes'
        BY <1>8, EnqueueTypes DEF TypeOK, SendCodec
  <2>3. HistTypes'
        BY <1>8 DEF TypeOK, SendCodec, HistTypes, Untold, Volume, Outbound, Enqueue, ClientId
  <2> QED BY <1>8, <2>1, <2>2, <2>3, KeptTypes DEF SendCodec, TypeOK
<1>9. CASE SendReply(c)
  <2>1. ReaderTypes'
        BY <1>9 DEF TypeOK, SendReply, ReaderTypes, ClientId, NoId, Volume
  <2>2. ChannelTypes'
        BY <1>9, EnqueueTypes DEF TypeOK, SendReply
  <2>3. HistTypes'
        BY <1>9 DEF TypeOK, SendReply, HistTypes, Untold, Volume, Outbound, Enqueue
  <2> QED BY <1>9, <2>1, <2>2, <2>3, KeptTypes DEF SendReply, TypeOK
<1>10. CASE SendRefused(c)
  <2>1. ReaderTypes'
        BY <1>10 DEF TypeOK, SendRefused, ReaderTypes, ClientId, NoId, Volume
  <2> QED BY <1>10, <2>1, KeptTypes DEF SendRefused, TypeOK
<1>11. CASE Unregister(c)
  <2>1. ReaderTypes'
        BY <1>11 DEF TypeOK, Unregister, ReaderTypes, ClientId, NoId, Volume
  <2>2. RegistryTypes'
        <3>1. CASE myId[c] = NoId
              BY <1>11, <3>1 DEF TypeOK, RegistryTypes, Unregister
        <3>2. CASE myId[c] # NoId
              BY <1>11, <3>2, RemoveTypes DEF TypeOK, Unregister
        <3> QED BY <3>1, <3>2
  <2> QED BY <1>11, <2>1, <2>2, KeptTypes DEF Unregister, TypeOK
<1>12. CASE CloseSocket(c)
  <2>1. SocketTypes'
        BY <1>12 DEF TypeOK, CloseSocket, SocketTypes, Shut
  <2>2. ReaderTypes'
        BY <1>12 DEF TypeOK, CloseSocket, ReaderTypes, ClientId, NoId, Volume
  <2> QED BY <1>12, <2>1, <2>2, KeptTypes DEF CloseSocket, TypeOK
<1> QED BY <1>1, <1>2, <1>3, <1>4, <1>5, <1>6, <1>7, <1>8, <1>9, <1>10, <1>11, <1>12 DEF ReaderStep

LEMMA PeerStepType ==
    ASSUME TypeOK, NEW c \in Conns, PeerReads(c) \/ PeerResets(c)
    PROVE  TypeOK'
<1>1. CASE PeerReads(c)
  <2>1. SocketTypes'
        BY <1>1 DEF TypeOK, PeerReads, SocketTypes
  <2> QED BY <1>1, <2>1, KeptTypes DEF PeerReads, TypeOK
<1>2. CASE PeerResets(c)
  <2>1. SocketTypes'
        BY <1>2 DEF TypeOK, PeerResets, SocketTypes, Shut
  <2> QED BY <1>2, <2>1, KeptTypes DEF PeerResets, TypeOK
<1> QED BY <1>1, <1>2

LEMMA WriterStepType ==
    ASSUME TypeOK, NEW id \in ClientId, WriterStep(id)
    PROVE  TypeOK'
<1>1. CASE WriterRecv(id)
  <2>1. ChannelTypes'
        BY <1>1 DEF TypeOK, WriterRecv, ChannelTypes
  <2> QED BY <1>1, <2>1, KeptTypes DEF WriterRecv, TypeOK
<1>2. CASE WriterWrite(id)
  <2>1. SocketTypes'
        BY <1>2 DEF TypeOK, WriterWrite, SocketTypes, RegistryTypes
  <2>2. ChannelTypes'
        BY <1>2 DEF TypeOK, WriterWrite, ChannelTypes
  <2> QED BY <1>2, <2>1, <2>2, KeptTypes DEF WriterWrite, TypeOK
<1>3. CASE WriterEnds(id)
  <2>1. SocketTypes'
        BY <1>3 DEF TypeOK, WriterEnds, SocketTypes, Shut, RegistryTypes
  <2>2. ChannelTypes'
        BY <1>3 DEF TypeOK, WriterEnds, ChannelTypes
  <2>3. HistTypes'
        BY <1>3 DEF TypeOK, WriterEnds, HistTypes, Untold, Volume, Outbound
  <2> QED BY <1>3, <2>1, <2>2, <2>3, KeptTypes DEF WriterEnds, TypeOK
<1> QED BY <1>1, <1>2, <1>3 DEF WriterStep, WriterFails, WriterIdleExit

LEMMA TrySendType ==
    ASSUME TypeOK, NEW id \in ClientId, TrySend(id)
    PROVE  TypeOK'
<1>1. CASE TrySend(id)
  <2>1. RegistryTypes'
        BY <1>1 DEF TypeOK, TrySend, RegistryTypes, ClientId, NotFull, FullSince
  <2>2. ChannelTypes'
        BY <1>1 DEF TypeOK, TrySend, ChannelTypes, Enqueue, Room, ClientId
  <2>3. PipeTypes'
        BY <1>1 DEF TypeOK, TrySend, PipeTypes, ClientId
  <2>4. HistTypes'
        BY <1>1 DEF TypeOK, TrySend, HistTypes, Untold, Volume, Outbound, Enqueue
  <2> QED BY <1>1, <2>1, <2>2, <2>3, <2>4, KeptTypes DEF TrySend, TypeOK
<1> QED BY <1>1

LEMMA DisconnectType ==
    ASSUME TypeOK, NEW id \in ClientId, Disconnect(id)
    PROVE  TypeOK'
<1>1. CASE Disconnect(id)
  <2>1. SocketTypes'
        BY <1>1 DEF TypeOK, Disconnect, SocketTypes, Evict, Shut, RegistryTypes, sockVars
  <2>2. RegistryTypes'
        <3>1. CASE id \in clients
              BY <1>1, <3>1, RemoveTypes DEF TypeOK, Disconnect, Evict
        <3>2. CASE id \notin clients
              BY <1>1, <3>2 DEF TypeOK, RegistryTypes, Disconnect
        <3> QED BY <3>1, <3>2
  <2>3. PipeTypes'
        BY <1>1 DEF TypeOK, Disconnect, PipeTypes
  <2> QED BY <1>1, <2>1, <2>2, <2>3, KeptTypes DEF Disconnect, TypeOK
<1> QED BY <1>1

LEMMA PipeStepType ==
    ASSUME TypeOK, PipeStep \/ Tick
    PROVE  TypeOK'
<1>1. CASE BeginFanout
  <2>1. PipeTypes'
        BY <1>1 DEF TypeOK, BeginFanout, PipeTypes, RegistryTypes
  <2> QED BY <1>1, <2>1, KeptTypes DEF BeginFanout, TypeOK
<1>2. CASE EndFanout
  <2>1. PipeTypes'
        BY <1>2 DEF TypeOK, EndFanout, PipeTypes
  <2> QED BY <1>2, <2>1, KeptTypes DEF EndFanout, TypeOK
<1>3. CASE Tick
  <2>1. RegistryTypes'
        BY <1>3 DEF TypeOK, Tick, RegistryTypes, ClientId, NotFull
  <2> QED BY <1>3, <2>1, KeptTypes DEF Tick, TypeOK
<1> QED BY <1>1, <1>2, <1>3, TrySendType, DisconnectType DEF PipeStep

LEMMA TaskStepType ==
    ASSUME TypeOK, NEW t \in Tasks, TaskStep(t)
    PROVE  TypeOK'
<1>1. CASE BeginSettings(t)
  <2>1. RegistryTypes'
        BY <1>1 DEF TypeOK, BeginSettings, RegistryTypes, ClientId, NotFull, Volume
  <2>2. TaskTypes'
        <3>1. clients \in SUBSET ClientId /\ volume + 1 \in Volume
              BY <1>1 DEF TypeOK, RegistryTypes, BeginSettings, Volume
        <3>2. overtaken' \in SUBSET ClientId
              BY <1>1 DEF BeginSettings
        <3> QED BY <1>1, <3>1, <3>2, TurnTypes DEF TypeOK, BeginSettings
  <2> QED BY <1>1, <2>1, <2>2, KeptTypes DEF BeginSettings, TypeOK
<1>2. CASE SettingsSent(t)
  <2>1. ChannelTypes'
        BY <1>2, EnqueueTypes DEF TypeOK, SettingsSent, Tell
  <2>2. TaskTypes'
        BY <1>2, TurnTypes DEF TypeOK, SettingsSent, TaskTypes
  <2>3. HistTypes'
        BY <1>2 DEF TypeOK, SettingsSent, HistTypes, Untold, Volume, Outbound, Tell, Enqueue, TaskTypes, ClientId
  <2> QED BY <1>2, <2>1, <2>2, <2>3, KeptTypes DEF SettingsSent, TypeOK
<1>3. CASE SettingsRefused(t)
  <2>1. TaskTypes'
        BY <1>3, TurnTypes DEF TypeOK, SettingsRefused, TaskTypes
  <2> QED BY <1>3, <2>1, KeptTypes DEF SettingsRefused, TypeOK
<1> QED BY <1>1, <1>2, <1>3 DEF TaskStep

LEMMA NextType == TypeOK /\ [Next]_vars => TypeOK'
<1> SUFFICES ASSUME TypeOK, [Next]_vars PROVE TypeOK'
    OBVIOUS
<1>1. CASE Next
      BY <1>1, ReaderStepType, PeerStepType, WriterStepType, PipeStepType, TaskStepType
         DEF Next
<1>2. CASE UNCHANGED vars
      BY <1>2, KeptTypes DEF TypeOK, vars
<1> QED BY <1>1, <1>2

\* Every variable keeps its type: no channel or socket buffer exceeds its capacity.
THEOREM TypeCorrect == Spec => []TypeOK
<1>1. Init => TypeOK
      BY InitType
<1>2. TypeOK /\ [Next]_vars => TypeOK'
      BY NextType
<1> QED BY <1>1, <1>2, PTL DEF Spec

-----------------------------------------------------------------------------
\* Channels and sockets.

\* A channel exists from its registration on, and only a shut socket has lost its
\* reader or a writer.
ChannelInv ==
    /\ \A id \in ClientId : id < nextId <=> writer[id] # "none"
    /\ \A id \in clients : id < nextId
    /\ \A id \in ClientId : Dead(id) => sock[connOf[id]] = "shut"
    /\ \A c \in Conns : reader[c] = "done" => sock[c] = "shut"
    /\ \A c \in Conns : sock[c] = "new" => reader[c] = "none"

\* Most steps only move a thread.
LEMMA ChannelFrame ==
    ASSUME ChannelInv, UNCHANGED <<sock, clients, connOf, nextId, writer>>,
           \A c \in Conns : reader'[c] = "done" => reader[c] = "done",
           \A c \in Conns : reader[c] = "none" => reader'[c] = "none"
    PROVE  ChannelInv'
  BY DEF ChannelInv, Dead

LEMMA ReaderStepChannel ==
    ASSUME TypeOK, ChannelInv, NEW c \in Conns, Accept(c) \/ ReaderStep(c)
    PROVE  ChannelInv'
<1> USE DEF TypeOK, ReaderTypes
<1>1. CASE Accept(c)
      BY <1>1 DEF Accept, ChannelInv, SocketTypes, regVars, chanVars, Dead
<1>2. CASE Hello(c)
  <2>1. \A id \in ClientId : id < nextId' <=> writer'[id] # "none"
        BY <1>2 DEF Hello, ChannelInv, RegistryTypes, ChannelTypes, ClientId
  <2>2. \A id \in clients' : id < nextId'
        BY <1>2 DEF Hello, ChannelInv, RegistryTypes, ClientId
  <2>3. ASSUME NEW id \in ClientId, Dead(id)' PROVE sock'[connOf'[id]] = "shut"
    <3>1. id # nextId /\ Dead(id)
          BY <1>2, <2>3 DEF Hello, Dead, RegistryTypes, ChannelTypes
    <3> QED BY <1>2, <3>1 DEF Hello, ChannelInv, RegistryTypes, sockVars
  <2>4. \A d \in Conns : reader'[d] = "done" => sock'[d] = "shut"
        BY <1>2 DEF Hello, ChannelInv, sockVars
  <2>5. \A d \in Conns : sock'[d] = "new" => reader'[d] = "none"
        BY <1>2 DEF Hello, ChannelInv, sockVars
  <2> QED BY <2>1, <2>2, <2>3, <2>4, <2>5 DEF ChannelInv
<1>3. CASE HelloFails(c)
      BY <1>3, ChannelFrame DEF HelloFails, sockVars, regVars, chanVars
<1>4. CASE RecvTime(c)
      BY <1>4, ChannelFrame DEF RecvTime, sockVars, regVars, chanVars
<1>5. CASE ReadFails(c)
      BY <1>5, ChannelFrame DEF ReadFails, sockVars, regVars, chanVars
<1>6. CASE ReadSettings(c)
      BY <1>6, ChannelFrame DEF ReadSettings, sockVars, regVars, chanVars
<1>7. CASE SendSettings(c)
      BY <1>7, ChannelFrame DEF SendSettings, sockVars, regVars
<1>8. CASE SendCodec(c)
      BY <1>8, ChannelFrame DEF SendCodec, sockVars, regVars
<1>9. CASE SendReply(c)
      BY <1>9, ChannelFrame DEF SendReply, sockVars, regVars
<1>10. CASE SendRefused(c)
      BY <1>10, ChannelFrame DEF SendRefused, sockVars, regVars, chanVars
<1>11. CASE Unregister(c)
      BY <1>11 DEF Unregister, Remove, ChannelInv, Dead, sockVars, chanVars
<1>12. CASE CloseSocket(c)
      BY <1>12 DEF CloseSocket, Shut, ChannelInv, SocketTypes, regVars, chanVars, Dead
<1> QED BY <1>1, <1>2, <1>3, <1>4, <1>5, <1>6, <1>7, <1>8, <1>9, <1>10, <1>11, <1>12
        DEF ReaderStep

LEMMA OtherStepChannel ==
    ASSUME TypeOK, ChannelInv,
           \/ \E c \in Conns : PeerReads(c) \/ PeerResets(c)
           \/ \E id \in ClientId : WriterStep(id)
           \/ PipeStep \/ Tick
           \/ \E t \in Tasks : TaskStep(t)
    PROVE  ChannelInv'
<1> USE DEF readerVars
<1>1. ASSUME NEW c \in Conns, PeerReads(c) PROVE ChannelInv'
      BY <1>1, ChannelFrame DEF PeerReads, regVars, chanVars
<1>2. ASSUME NEW c \in Conns, PeerResets(c) PROVE ChannelInv'
      BY <1>2 DEF PeerResets, Shut, ChannelInv, TypeOK, SocketTypes, regVars, chanVars, Dead
<1>3. ASSUME NEW id \in ClientId, WriterRecv(id) PROVE ChannelInv'
      BY <1>3, ChannelFrame DEF WriterRecv, sockVars, regVars
<1>4. ASSUME NEW id \in ClientId, WriterWrite(id) PROVE ChannelInv'
      BY <1>4, ChannelFrame DEF WriterWrite, regVars
<1>5. ASSUME NEW id \in ClientId, WriterEnds(id), Alive(id) PROVE ChannelInv'
      BY <1>5 DEF WriterEnds, Shut, ChannelInv, TypeOK, SocketTypes, ChannelTypes,
                  RegistryTypes, regVars, Alive, Dead
<1>6. CASE BeginFanout
      BY <1>6, ChannelFrame DEF BeginFanout, sockVars, regVars, chanVars
<1>7. ASSUME NEW id \in ClientId, TrySend(id) PROVE ChannelInv'
      BY <1>7, ChannelFrame DEF TrySend, sockVars
<1>8. CASE EndFanout
      BY <1>8, ChannelFrame DEF EndFanout, sockVars, regVars, chanVars
<1>9. ASSUME NEW id \in ClientId, Disconnect(id) PROVE ChannelInv'
      BY <1>9 DEF Disconnect, Evict, Remove, Shut, ChannelInv, TypeOK, SocketTypes,
                  RegistryTypes, sockVars, chanVars, Dead
<1>10. CASE Tick
      BY <1>10, ChannelFrame DEF Tick, sockVars, chanVars
<1>11. ASSUME NEW t \in Tasks, TaskStep(t) PROVE ChannelInv'
      BY <1>11, ChannelFrame DEF TaskStep, BeginSettings, SettingsSent, SettingsRefused,
                                 sockVars, regVars, chanVars
<1> QED BY <1>1, <1>2, <1>3, <1>4, <1>5, <1>6, <1>7, <1>8, <1>9, <1>10, <1>11
        DEF WriterStep, WriterFails, WriterIdleExit, PipeStep

LEMMA ChannelStep == TypeOK /\ ChannelInv /\ [Next]_vars => ChannelInv'
<1> SUFFICES ASSUME TypeOK, ChannelInv, [Next]_vars PROVE ChannelInv'
    OBVIOUS
<1>1. CASE Next
      BY <1>1, ReaderStepChannel, OtherStepChannel DEF Next
<1>2. CASE UNCHANGED vars
      BY <1>2, ChannelFrame DEF vars, sockVars, readerVars, regVars, chanVars
<1> QED BY <1>1, <1>2

\* No chunk is fanned out into a channel nobody drains unless the socket is shut.
THEOREM ServedCorrect == Spec => []ServedWhileOpen
<1>1. Init => TypeOK /\ ChannelInv
      BY InitType DEF Init, ChannelInv, ClientId, Dead
<1>2. TypeOK /\ ChannelInv /\ [Next]_vars => (TypeOK /\ ChannelInv)'
      BY NextType, ChannelStep
<1>3. TypeOK /\ ChannelInv => ServedWhileOpen
      BY DEF TypeOK, RegistryTypes, ChannelTypes, ChannelInv, ServedWhileOpen, Alive, Dead
<1> QED BY <1>1, <1>2, <1>3, PTL DEF Spec

-----------------------------------------------------------------------------
\* Readers and their registrations.

\* The registration a reader names is its own, and one it serves is in the
\* registry unless the socket is shut: only the reader itself removes it quietly.
Owns(c, id)    == id < nextId /\ connOf[id] = c
Reached(c, id) == id \in clients \/ sock[c] = "shut"

HandleInv ==
    /\ \A c \in Conns : myId[c] # NoId => Owns(c, myId[c])
    /\ \A c \in Conns : helloId[c] # NoId => Owns(c, helloId[c])
    /\ \A c \in Conns :
          helloId[c] # NoId <=> reader[c] \in {"snapshot", "settings", "codec"}
    /\ \A c \in Conns : helloId[c] # NoId => Reached(c, helloId[c])
    /\ \A c \in Conns : myId[c] # NoId /\ reader[c] \notin {"leave", "close", "done"}
                            => Reached(c, myId[c])

ServerInv == TypeOK /\ ChannelInv /\ HandleInv

\* A step that moves readers without changing what they hold.
LEMMA HandleFrame ==
    ASSUME HandleInv, UNCHANGED <<clients, connOf, nextId, myId, helloId>>,
           \A c \in Conns : sock[c] = "shut" => sock'[c] = "shut",
           \A c \in Conns :
              \/ reader'[c] = reader[c]
              \/ /\ helloId[c] = NoId <=> reader'[c] \notin {"snapshot", "settings", "codec"}
                 /\ reader'[c] \in {"leave", "close", "done"}
                        \/ reader[c] \notin {"leave", "close", "done"}
    PROVE  HandleInv'
  BY DEF HandleInv, Owns, Reached

LEMMA ReaderStepHandle ==
    ASSUME ServerInv, NEW c \in Conns, Accept(c) \/ ReaderStep(c)
    PROVE  HandleInv'
<1> USE DEF ServerInv, TypeOK, ReaderTypes
<1>1. CASE Accept(c)
      BY <1>1 DEF Accept, HandleInv, ChannelInv, Owns, Reached, SocketTypes, regVars
<1>2. CASE Hello(c)
      BY <1>2 DEF Hello, HandleInv, Owns, Reached, RegistryTypes, ClientId, NoId, sockVars
<1>3. CASE HelloFails(c)
      BY <1>3, HandleFrame DEF HelloFails, HandleInv, sockVars, regVars
<1>4. CASE RecvTime(c)
      BY <1>4, HandleFrame DEF RecvTime, HandleInv, sockVars, regVars
<1>5. CASE ReadFails(c)
      BY <1>5, HandleFrame DEF ReadFails, HandleInv, sockVars, regVars
<1>6. CASE ReadSettings(c)
      BY <1>6, HandleFrame DEF ReadSettings, HandleInv, sockVars, regVars
<1>7. CASE SendSettings(c)
      BY <1>7, HandleFrame DEF SendSettings, HandleInv, sockVars, regVars
<1>8. CASE SendCodec(c)
      BY <1>8 DEF SendCodec, HandleInv, Owns, Reached, NoId, sockVars, regVars
<1>9. CASE SendReply(c)
      BY <1>9, HandleFrame DEF SendReply, HandleInv, sockVars, regVars
<1>10. CASE SendRefused(c)
      BY <1>10 DEF SendRefused, HandleInv, Owns, Reached, NoId, sockVars, regVars
<1>11. CASE Unregister(c)
      BY <1>11 DEF Unregister, Remove, HandleInv, Owns, Reached, NoId, sockVars
<1>12. CASE CloseSocket(c)
      BY <1>12 DEF CloseSocket, Shut, HandleInv, Owns, Reached, SocketTypes, NoId, regVars
<1> QED BY <1>1, <1>2, <1>3, <1>4, <1>5, <1>6, <1>7, <1>8, <1>9, <1>10, <1>11, <1>12
        DEF ReaderStep

LEMMA OtherStepHandle ==
    ASSUME ServerInv,
           \/ \E c \in Conns : PeerReads(c) \/ PeerResets(c)
           \/ \E id \in ClientId : WriterStep(id)
           \/ PipeStep \/ Tick
           \/ \E t \in Tasks : TaskStep(t)
    PROVE  HandleInv'
<1> USE DEF ServerInv, readerVars
<1>1. ASSUME NEW c \in Conns, PeerReads(c) \/ PeerResets(c) PROVE HandleInv'
      BY <1>1, HandleFrame DEF PeerReads, PeerResets, Shut, TypeOK, SocketTypes, regVars
<1>2. ASSUME NEW id \in ClientId, WriterRecv(id) PROVE HandleInv'
      BY <1>2, HandleFrame DEF WriterRecv, sockVars, regVars
<1>3. ASSUME NEW id \in ClientId, WriterWrite(id) PROVE HandleInv'
      BY <1>3, HandleFrame DEF WriterWrite, regVars
<1>4. ASSUME NEW id \in ClientId, WriterEnds(id) PROVE HandleInv'
      BY <1>4, HandleFrame DEF WriterEnds, Shut, TypeOK, SocketTypes, regVars
<1>5. CASE BeginFanout \/ EndFanout
      BY <1>5, HandleFrame DEF BeginFanout, EndFanout, sockVars, regVars
<1>6. ASSUME NEW id \in ClientId, TrySend(id) PROVE HandleInv'
      BY <1>6, HandleFrame DEF TrySend, sockVars
<1>7. ASSUME NEW id \in ClientId, Disconnect(id) PROVE HandleInv'
  <2>1. CASE id \in clients
        BY <1>7, <2>1 DEF Disconnect, Evict, Remove, Shut, HandleInv, Owns, Reached,
                          TypeOK, SocketTypes
  <2>2. CASE id \notin clients
        BY <1>7, <2>2, HandleFrame DEF Disconnect, sockVars
  <2> QED BY <2>1, <2>2
<1>8. CASE Tick
      BY <1>8, HandleFrame DEF Tick, sockVars
<1>9. ASSUME NEW t \in Tasks, TaskStep(t) PROVE HandleInv'
      BY <1>9, HandleFrame DEF TaskStep, BeginSettings, SettingsSent, SettingsRefused,
                               sockVars, regVars
<1> QED BY <1>1, <1>2, <1>3, <1>4, <1>5, <1>6, <1>7, <1>8, <1>9
        DEF WriterStep, WriterFails, WriterIdleExit, PipeStep

LEMMA ServerStep == ServerInv /\ [Next]_vars => ServerInv'
<1> SUFFICES ASSUME ServerInv, [Next]_vars PROVE ServerInv'
    OBVIOUS
<1>1. TypeOK' /\ ChannelInv'
      BY NextType, ChannelStep DEF ServerInv
<1>2. CASE Next
      BY <1>1, <1>2, ReaderStepHandle, OtherStepHandle DEF Next, ServerInv
<1>3. CASE UNCHANGED vars
      BY <1>1, <1>3, HandleFrame DEF ServerInv, vars, sockVars, readerVars, regVars
<1> QED BY <1>2, <1>3

LEMMA InitServer == Init => ServerInv
  BY InitType DEF Init, ServerInv, ChannelInv, HandleInv, ClientId, Dead

THEOREM ServerInvariant == Spec => []ServerInv
<1> QED BY InitServer, ServerStep, PTL DEF Spec

\* No served client is left out of the registry with its socket open.
THEOREM NoZombieCorrect == Spec => []NoZombie
<1>1. ServerInv => NoZombie
      BY DEF ServerInv, HandleInv, Reached, NoZombie
<1> QED BY <1>1, ServerInvariant, PTL

-----------------------------------------------------------------------------
\* Volumes.

\* Nobody is told or holds a volume that was never stored.
VolumeBound ==
    /\ \A id \in ClientId : told[id] <= volume
    /\ \A t \in Tasks : vol[t] <= volume
    /\ \A c \in Conns : snap[c] <= volume

VolumeInv == VolumeBound /\ NoLostVolume

\* Steps that tell nothing, store nothing and end no handshake.
LEMMA VolumeFrame ==
    ASSUME VolumeInv, clients' \subseteq clients,
           UNCHANGED <<volume, told, sending, rest, vol, helloId, snap>>,
           \A id \in clients' : Alive(id)' => Alive(id),
           \A c \in Conns : reader[c] \in {"snapshot", "settings"} => reader'[c] = reader[c]
    PROVE  VolumeInv'
<1>1. VolumeBound'
      BY DEF VolumeInv, VolumeBound
<1>2. ASSUME NEW id \in clients', Alive(id)'
      PROVE  told'[id] = volume' \/ BroadcastPending(id)' \/ HandshakePending(id)'
  <2>1. told[id] = volume \/ BroadcastPending(id) \/ HandshakePending(id)
        BY <1>2 DEF VolumeInv, NoLostVolume
  <2>2. BroadcastPending(id) => BroadcastPending(id)'
        BY DEF BroadcastPending
  <2>3. HandshakePending(id) => HandshakePending(id)'
        BY DEF HandshakePending
  <2> QED BY <2>1, <2>2, <2>3
<1> QED BY <1>1, <1>2 DEF VolumeInv, NoLostVolume

\* Settings with volume v <= volume enter a channel: a told channel stays told.
LEMMA TellKeeps ==
    ASSUME TypeOK, VolumeBound, NEW i \in ClientId, NEW v \in Volume, v <= volume, Tell(i, v),
           UNCHANGED volume
    PROVE  /\ \A id \in ClientId : told'[id] <= volume'
           /\ \A id \in ClientId : told[id] = volume => told'[id] = volume'
           /\ v = volume => told'[i] = volume'
           /\ \A id \in ClientId : id # i => told'[id] = told[id]
  BY DEF TypeOK, HistTypes, RegistryTypes, VolumeBound, Tell, Volume, Untold

LEMMA HelloVolume ==
    ASSUME ServerInv, VolumeInv, NEW c \in Conns, Hello(c)
    PROVE  VolumeInv'
<1> USE DEF ServerInv, TypeOK, ReaderTypes, RegistryTypes
<1>1. VolumeBound'
      BY DEF Hello, VolumeInv, VolumeBound, taskVars, histVars
<1>2. ASSUME NEW id \in clients', Alive(id)'
      PROVE  told'[id] = volume' \/ BroadcastPending(id)' \/ HandshakePending(id)'
  <2>1. CASE id = nextId
    <3>1. helloId'[c] = id /\ reader'[c] = "snapshot"
          BY <2>1 DEF Hello
    <3> QED BY <3>1 DEF HandshakePending
  <2>2. CASE id # nextId
    <3>1. id \in clients /\ Alive(id)
          BY <1>2, <2>2 DEF Hello, Alive, ChannelTypes
    <3>2. told[id] = volume \/ BroadcastPending(id) \/ HandshakePending(id)
          BY <3>1 DEF VolumeInv, NoLostVolume
    <3>3. BroadcastPending(id) => BroadcastPending(id)'
          BY DEF Hello, BroadcastPending, taskVars
    <3>4. ASSUME HandshakePending(id) PROVE HandshakePending(id)'
      <4>1. PICK d \in Conns :
               /\ helloId[d] = id
               /\ reader[d] = "snapshot" \/ (reader[d] = "settings" /\ snap[d] = volume)
            BY <3>4 DEF HandshakePending
      <4>2. d # c
            BY <4>1 DEF Hello
      <4> QED BY <4>1, <4>2 DEF Hello, HandshakePending
    <3> QED BY <3>2, <3>3, <3>4 DEF Hello, histVars
  <2> QED BY <2>1, <2>2
<1> QED BY <1>1, <1>2 DEF VolumeInv, NoLostVolume

LEMMA ReadSettingsVolume ==
    ASSUME ServerInv, VolumeInv, NEW c \in Conns, ReadSettings(c)
    PROVE  VolumeInv'
<1> USE DEF ServerInv, TypeOK, ReaderTypes, RegistryTypes
<1>1. VolumeBound'
      BY DEF ReadSettings, VolumeInv, VolumeBound, Volume, regVars, taskVars, histVars
<1>2. ASSUME NEW id \in clients', Alive(id)'
      PROVE  told'[id] = volume' \/ BroadcastPending(id)' \/ HandshakePending(id)'
  <2>1. told[id] = volume \/ BroadcastPending(id) \/ HandshakePending(id)
        BY <1>2 DEF VolumeInv, NoLostVolume, ReadSettings, regVars, chanVars, Alive
  <2>2. BroadcastPending(id) => BroadcastPending(id)'
        BY DEF ReadSettings, BroadcastPending, regVars, taskVars
  <2>3. ASSUME HandshakePending(id) PROVE HandshakePending(id)'
    <3>1. PICK d \in Conns :
             /\ helloId[d] = id
             /\ reader[d] = "snapshot" \/ (reader[d] = "settings" /\ snap[d] = volume)
          BY <2>3 DEF HandshakePending
    <3>2. /\ helloId'[d] = id
          /\ reader'[d] = "snapshot" \/ (reader'[d] = "settings" /\ snap'[d] = volume')
          BY <3>1 DEF ReadSettings, regVars
    <3> QED BY <3>2 DEF HandshakePending
  <2> QED BY <2>1, <2>2, <2>3 DEF ReadSettings, regVars, histVars
<1> QED BY <1>1, <1>2 DEF VolumeInv, NoLostVolume

LEMMA SendSettingsVolume ==
    ASSUME ServerInv, VolumeInv, NEW c \in Conns, SendSettings(c)
    PROVE  VolumeInv'
<1> USE DEF ServerInv
<1> DEFINE i == helloId[c]
<1>1. i \in ClientId /\ snap[c] \in Volume /\ snap[c] <= volume
      BY DEF SendSettings, HandleInv, TypeOK, ReaderTypes, VolumeInv, VolumeBound
<1>2. Tell(i, snap[c]) /\ UNCHANGED volume
      BY DEF SendSettings, regVars
<1>3. /\ \A id \in ClientId : told'[id] <= volume'
      /\ \A id \in ClientId : told[id] = volume => told'[id] = volume'
      /\ snap[c] = volume => told'[i] = volume'
  <2> HIDE DEF i
  <2> QED BY <1>1, <1>2, TellKeeps DEF VolumeInv
<1>4. VolumeBound'
      BY <1>2, <1>3 DEF SendSettings, VolumeInv, VolumeBound, TypeOK, RegistryTypes, ReaderTypes, Volume, taskVars
<1>5. ASSUME NEW id \in clients', Alive(id)'
      PROVE  told'[id] = volume' \/ BroadcastPending(id)' \/ HandshakePending(id)'
  <2>1. id \in ClientId
        BY DEF SendSettings, TypeOK, RegistryTypes, regVars
  <2>2. told[id] = volume \/ BroadcastPending(id) \/ HandshakePending(id)
        BY <1>5 DEF VolumeInv, NoLostVolume, SendSettings, regVars, Alive
  <2>3. BroadcastPending(id) => BroadcastPending(id)'
        BY DEF SendSettings, BroadcastPending, regVars, taskVars
  <2>4. ASSUME HandshakePending(id) PROVE told'[id] = volume' \/ HandshakePending(id)'
    <3>1. PICK d \in Conns :
             /\ helloId[d] = id
             /\ reader[d] = "snapshot" \/ (reader[d] = "settings" /\ snap[d] = volume)
          BY <2>4 DEF HandshakePending
    <3>2. CASE d = c
          BY <1>3, <3>1, <3>2 DEF SendSettings
    <3>3. CASE d # c
      <4>1. helloId'[d] = helloId[d] /\ reader'[d] = reader[d] /\ snap'[d] = snap[d]
            BY <3>3 DEF SendSettings, TypeOK, ReaderTypes
      <4> QED BY <1>2, <3>1, <4>1 DEF HandshakePending
    <3> QED BY <3>2, <3>3
  <2> QED BY <1>3, <2>1, <2>2, <2>3, <2>4
<1> QED BY <1>4, <1>5 DEF VolumeInv, NoLostVolume

\* The refused handshake was owed settings only by a channel that is dead.
LEMMA SendRefusedVolume ==
    ASSUME ServerInv, VolumeInv, NEW c \in Conns, SendRefused(c)
    PROVE  VolumeInv'
<1> USE DEF ServerInv, TypeOK, ReaderTypes, RegistryTypes
<1>1. VolumeBound'
      BY DEF SendRefused, VolumeInv, VolumeBound, Volume, regVars, taskVars, histVars
<1>2. ASSUME NEW id \in clients', Alive(id)'
      PROVE  told'[id] = volume' \/ BroadcastPending(id)' \/ HandshakePending(id)'
  <2>1. told[id] = volume \/ BroadcastPending(id) \/ HandshakePending(id)
        BY <1>2 DEF VolumeInv, NoLostVolume, SendRefused, regVars, chanVars, Alive
  <2>2. BroadcastPending(id) => BroadcastPending(id)'
        BY DEF SendRefused, BroadcastPending, regVars, taskVars
  <2>3. ASSUME HandshakePending(id) PROVE HandshakePending(id)'
    <3>1. PICK d \in Conns :
             /\ helloId[d] = id
             /\ reader[d] = "snapshot" \/ (reader[d] = "settings" /\ snap[d] = volume)
          BY <2>3 DEF HandshakePending
    <3>2. d # c
          BY <1>2, <3>1 DEF SendRefused, Target, Alive, Dead, chanVars
    <3>3. helloId'[d] = helloId[d] /\ reader'[d] = reader[d] /\ snap'[d] = snap[d]
          BY <3>2 DEF SendRefused
    <3> QED BY <3>1, <3>3 DEF SendRefused, HandshakePending, regVars
  <2> QED BY <2>1, <2>2, <2>3 DEF SendRefused, regVars, histVars
<1> QED BY <1>1, <1>2 DEF VolumeInv, NoLostVolume

LEMMA WriterEndsVolume ==
    ASSUME ServerInv, VolumeInv, NEW i \in ClientId, WriterEnds(i)
    PROVE  VolumeInv'
<1> USE DEF ServerInv, TypeOK, RegistryTypes, ChannelTypes, HistTypes
<1>1. VolumeBound'
      BY DEF WriterEnds, VolumeInv, VolumeBound, Volume, Untold, readerVars, regVars, taskVars
<1>2. ASSUME NEW id \in clients', Alive(id)'
      PROVE  told'[id] = volume' \/ BroadcastPending(id)' \/ HandshakePending(id)'
  <2>1. id \in clients /\ id # i /\ Alive(id)
        BY <1>2 DEF WriterEnds, Alive, regVars
  <2>2. told[id] = volume \/ BroadcastPending(id) \/ HandshakePending(id)
        BY <2>1 DEF VolumeInv, NoLostVolume
  <2>3. BroadcastPending(id) => BroadcastPending(id)'
        BY DEF WriterEnds, BroadcastPending, regVars, taskVars
  <2>4. HandshakePending(id) => HandshakePending(id)'
        BY DEF WriterEnds, HandshakePending, regVars, readerVars
  <2> QED BY <2>1, <2>2, <2>3, <2>4 DEF WriterEnds, regVars
<1> QED BY <1>1, <1>2 DEF VolumeInv, NoLostVolume

\* Storing a volume leaves the whole registry to be told.
LEMMA BeginSettingsVolume ==
    ASSUME ServerInv, VolumeInv, NEW t \in Tasks, BeginSettings(t)
    PROVE  VolumeInv'
<1> USE DEF ServerInv, TypeOK, ReaderTypes, RegistryTypes, TaskTypes, HistTypes
<1>1. volume' = volume + 1 /\ Turn(t, clients, volume + 1) /\ clients' = clients
      BY DEF BeginSettings
<1>2. VolumeBound'
      BY <1>1 DEF BeginSettings, Turn, VolumeInv, VolumeBound, Volume, Untold, readerVars,
                  histVars
<1>3. ASSUME NEW id \in clients' PROVE BroadcastPending(id)'
  <2>1. vol'[t] = volume' /\ (sending'[t] = id \/ id \in rest'[t])
        BY <1>1, <1>3 DEF Turn
  <2> QED BY <2>1 DEF BroadcastPending
<1> QED BY <1>2, <1>3 DEF VolumeInv, NoLostVolume

\* A task that turns to its next client owes all but the one it leaves.
LEMMA TurnKeeps ==
    ASSUME TypeOK, NEW t \in Tasks, Turn(t, rest[t], vol[t]), UNCHANGED volume,
           NEW id \in ClientId, id # sending[t], BroadcastPending(id)
    PROVE  BroadcastPending(id)'
<1>1. PICK u \in Tasks : vol[u] = volume /\ (sending[u] = id \/ id \in rest[u])
      BY DEF BroadcastPending
<1>2. CASE u = t
  <2>1. vol'[t] = volume' /\ (sending'[t] = id \/ id \in rest'[t])
        BY <1>1, <1>2 DEF Turn, TypeOK, TaskTypes
  <2> QED BY <2>1 DEF BroadcastPending
<1>3. CASE u # t
  <2>1. vol'[u] = vol[u] /\ sending'[u] = sending[u] /\ rest'[u] = rest[u]
        BY <1>3 DEF Turn, TypeOK, TaskTypes
  <2> QED BY <1>1, <2>1 DEF BroadcastPending
<1> QED BY <1>2, <1>3

LEMMA TurnBound ==
    ASSUME TypeOK, VolumeBound, NEW t \in Tasks, Turn(t, rest[t], vol[t]), UNCHANGED volume
    PROVE  \A u \in Tasks : vol'[u] <= volume'
  BY DEF TypeOK, TaskTypes, RegistryTypes, VolumeBound, Turn, Volume

LEMMA SettingsSentVolume ==
    ASSUME ServerInv, VolumeInv, NEW t \in Tasks, SettingsSent(t)
    PROVE  VolumeInv'
<1> USE DEF ServerInv
<1> DEFINE i == sending[t]
<1>1. i \in ClientId /\ vol[t] \in Volume /\ vol[t] <= volume
      BY DEF SettingsSent, TypeOK, TaskTypes, VolumeInv, VolumeBound
<1>2. Tell(i, vol[t]) /\ Turn(t, rest[t], vol[t]) /\ UNCHANGED volume
      BY DEF SettingsSent, regVars
<1>3. /\ \A id \in ClientId : told'[id] <= volume'
      /\ \A id \in ClientId : told[id] = volume => told'[id] = volume'
      /\ vol[t] = volume => told'[i] = volume'
  <2> HIDE DEF i
  <2> QED BY <1>1, <1>2, TellKeeps DEF VolumeInv
<1>4. \A u \in Tasks : vol'[u] <= volume'
      BY <1>2, TurnBound DEF VolumeInv
<1>5. VolumeBound'
      BY <1>2, <1>3, <1>4 DEF SettingsSent, VolumeInv, VolumeBound, readerVars
<1>6. ASSUME NEW id \in clients', Alive(id)'
      PROVE  told'[id] = volume' \/ BroadcastPending(id)' \/ HandshakePending(id)'
  <2>1. id \in ClientId
        BY DEF SettingsSent, TypeOK, RegistryTypes, regVars
  <2>2. told[id] = volume \/ BroadcastPending(id) \/ HandshakePending(id)
        BY <1>6 DEF VolumeInv, NoLostVolume, SettingsSent, regVars, Alive
  <2>3. HandshakePending(id) => HandshakePending(id)'
        BY <1>2 DEF SettingsSent, HandshakePending, readerVars
  <2>4. ASSUME BroadcastPending(id) PROVE told'[id] = volume' \/ BroadcastPending(id)'
    <3>1. CASE id # i
          BY <1>2, <2>1, <2>4, <3>1, TurnKeeps
    <3>2. CASE id = i
      <4>1. PICK u \in Tasks : vol[u] = volume /\ (sending[u] = id \/ id \in rest[u])
            BY <2>4 DEF BroadcastPending
      <4>2. CASE u = t
            BY <1>3, <3>2, <4>1, <4>2
      <4>3. CASE u # t
        <5>1. vol'[u] = vol[u] /\ sending'[u] = sending[u] /\ rest'[u] = rest[u]
              BY <1>2, <4>3 DEF Turn, TypeOK, TaskTypes
        <5> QED BY <1>2, <4>1, <5>1 DEF BroadcastPending
      <4> QED BY <4>2, <4>3
    <3> QED BY <3>1, <3>2
  <2> QED BY <1>3, <2>1, <2>2, <2>3, <2>4
<1> QED BY <1>5, <1>6 DEF VolumeInv, NoLostVolume

\* The send that is refused was owed to a dead channel, and the others stay owed.
LEMMA SettingsRefusedVolume ==
    ASSUME ServerInv, VolumeInv, NEW t \in Tasks, SettingsRefused(t)
    PROVE  VolumeInv'
<1> USE DEF ServerInv
<1>1. Turn(t, rest[t], vol[t]) /\ UNCHANGED volume
      BY DEF SettingsRefused, regVars
<1>2. VolumeBound'
      BY <1>1, TurnBound DEF SettingsRefused, VolumeInv, VolumeBound, readerVars, histVars
<1>3. ASSUME NEW id \in clients', Alive(id)'
      PROVE  told'[id] = volume' \/ BroadcastPending(id)' \/ HandshakePending(id)'
  <2>1. id \in ClientId
        BY DEF SettingsRefused, TypeOK, RegistryTypes, regVars
  <2>2. told[id] = volume \/ BroadcastPending(id) \/ HandshakePending(id)
        BY <1>3 DEF VolumeInv, NoLostVolume, SettingsRefused, regVars, chanVars, Alive
  <2>3. HandshakePending(id) => HandshakePending(id)'
        BY <1>1 DEF SettingsRefused, HandshakePending, readerVars
  <2>4. id # sending[t]
        BY <1>3 DEF SettingsRefused, Alive, Dead, chanVars
  <2>5. BroadcastPending(id) => BroadcastPending(id)'
        BY <1>1, <2>1, <2>4, TurnKeeps
  <2> QED BY <2>2, <2>3, <2>5 DEF SettingsRefused, regVars, histVars
<1> QED BY <1>2, <1>3 DEF VolumeInv, NoLostVolume

LEMMA ReaderStepVolume ==
    ASSUME ServerInv, VolumeInv, NEW c \in Conns, Accept(c) \/ ReaderStep(c)
    PROVE  VolumeInv'
<1> USE DEF Alive
<1>1. CASE Accept(c)
  <2>1. reader[c] = "none"
        BY <1>1 DEF Accept, ServerInv, ChannelInv
  <2> QED BY <1>1, <2>1, VolumeFrame
          DEF Accept, ServerInv, TypeOK, ReaderTypes, regVars, chanVars, taskVars, histVars
<1>2. CASE HelloFails(c)
      BY <1>2, VolumeFrame DEF HelloFails, regVars, chanVars, taskVars, histVars
<1>3. CASE RecvTime(c)
      BY <1>3, VolumeFrame DEF RecvTime, regVars, chanVars, taskVars, histVars
<1>4. CASE ReadFails(c)
      BY <1>4, VolumeFrame DEF ReadFails, regVars, chanVars, taskVars, histVars
<1>5. CASE SendCodec(c)
  <2>1. ASSUME NEW id \in clients, HandshakePending(id) PROVE HandshakePending(id)'
    <3>1. PICK d \in Conns :
             /\ helloId[d] = id
             /\ reader[d] = "snapshot" \/ (reader[d] = "settings" /\ snap[d] = volume)
          BY <2>1 DEF HandshakePending
    <3>2. d # c
          BY <1>5, <3>1 DEF SendCodec
    <3>3. helloId'[d] = helloId[d] /\ reader'[d] = reader[d]
          BY <1>5, <3>2 DEF SendCodec, ServerInv, TypeOK, ReaderTypes
    <3> QED BY <1>5, <3>1, <3>3 DEF SendCodec, HandshakePending, regVars
  <2>2. ASSUME NEW id \in clients, BroadcastPending(id) PROVE BroadcastPending(id)'
        BY <1>5, <2>2 DEF SendCodec, BroadcastPending, regVars, taskVars
  <2>3. VolumeBound'
        BY <1>5 DEF SendCodec, VolumeInv, VolumeBound, regVars, taskVars
  <2>4. NoLostVolume'
        BY <1>5, <2>1, <2>2 DEF SendCodec, VolumeInv, NoLostVolume, regVars
  <2> QED BY <2>3, <2>4 DEF VolumeInv
<1>6. CASE SendReply(c)
      BY <1>6, VolumeFrame DEF SendReply, regVars, taskVars
<1>7. CASE Unregister(c)
      BY <1>7, VolumeFrame DEF Unregister, Remove, chanVars, taskVars, histVars
<1>8. CASE CloseSocket(c)
      BY <1>8, VolumeFrame DEF CloseSocket, regVars, chanVars, taskVars, histVars
<1> QED BY <1>1, <1>2, <1>3, <1>4, <1>5, <1>6, <1>7, <1>8, HelloVolume, ReadSettingsVolume,
           SendSettingsVolume, SendRefusedVolume
        DEF ReaderStep

LEMMA OtherStepVolume ==
    ASSUME ServerInv, VolumeInv,
           \/ \E c \in Conns : PeerReads(c) \/ PeerResets(c)
           \/ \E id \in ClientId : WriterStep(id)
           \/ PipeStep \/ Tick
           \/ \E t \in Tasks : TaskStep(t)
    PROVE  VolumeInv'
<1> USE DEF Alive, readerVars, taskVars, histVars
<1>1. ASSUME NEW c \in Conns, PeerReads(c) \/ PeerResets(c) PROVE VolumeInv'
      BY <1>1, VolumeFrame DEF PeerReads, PeerResets, regVars, chanVars
<1>2. ASSUME NEW id \in ClientId, WriterRecv(id) \/ WriterWrite(id) PROVE VolumeInv'
      BY <1>2, VolumeFrame DEF WriterRecv, WriterWrite, regVars
<1>3. CASE BeginFanout \/ EndFanout
      BY <1>3, VolumeFrame DEF BeginFanout, EndFanout, regVars, chanVars
<1>4. ASSUME NEW id \in ClientId, TrySend(id) PROVE VolumeInv'
      BY <1>4, VolumeFrame DEF TrySend
<1>5. ASSUME NEW id \in ClientId, Disconnect(id) PROVE VolumeInv'
      BY <1>5, VolumeFrame DEF Disconnect, Evict, Remove, chanVars
<1>6. CASE Tick
      BY <1>6, VolumeFrame DEF Tick, chanVars
<1>7. ASSUME NEW t \in Tasks, TaskStep(t) PROVE VolumeInv'
      BY <1>7, BeginSettingsVolume, SettingsSentVolume, SettingsRefusedVolume DEF TaskStep
<1> QED BY <1>1, <1>2, <1>3, <1>4, <1>5, <1>6, <1>7, WriterEndsVolume
        DEF WriterStep, WriterFails, WriterIdleExit, PipeStep

LEMMA VolumeStep == ServerInv /\ VolumeInv /\ [Next]_vars => (ServerInv /\ VolumeInv)'
<1> SUFFICES ASSUME ServerInv, VolumeInv, [Next]_vars PROVE VolumeInv'
    BY ServerStep
<1>1. CASE Next
      BY <1>1, ReaderStepVolume, OtherStepVolume DEF Next
<1>2. CASE UNCHANGED vars
      BY <1>2, VolumeFrame DEF vars, readerVars, regVars, chanVars, taskVars, histVars, Alive
<1> QED BY <1>1, <1>2

LEMMA InitVolume == Init => VolumeInv
  BY DEF Init, VolumeInv, VolumeBound, NoLostVolume, Untold, ClientId

\* No volume change is lost on a client that can still be told.
THEOREM VolumeCorrect == Spec => []NoLostVolume
<1>1. Init => ServerInv /\ VolumeInv
      BY InitServer, InitVolume
<1>2. ServerInv /\ VolumeInv /\ [Next]_vars => (ServerInv /\ VolumeInv)'
      BY VolumeStep
<1>3. VolumeInv => NoLostVolume
      BY DEF VolumeInv
<1> QED BY <1>1, <1>2, <1>3, PTL DEF Spec

-----------------------------------------------------------------------------
\* The order of the settings.

\* To a client that was not overtaken, only the stored volume is on its way, and it came
\* last if it came.
Fresh(id) ==
    /\ \A t \in Tasks : sending[t] = id \/ id \in rest[t] => vol[t] = volume
    /\ \A c \in Conns : helloId[c] = id /\ reader[c] = "settings" => snap[c] = volume
    /\ told[id] = volume => last[id] = volume

ForceInv == \A id \in ClientId \ overtaken : Fresh(id)

\* Steps that store, tell and read nothing.
LEMMA ForceFrame ==
    ASSUME ForceInv, UNCHANGED <<volume, sending, rest, vol, overtaken, told, last>>,
           \A c \in Conns : reader'[c] = "settings" =>
              reader[c] = "settings" /\ helloId'[c] = helloId[c] /\ snap'[c] = snap[c]
    PROVE  ForceInv'
  BY DEF ForceInv, Fresh

\* What is told to a client that was not overtaken is the stored volume.
LEMMA TellLast ==
    ASSUME TypeOK, VolumeBound, NEW i \in ClientId, NEW v \in Volume, v <= volume, Tell(i, v),
           UNCHANGED volume, NEW id \in ClientId, told[id] = volume => last[id] = volume,
           id = i => v = volume
    PROVE  told'[id] = volume' => last'[id] = volume'
  BY DEF TypeOK, HistTypes, RegistryTypes, VolumeBound, Tell, Volume, Untold

LEMMA ReaderStepForce ==
    ASSUME ServerInv, VolumeBound, ForceInv, NEW c \in Conns, Accept(c) \/ ReaderStep(c)
    PROVE  ForceInv'
<1> USE DEF ServerInv, TypeOK, ReaderTypes, taskVars, histVars, regVars
<1>1. CASE \/ Accept(c) \/ HelloFails(c) \/ RecvTime(c) \/ ReadFails(c)
           \/ SendReply(c) \/ Unregister(c) \/ CloseSocket(c)
      BY <1>1, ForceFrame DEF Accept, HelloFails, RecvTime, ReadFails, SendReply, Unregister,
                              CloseSocket, Remove
<1>2. CASE Hello(c)
      BY <1>2, ForceFrame DEF Hello
<1>3. CASE ReadSettings(c)
  <2> SUFFICES ASSUME NEW id \in ClientId \ overtaken' PROVE Fresh(id)'
      BY DEF ForceInv
  <2>1. Fresh(id) /\ UNCHANGED <<volume, sending, rest, vol, told, last, helloId>>
        BY <1>3 DEF ForceInv, ReadSettings
  <2>2. \A d \in Conns : \/ snap'[d] = volume
                         \/ reader'[d] = reader[d] /\ snap'[d] = snap[d]
        BY <1>3 DEF ReadSettings
  <2> QED BY <2>1, <2>2 DEF Fresh
<1>4. CASE SendSettings(c)
  <2> SUFFICES ASSUME NEW id \in ClientId \ overtaken' PROVE Fresh(id)'
      BY DEF ForceInv
  <2>1. Fresh(id) /\ UNCHANGED <<volume, sending, rest, vol, helloId>>
        BY <1>4 DEF ForceInv, SendSettings
  <2>2. \A d \in Conns : reader'[d] = "settings" => reader[d] = "settings" /\ snap'[d] = snap[d]
        BY <1>4 DEF SendSettings
  <2>3. /\ helloId[c] \in ClientId /\ snap[c] \in Volume /\ snap[c] <= volume
        /\ Tell(helloId[c], snap[c])
        BY <1>4 DEF SendSettings, HandleInv, VolumeBound
  <2>4. helloId[c] = id => snap[c] = volume
        BY <1>4, <2>1 DEF Fresh, SendSettings
  <2>5. told'[id] = volume' => last'[id] = volume'
    <3> HIDE DEF TypeOK, ServerInv
    <3> QED BY <2>1, <2>3, <2>4, TellLast DEF Fresh, ServerInv
  <2> QED BY <2>1, <2>2, <2>5 DEF Fresh
<1>5. CASE SendCodec(c)
      BY <1>5, ForceFrame DEF SendCodec
<1>6. CASE SendRefused(c)
      BY <1>6, ForceFrame DEF SendRefused
<1> QED BY <1>1, <1>2, <1>3, <1>4, <1>5, <1>6 DEF ReaderStep

\* A task that turns from the client it leaves to the next still owes what it owed.
LEMMA TurnFresh ==
    ASSUME TypeOK, NEW t \in Tasks, Turn(t, rest[t], vol[t]), UNCHANGED volume,
           NEW id \in ClientId,
           \A u \in Tasks : sending[u] = id \/ id \in rest[u] => vol[u] = volume
    PROVE  \A u \in Tasks : sending'[u] = id \/ id \in rest'[u] => vol'[u] = volume'
  BY DEF TypeOK, TaskTypes, Turn, ClientId, NoId

LEMMA TaskStepForce ==
    ASSUME ServerInv, VolumeBound, ForceInv, NEW t \in Tasks, TaskStep(t)
    PROVE  ForceInv'
<1> USE DEF ServerInv
<1> SUFFICES ASSUME NEW id \in ClientId \ overtaken' PROVE Fresh(id)'
    BY DEF ForceInv
<1>1. CASE BeginSettings(t)
  <2>1. volume' = volume + 1 /\ Turn(t, clients, volume + 1) /\ ~UnderWay(id)
        BY <1>1 DEF BeginSettings
  <2>2. \A u \in Tasks : sending'[u] = id \/ id \in rest'[u] => vol'[u] = volume'
        BY <2>1 DEF UnderWay, Turn, TypeOK, TaskTypes, ClientId, NoId
  <2>3. \A d \in Conns : helloId'[d] = id /\ reader'[d] = "settings" => snap'[d] = volume'
        BY <1>1, <2>1 DEF BeginSettings, UnderWay, readerVars
  <2>4. told'[id] <= volume /\ volume \in Nat
        BY <1>1 DEF BeginSettings, VolumeBound, TypeOK, RegistryTypes, Volume, histVars
  <2>5. told'[id] # volume'
        BY <1>1, <2>1, <2>4 DEF BeginSettings, TypeOK, HistTypes, Volume, Untold, histVars
  <2> QED BY <2>2, <2>3, <2>5 DEF Fresh
<1>2. CASE SettingsSent(t)
  <2>1. /\ Fresh(id) /\ UNCHANGED <<volume, readerVars>> /\ Turn(t, rest[t], vol[t])
        /\ Tell(sending[t], vol[t])
        BY <1>2 DEF ForceInv, SettingsSent, regVars
  <2>2. \A u \in Tasks : sending'[u] = id \/ id \in rest'[u] => vol'[u] = volume'
        BY <2>1, TurnFresh DEF Fresh
  <2>3. sending[t] \in ClientId /\ vol[t] \in Volume /\ vol[t] <= volume
        BY <1>2 DEF SettingsSent, TypeOK, TaskTypes, VolumeBound
  <2>4. sending[t] = id => vol[t] = volume
        BY <2>1 DEF Fresh
  <2>5. told'[id] = volume' => last'[id] = volume'
        BY <2>1, <2>3, <2>4, TellLast DEF Fresh
  <2> QED BY <2>1, <2>2, <2>5 DEF Fresh, readerVars
<1>3. CASE SettingsRefused(t)
  <2>1. /\ Fresh(id) /\ UNCHANGED <<volume, readerVars, told, last>>
        /\ Turn(t, rest[t], vol[t])
        BY <1>3 DEF ForceInv, SettingsRefused, regVars, histVars
  <2>2. \A u \in Tasks : sending'[u] = id \/ id \in rest'[u] => vol'[u] = volume'
        BY <2>1, TurnFresh DEF Fresh
  <2> QED BY <2>1, <2>2 DEF Fresh, readerVars
<1> QED BY <1>1, <1>2, <1>3 DEF TaskStep

LEMMA OtherStepForce ==
    ASSUME ServerInv, ForceInv,
           \/ \E c \in Conns : PeerReads(c) \/ PeerResets(c)
           \/ \E id \in ClientId : WriterStep(id)
           \/ PipeStep \/ Tick
    PROVE  ForceInv'
<1> USE DEF readerVars, taskVars, histVars, regVars
<1>1. ASSUME NEW c \in Conns, PeerReads(c) \/ PeerResets(c) PROVE ForceInv'
      BY <1>1, ForceFrame DEF PeerReads, PeerResets
<1>2. ASSUME NEW id \in ClientId, WriterRecv(id) \/ WriterWrite(id) PROVE ForceInv'
      BY <1>2, ForceFrame DEF WriterRecv, WriterWrite
<1>3. CASE BeginFanout \/ EndFanout \/ Tick
      BY <1>3, ForceFrame DEF BeginFanout, EndFanout, Tick
<1>4. ASSUME NEW id \in ClientId, TrySend(id) PROVE ForceInv'
      BY <1>4, ForceFrame DEF TrySend
<1>5. ASSUME NEW id \in ClientId, Disconnect(id) PROVE ForceInv'
      BY <1>5, ForceFrame DEF Disconnect, Evict, Remove
<1>6. ASSUME NEW i \in ClientId, WriterEnds(i) PROVE ForceInv'
  <2> SUFFICES ASSUME NEW id \in ClientId \ overtaken' PROVE Fresh(id)'
      BY DEF ForceInv
  <2>1. Fresh(id) /\ UNCHANGED <<readerVars, volume, sending, rest, vol>>
        BY <1>6 DEF ForceInv, WriterEnds
  <2>2. \/ told'[id] = Untold
        \/ told'[id] = told[id] /\ last'[id] = last[id]
        BY <1>6 DEF WriterEnds, ServerInv, TypeOK, HistTypes
  <2>3. volume # Untold
        BY DEF ServerInv, TypeOK, RegistryTypes, Volume, Untold
  <2> QED BY <2>1, <2>2, <2>3 DEF Fresh
<1> QED BY <1>1, <1>2, <1>3, <1>4, <1>5, <1>6
        DEF WriterStep, WriterFails, WriterIdleExit, PipeStep

LEMMA ForceStep == ServerInv /\ VolumeBound /\ ForceInv /\ [Next]_vars => ForceInv'
<1> SUFFICES ASSUME ServerInv, VolumeBound, ForceInv, [Next]_vars PROVE ForceInv'
    OBVIOUS
<1>1. CASE Next
      BY <1>1, ReaderStepForce, TaskStepForce, OtherStepForce DEF Next
<1>2. CASE UNCHANGED vars
      BY <1>2, ForceFrame DEF vars, readerVars, regVars, taskVars, histVars
<1> QED BY <1>1, <1>2

\* A client whose settings were not overtaken ends on the volume in force.
THEOREM LastInForceCorrect == Spec => []LastInForce
<1>1. Init => ServerInv /\ VolumeInv /\ ForceInv
  <2>1. Init => ForceInv
        BY DEF Init, ForceInv, Fresh, Untold, NoId, ClientId
  <2> QED BY <2>1, InitServer, InitVolume
<1>2. ServerInv /\ VolumeInv /\ ForceInv /\ [Next]_vars
          => (ServerInv /\ VolumeInv /\ ForceInv)'
      BY VolumeStep, ForceStep DEF VolumeInv
<1>3. ServerInv /\ VolumeInv /\ ForceInv => LastInForce
      BY DEF ServerInv, TypeOK, RegistryTypes, VolumeInv, NoLostVolume, ForceInv, Fresh,
             LastInForce
<1> QED BY <1>1, <1>2, <1>3, PTL DEF Spec
=============================================================================
