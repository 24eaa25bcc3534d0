------------------------ MODULE ServerDeliveryProofs ------------------------
(***************************************************************************)
(* What a client is promised, proved of the server for every number of     *)
(* connections and event tasks: the order of the handshake, that a greeted *)
(* session has a channel, why a client is forced out, and that the server  *)
(* implements ClientDelivery for each registration.                        *)
(***************************************************************************)
EXTENDS ServerDelivery, StreamServerProofs

USE ConstantsAssumption DEF ConstantsAssumption

-----------------------------------------------------------------------------
\* Sessions.

\* A reader has greeted its client from the Hello on, and between two messages it
\* then holds a channel.
SessionInv ==
    \A c \in Conns :
        /\ reader[c] = "none" => ~greeted[c] /\ myId[c] = NoId
        /\ reader[c] = "read" => (greeted[c] <=> myId[c] # NoId)
        /\ reader[c] \in {"snapshot", "settings", "codec", "reply"} => greeted[c]
        /\ reader[c] = "reply" => myId[c] # NoId

LEMMA ReaderStepSession ==
    ASSUME ServerInv, SessionInv, NEW c \in Conns, Accept(c) \/ ReaderStep(c)
    PROVE  SessionInv'
<1> USE DEF ServerInv, TypeOK, ReaderTypes
<1>1. CASE Accept(c)
  <2>1. reader[c] = "none"
        BY <1>1 DEF Accept, ChannelInv
  <2> QED BY <1>1, <2>1 DEF Accept, SessionInv
<1>2. CASE Hello(c) \/ HelloFails(c)
      BY <1>2 DEF Hello, HelloFails, SessionInv
<1>3. CASE RecvTime(c) \/ ReadFails(c)
      BY <1>3 DEF RecvTime, ReadFails, SessionInv
<1>4. CASE ReadSettings(c) \/ SendSettings(c)
      BY <1>4 DEF ReadSettings, SendSettings, SessionInv
<1>5. CASE SendCodec(c)
  <2>1. helloId[c] # NoId
        BY <1>5 DEF SendCodec, HandleInv
  <2> QED BY <1>5, <2>1 DEF SendCodec, SessionInv
<1>6. CASE SendReply(c)
  <2>1. myId[c] # NoId
        BY <1>6 DEF SendReply, SessionInv
  <2> QED BY <1>6, <2>1 DEF SendReply, SessionInv
<1>7. CASE SendRefused(c)
      BY <1>7 DEF SendRefused, SessionInv
<1>8. CASE Unregister(c) \/ CloseSocket(c)
      BY <1>8 DEF Unregister, CloseSocket, SessionInv
<1> QED BY <1>1, <1>2, <1>3, <1>4, <1>5, <1>6, <1>7, <1>8 DEF ReaderStep

\* Nobody but a reader changes what readers hold.
LEMMA OthersKeepReaders ==
    ASSUME \/ \E c \in Conns : PeerReads(c) \/ PeerResets(c)
           \/ \E id \in ClientId : WriterStep(id)
           \/ PipeStep \/ Tick
           \/ \E t \in Tasks : TaskStep(t)
    PROVE  UNCHANGED readerVars
<1>1. ASSUME NEW c \in Conns, PeerReads(c) \/ PeerResets(c) PROVE UNCHANGED readerVars
      BY <1>1 DEF PeerReads, PeerResets
<1>2. ASSUME NEW id \in ClientId, WriterStep(id) PROVE UNCHANGED readerVars
      BY <1>2 DEF WriterStep, WriterRecv, WriterWrite, WriterFails, WriterIdleExit, WriterEnds
<1>3. CASE PipeStep
      BY <1>3 DEF PipeStep, BeginFanout, TrySend, EndFanout, Disconnect
<1>4. CASE Tick
      BY <1>4 DEF Tick
<1>5. ASSUME NEW t \in Tasks, TaskStep(t) PROVE UNCHANGED readerVars
      BY <1>5 DEF TaskStep, BeginSettings, SettingsSent, SettingsRefused
<1> QED BY <1>1, <1>2, <1>3, <1>4, <1>5

LEMMA SessionStep == ServerInv /\ SessionInv /\ [Next]_vars => SessionInv'
<1> SUFFICES ASSUME ServerInv, SessionInv, [Next]_vars PROVE SessionInv'
    OBVIOUS
<1>1. CASE \E c \in Conns : Accept(c) \/ ReaderStep(c)
      BY <1>1, ReaderStepSession
<1>2. CASE UNCHANGED readerVars
      BY <1>2 DEF SessionInv, readerVars
<1>3. Next => (\E c \in Conns : Accept(c) \/ ReaderStep(c)) \/ UNCHANGED readerVars
      BY OthersKeepReaders DEF Next
<1> QED BY <1>1, <1>2, <1>3 DEF vars

\* A greeted session always holds the channel its replies go to.
THEOREM SessionCorrect == Spec => []SessionMatchesChannel
<1>1. Init => ServerInv /\ SessionInv
      BY InitServer DEF Init, SessionInv
<1>2. ServerInv /\ SessionInv /\ [Next]_vars => (ServerInv /\ SessionInv)'
      BY ServerStep, SessionStep
<1>3. SessionInv => SessionMatchesChannel
      BY DEF SessionInv, SessionMatchesChannel
<1> QED BY <1>1, <1>2, <1>3, PTL DEF Spec

-----------------------------------------------------------------------------
\* The order of the handshake.

\* A reader that owes the codec header has sent settings, one that serves a client has
\* sent both; a channel without a writer holds nothing.
OrderInv ==
    /\ HandshakeOrder
    /\ \A c \in Conns :
          reader[c] = "codec" /\ Alive(helloId[c]) => "settings" \in given[helloId[c]]
    /\ \A c \in Conns :
          myId[c] # NoId /\ Alive(myId[c]) => {"settings", "codec"} \subseteq given[myId[c]]
    /\ \A id \in ClientId : writer[id] = "none" => given[id] = {} /\ told[id] = Untold

\* A message that enters a channel leaves the others alone.
LEMMA EnqueueGives ==
    ASSUME TypeOK, NEW i \in ClientId, NEW k \in Outbound, Enqueue(i, k)
    PROVE  /\ \A id \in ClientId \ {i} : given'[id] = given[id]
           /\ given'[i] = IF k = "chunk" THEN given[i] ELSE given[i] \cup {k}
           /\ given' \in [ClientId -> SUBSET Outbound]
  BY DEF TypeOK, HistTypes, Enqueue, Ordered, Outbound

\* Steps that send nothing, start no writer and begin no handshake step.
LEMMA OrderFrame ==
    ASSUME OrderInv, UNCHANGED <<given, told, myId, writer>>,
           \A c \in Conns : \/ reader'[c] # "codec"
                            \/ reader'[c] = reader[c] /\ helloId'[c] = helloId[c]
    PROVE  OrderInv'
  BY DEF OrderInv, HandshakeOrder, Alive

\* The message k enters the channel of i, after what has to come before it.
LEMMA EnqueueOrder ==
    ASSUME ServerInv, OrderInv, NEW i \in ClientId, Alive(i), NEW k \in Outbound, Enqueue(i, k),
           k = "codec" => "settings" \in given[i],
           k = "reply" => "codec" \in given[i],
           UNCHANGED writer,
           \A id \in ClientId \ {i} : told'[id] = told[id],
           \A c \in Conns : \/ UNCHANGED <<reader[c], helloId[c], myId[c]>>
                            \/ reader'[c] = "codec" /\ k = "settings"
                                  /\ helloId'[c] = i /\ UNCHANGED myId[c]
                            \/ reader'[c] # "codec" /\ UNCHANGED myId[c]
                            \/ reader'[c] # "codec" /\ k = "codec" /\ myId'[c] = i
    PROVE  OrderInv'
<1> USE DEF ServerInv
<1>1. /\ \A id \in ClientId \ {i} : given'[id] = given[id]
      /\ given'[i] = IF k = "chunk" THEN given[i] ELSE given[i] \cup {k}
      BY EnqueueGives
<1>2. HandshakeOrder'
      BY <1>1 DEF OrderInv, HandshakeOrder, Outbound
<1>3. \A id \in ClientId : given[id] \subseteq given'[id]
      BY <1>1
<1>4. ASSUME NEW c \in Conns, reader'[c] = "codec", Alive(helloId[c])'
      PROVE  "settings" \in given'[helloId'[c]]
  <2>1. CASE UNCHANGED <<reader[c], helloId[c], myId[c]>>
    <3>1. helloId[c] \in ClientId
          BY <1>4, <2>1 DEF HandleInv, TypeOK, ReaderTypes
    <3>2. "settings" \in given[helloId[c]]
          BY <1>4, <2>1 DEF OrderInv, Alive
    <3> QED BY <1>3, <2>1, <3>1, <3>2
  <2>2. CASE k = "settings" /\ helloId'[c] = i
        BY <1>1, <2>2
  <2> QED BY <1>4, <2>1, <2>2
<1>5. ASSUME NEW c \in Conns, myId'[c] # NoId, Alive(myId[c])'
      PROVE  {"settings", "codec"} \subseteq given'[myId'[c]]
  <2>1. CASE UNCHANGED myId[c]
    <3>1. myId[c] \in ClientId
          BY <1>5, <2>1 DEF TypeOK, ReaderTypes
    <3>2. {"settings", "codec"} \subseteq given[myId[c]]
          BY <1>5, <2>1 DEF OrderInv, Alive
    <3> QED BY <1>3, <2>1, <3>1, <3>2
  <2>2. CASE k = "codec" /\ myId'[c] = i
        BY <1>1, <2>2
  <2> QED BY <2>1, <2>2
<1>6. ASSUME NEW id \in ClientId, writer'[id] = "none"
      PROVE  given'[id] = {} /\ told'[id] = Untold
  <2>1. id # i
        BY <1>6 DEF Alive
  <2> QED BY <1>1, <1>6, <2>1 DEF OrderInv
<1>7. /\ \A c \in Conns : reader'[c] = "codec" /\ Alive(helloId[c])'
                             => "settings" \in given'[helloId'[c]]
      /\ \A c \in Conns : myId'[c] # NoId /\ Alive(myId[c])'
                             => {"settings", "codec"} \subseteq given'[myId'[c]]
      BY <1>4, <1>5 DEF Alive
<1> QED BY <1>2, <1>6, <1>7 DEF OrderInv

LEMMA ReaderStepOrder ==
    ASSUME ServerInv, SessionInv, OrderInv, NEW c \in Conns, Accept(c) \/ ReaderStep(c)
    PROVE  OrderInv'
<1> USE DEF ServerInv, TypeOK, ReaderTypes
<1>1. CASE Accept(c)
      BY <1>1, OrderFrame DEF Accept, chanVars, histVars
<1>2. CASE Hello(c)
  <2>1. writer[nextId] = "none"
        BY <1>2 DEF Hello, ChannelInv, RegistryTypes, ClientId
  <2>2. nextId \in ClientId /\ nextId # NoId
        BY <1>2 DEF Hello, RegistryTypes, ClientId, NoId
  <2>3. \A id \in ClientId : id # nextId => writer'[id] = writer[id]
        BY <1>2 DEF Hello, ChannelTypes
  <2>4. writer'[nextId] = "run"
        BY <1>2, <2>2 DEF Hello, ChannelTypes
  <2>5. \A d \in Conns : myId[d] # NoId => myId[d] # nextId
        BY <1>2 DEF Hello, HandleInv, Owns, RegistryTypes
  <2>6. \A d \in Conns : helloId[d] # NoId => helloId[d] # nextId
        BY <1>2 DEF Hello, HandleInv, Owns, RegistryTypes
  <2>7. UNCHANGED <<given, told, myId>>
        BY <1>2 DEF Hello, histVars
  <2>8. HandshakeOrder'
        BY <2>7 DEF OrderInv, HandshakeOrder
  <2>9. ASSUME NEW d \in Conns, reader'[d] = "codec", Alive(helloId[d])'
        PROVE  "settings" \in given'[helloId'[d]]
    <3>1. d # c
          BY <1>2, <2>9 DEF Hello
    <3>2. reader[d] = "codec" /\ helloId'[d] = helloId[d]
          BY <1>2, <2>9, <3>1 DEF Hello
    <3>3. helloId[d] \in ClientId /\ helloId[d] # nextId
          BY <2>6, <3>2 DEF HandleInv
    <3>4. Alive(helloId[d])
          BY <2>3, <2>9, <3>2, <3>3 DEF Alive
    <3> QED BY <2>7, <3>2, <3>4 DEF OrderInv
  <2>10. ASSUME NEW d \in Conns, myId'[d] # NoId, Alive(myId[d])'
         PROVE  {"settings", "codec"} \subseteq given'[myId'[d]]
    <3>1. myId[d] \in ClientId /\ myId[d] # nextId /\ Alive(myId[d])
          BY <2>3, <2>5, <2>7, <2>10 DEF Alive
    <3> QED BY <2>7, <2>10, <3>1 DEF OrderInv
  <2>11. \A id \in ClientId : writer'[id] = "none" => given'[id] = {} /\ told'[id] = Untold
        BY <2>3, <2>4, <2>7 DEF OrderInv
  <2> QED BY <2>8, <2>9, <2>10, <2>11 DEF OrderInv
<1>3. CASE HelloFails(c) \/ ReadFails(c)
      BY <1>3, OrderFrame DEF HelloFails, ReadFails, chanVars, histVars
<1>4. CASE RecvTime(c)
  <2>1. reader'[c] # "codec"
        BY <1>4, Zenon DEF RecvTime
  <2> QED BY <1>4, <2>1, OrderFrame DEF RecvTime, chanVars, histVars
<1>5. CASE ReadSettings(c)
      BY <1>5, OrderFrame DEF ReadSettings, chanVars, histVars
<1>6. CASE SendSettings(c)
  <2>1. helloId[c] \in ClientId
        BY <1>6 DEF SendSettings, HandleInv
  <2>2. \A id \in ClientId \ {helloId[c]} : told'[id] = told[id]
        BY <1>6, <2>1 DEF SendSettings, Tell, HistTypes
  <2> QED BY <1>6, <2>1, <2>2, EnqueueOrder DEF SendSettings, Tell, Outbound
<1>7. CASE SendCodec(c)
  <2>1. helloId[c] \in ClientId
        BY <1>7 DEF SendCodec, HandleInv
  <2>2. "settings" \in given[helloId[c]]
        BY <1>7 DEF SendCodec, OrderInv
  <2> QED BY <1>7, <2>1, <2>2, EnqueueOrder DEF SendCodec, Outbound
<1>8. CASE SendReply(c)
  <2>1. Alive(myId[c]) /\ reader[c] = "reply"
        BY <1>8 DEF SendReply
  <2>2. myId[c] \in ClientId /\ myId[c] # NoId
        BY <2>1 DEF SessionInv
  <2>3. "codec" \in given[myId[c]]
        BY <2>1, <2>2 DEF OrderInv
  <2> QED BY <1>8, <2>2, <2>3, EnqueueOrder DEF SendReply, Outbound
<1>9. CASE SendRefused(c)
      BY <1>9, OrderFrame DEF SendRefused, chanVars, histVars
<1>10. CASE Unregister(c)
      BY <1>10, OrderFrame DEF Unregister, chanVars, histVars
<1>11. CASE CloseSocket(c)
  <2>1. UNCHANGED <<writer, given, told>> /\ HandshakeOrder'
        BY <1>11 DEF CloseSocket, OrderInv, HandshakeOrder, chanVars, histVars
  <2>2. ASSUME NEW d \in Conns, reader'[d] = "codec"
        PROVE  reader[d] = "codec" /\ helloId'[d] = helloId[d]
        BY <1>11, <2>2 DEF CloseSocket
  <2>3. ASSUME NEW d \in Conns, myId'[d] # NoId PROVE myId'[d] = myId[d]
        BY <1>11, <2>3 DEF CloseSocket
  <2> QED BY <2>1, <2>2, <2>3 DEF OrderInv, Alive
<1> QED BY <1>1, <1>2, <1>3, <1>4, <1>5, <1>6, <1>7, <1>8, <1>9, <1>10, <1>11
        DEF ReaderStep

LEMMA OtherStepOrder ==
    ASSUME ServerInv, OrderInv,
           \/ \E c \in Conns : PeerReads(c) \/ PeerResets(c)
           \/ \E id \in ClientId : WriterStep(id)
           \/ PipeStep \/ Tick
           \/ \E t \in Tasks : TaskStep(t)
    PROVE  OrderInv'
<1> USE DEF ServerInv, readerVars
<1>1. ASSUME NEW c \in Conns, PeerReads(c) \/ PeerResets(c) PROVE OrderInv'
      BY <1>1, OrderFrame DEF PeerReads, PeerResets, chanVars, histVars
<1>2. ASSUME NEW id \in ClientId, WriterRecv(id) \/ WriterWrite(id) PROVE OrderInv'
      BY <1>2, OrderFrame DEF WriterRecv, WriterWrite, histVars
<1>3. ASSUME NEW i \in ClientId, Alive(i), WriterEnds(i) PROVE OrderInv'
  <2>1. /\ \A id \in ClientId \ {i} : UNCHANGED <<writer[id], given[id], told[id]>>
        /\ writer'[i] = "done" /\ given'[i] = {}
        BY <1>3 DEF WriterEnds, TypeOK, ChannelTypes, HistTypes
  <2>2. UNCHANGED <<reader, helloId, myId>>
        BY <1>3 DEF WriterEnds
  <2>3. HandshakeOrder'
        BY <2>1 DEF OrderInv, HandshakeOrder
  <2>4. ASSUME NEW c \in Conns, reader'[c] = "codec", Alive(helloId[c])'
        PROVE  "settings" \in given'[helloId'[c]]
    <3>1. helloId[c] \in ClientId /\ helloId[c] # i
          BY <2>1, <2>2, <2>4 DEF HandleInv, TypeOK, ReaderTypes, Alive
    <3> QED BY <2>1, <2>2, <2>4, <3>1 DEF OrderInv, Alive
  <2>5. ASSUME NEW c \in Conns, myId'[c] # NoId, Alive(myId[c])'
        PROVE  {"settings", "codec"} \subseteq given'[myId'[c]]
    <3>1. myId[c] \in ClientId /\ myId[c] # i
          BY <2>1, <2>2, <2>5 DEF TypeOK, ReaderTypes, Alive
    <3> QED BY <2>1, <2>2, <2>5, <3>1 DEF OrderInv, Alive
  <2>6. \A id \in ClientId : writer'[id] = "none" => given'[id] = {} /\ told'[id] = Untold
        BY <2>1 DEF OrderInv
  <2> QED BY <2>3, <2>4, <2>5, <2>6 DEF OrderInv
<1>4. CASE BeginFanout \/ EndFanout
      BY <1>4, OrderFrame DEF BeginFanout, EndFanout, chanVars, histVars
<1>5. ASSUME NEW id \in ClientId, TrySend(id) PROVE OrderInv'
  <2>1. given' = given
    <3>1. CASE Enqueue(id, "chunk")
          BY <3>1 DEF Enqueue, Ordered, TypeOK, HistTypes
    <3> QED BY <1>5, <3>1 DEF TrySend
  <2> QED BY <1>5, <2>1, OrderFrame DEF TrySend
<1>6. ASSUME NEW id \in ClientId, Disconnect(id) PROVE OrderInv'
      BY <1>6, OrderFrame DEF Disconnect, chanVars, histVars
<1>7. CASE Tick
      BY <1>7, OrderFrame DEF Tick, chanVars, histVars
<1>8. ASSUME NEW t \in Tasks, BeginSettings(t) \/ SettingsRefused(t) PROVE OrderInv'
      BY <1>8, OrderFrame DEF BeginSettings, SettingsRefused, chanVars, histVars
<1>9. ASSUME NEW t \in Tasks, SettingsSent(t) PROVE OrderInv'
  <2>1. sending[t] \in ClientId
        BY <1>9 DEF SettingsSent, TypeOK, TaskTypes
  <2>2. \A id \in ClientId \ {sending[t]} : told'[id] = told[id]
        BY <1>9, <2>1 DEF SettingsSent, Tell, TypeOK, HistTypes
  <2> QED BY <1>9, <2>1, <2>2, EnqueueOrder DEF SettingsSent, Tell, Outbound
<1> QED BY <1>1, <1>2, <1>3, <1>4, <1>5, <1>6, <1>7, <1>8, <1>9
        DEF WriterStep, WriterFails, WriterIdleExit, PipeStep, TaskStep

LEMMA OrderStep == ServerInv /\ SessionInv /\ OrderInv /\ [Next]_vars => OrderInv'
<1> SUFFICES ASSUME ServerInv, SessionInv, OrderInv, [Next]_vars PROVE OrderInv'
    OBVIOUS
<1>1. CASE Next
      BY <1>1, ReaderStepOrder, OtherStepOrder DEF Next
<1>2. CASE UNCHANGED vars
      BY <1>2, OrderFrame DEF vars, readerVars, chanVars, histVars
<1> QED BY <1>1, <1>2

\* The invariants of this module and of StreamServerProofs together.
PromiseInv == ServerInv /\ VolumeInv /\ SessionInv /\ OrderInv

THEOREM PromiseInvariant == Spec => []PromiseInv
<1>1. Init => PromiseInv
      BY InitServer, InitVolume DEF Init, PromiseInv, SessionInv, OrderInv, HandshakeOrder
<1>2. PromiseInv /\ [Next]_vars => PromiseInv'
      BY ServerStep, VolumeStep, SessionStep, OrderStep DEF PromiseInv
<1> QED BY <1>1, <1>2, PTL DEF Spec

\* No channel gets its codec header before settings nor a reply before the header.
THEOREM HandshakeCorrect == Spec => []HandshakeOrder
<1>1. PromiseInv => HandshakeOrder
      BY DEF PromiseInv, OrderInv
<1> QED BY <1>1, PromiseInvariant, PTL

-----------------------------------------------------------------------------
\* Evictions.

\* Whom the fan-out is to disconnect has been full too long or has a shut socket, and
\* stays so until it is gone.
WedgedInv ==
    /\ todo \cap wedged = {}
    /\ \A id \in todo \cup wedged : id < nextId
    /\ \A id \in wedged \cap clients : fullFor[id] > LIMIT \/ sock[connOf[id]] = "shut"

\* Steps that leave the fan-out, the ages and the registrations alone.
LEMMA WedgedFrame ==
    ASSUME WedgedInv, UNCHANGED <<todo, wedged, connOf, nextId>>, clients' \subseteq clients,
           \A id \in wedged \cap clients' : fullFor[id] > LIMIT => fullFor'[id] > LIMIT,
           \A c \in Conns : sock[c] = "shut" => sock'[c] = "shut",
           TypeOK
    PROVE  WedgedInv'
  BY DEF WedgedInv, TypeOK, RegistryTypes

LEMMA WedgedStep == ServerInv /\ WedgedInv /\ [Next]_vars => WedgedInv'
<1> SUFFICES ASSUME ServerInv, WedgedInv, [Next]_vars PROVE WedgedInv'
    OBVIOUS
<1> USE DEF ServerInv
<1>1. ASSUME NEW c \in Conns, Accept(c) PROVE WedgedInv'
      BY <1>1, WedgedFrame DEF Accept, TypeOK, SocketTypes, regVars, pipeVars
<1>2. ASSUME NEW c \in Conns, Hello(c) PROVE WedgedInv'
      BY <1>2 DEF Hello, WedgedInv, TypeOK, RegistryTypes, PipeTypes, ClientId, sockVars, pipeVars
<1>3. ASSUME NEW c \in Conns, Unregister(c) PROVE WedgedInv'
  <2>1. \A id \in clients' : fullFor'[id] = fullFor[id]
        BY <1>3 DEF Unregister, Remove, TypeOK, RegistryTypes
  <2> QED BY <1>3, <2>1, WedgedFrame DEF Unregister, Remove, sockVars, pipeVars
<1>4. ASSUME NEW c \in Conns, CloseSocket(c) \/ PeerResets(c) \/ PeerReads(c) PROVE WedgedInv'
      BY <1>4, WedgedFrame DEF CloseSocket, PeerResets, PeerReads, Shut, TypeOK, SocketTypes,
                               regVars, pipeVars
<1>5. ASSUME NEW c \in Conns, ReaderStep(c), ~Hello(c), ~Unregister(c), ~CloseSocket(c)
      PROVE  WedgedInv'
      BY <1>5, WedgedFrame DEF ReaderStep, HelloFails, RecvTime, ReadFails, ReadSettings,
                               SendSettings, SendCodec, SendReply, SendRefused, regVars,
                               sockVars, pipeVars
<1>6. ASSUME NEW id \in ClientId, WriterStep(id) PROVE WedgedInv'
      BY <1>6, WedgedFrame DEF WriterStep, WriterRecv, WriterWrite, WriterFails,
                               WriterIdleExit, WriterEnds, Shut, TypeOK, SocketTypes,
                               sockVars, regVars, pipeVars
<1>7. CASE BeginFanout
      BY <1>7 DEF BeginFanout, WedgedInv, ChannelInv, regVars, sockVars
<1>8. CASE EndFanout
      BY <1>8 DEF EndFanout, WedgedInv, regVars, sockVars
<1>9. ASSUME NEW i \in ClientId, TrySend(i) PROVE WedgedInv'
  <2>1. /\ i \in todo /\ todo' = todo \ {i}
        /\ wedged' \subseteq wedged \cup {i}
        /\ UNCHANGED <<sock, clients, connOf, nextId>>
        BY <1>9 DEF TrySend, sockVars
  <2>2. \A id \in ClientId \ {i} : fullFor'[id] = fullFor[id]
        BY <1>9 DEF TrySend, TypeOK, RegistryTypes
  <2>3. i \in wedged' => fullFor'[i] > LIMIT \/ sock[connOf[i]] = "shut"
    <3>1. i \notin wedged
          BY <2>1 DEF WedgedInv
    <3>2. CASE Dead(i)
          BY <3>2 DEF ChannelInv
    <3>3. CASE i \in wedged' /\ ~Dead(i)
      <4>1. fullFor' = [fullFor EXCEPT ![i] = FullSince(@)] /\ TooLong(FullSince(fullFor[i]))
            BY <1>9, <3>1, <3>3 DEF TrySend
      <4> QED BY <4>1 DEF TooLong, TypeOK, RegistryTypes
    <3> QED BY <3>2, <3>3
  <2> QED BY <2>1, <2>2, <2>3 DEF WedgedInv, TypeOK, PipeTypes
<1>10. ASSUME NEW i \in ClientId, Disconnect(i) PROVE WedgedInv'
  <2>1. /\ wedged' = wedged \ {i} /\ clients' \subseteq clients
        /\ UNCHANGED <<todo, connOf, nextId>>
        BY <1>10 DEF Disconnect, Evict, Remove
  <2>2. \A id \in ClientId \ {i} : fullFor'[id] = fullFor[id]
        BY <1>10 DEF Disconnect, Evict, Remove
  <2>3. \A c \in Conns : sock[c] = "shut" => sock'[c] = "shut"
        BY <1>10 DEF Disconnect, Evict, Shut, TypeOK, SocketTypes, sockVars
  <2> QED BY <2>1, <2>2, <2>3 DEF WedgedInv, TypeOK, RegistryTypes, PipeTypes
<1>11. CASE Tick
  <2>1. \A id \in ClientId : fullFor[id] > LIMIT => fullFor'[id] > LIMIT
        BY <1>11 DEF Tick, TypeOK, RegistryTypes
  <2> QED BY <1>11, <2>1, WedgedFrame DEF Tick, TypeOK, RegistryTypes, sockVars, pipeVars
<1>12. ASSUME NEW t \in Tasks, TaskStep(t) PROVE WedgedInv'
      BY <1>12, WedgedFrame DEF TaskStep, BeginSettings, SettingsSent, SettingsRefused,
                                regVars, sockVars, pipeVars
<1>13. CASE UNCHANGED vars
      BY <1>13, WedgedFrame DEF vars, regVars, sockVars, pipeVars
<1> QED BY <1>1, <1>2, <1>3, <1>4, <1>5, <1>6, <1>7, <1>8, <1>9, <1>10, <1>11, <1>12, <1>13
        DEF Next, PipeStep

\* A client that is removed with its socket open was leaving by itself or was full for
\* longer than the limit.
LEMMA RemovalJustified ==
    ASSUME ServerInv, WedgedInv, [Next]_vars, NEW id \in clients \ clients',
           sock[connOf[id]] = "open", reader[connOf[id]] # "leave"
    PROVE  fullFor[id] > LIMIT
<1> USE DEF ServerInv
<1>1. CASE UNCHANGED vars
      BY <1>1 DEF vars, regVars
<1>2. ASSUME NEW c \in Conns, Accept(c) \/ ReaderStep(c), ~Unregister(c) PROVE FALSE
      BY <1>2 DEF Accept, ReaderStep, Hello, HelloFails, RecvTime, ReadFails, ReadSettings,
                  SendSettings, SendCodec, SendReply, SendRefused, CloseSocket, regVars
<1>3. ASSUME NEW c \in Conns, Unregister(c) PROVE FALSE
  <2>1. myId[c] # NoId /\ id = myId[c]
        BY <1>3 DEF Unregister, Remove
  <2>2. connOf[id] = c
        BY <2>1 DEF HandleInv, Owns
  <2> QED BY <1>3, <2>2 DEF Unregister
<1>4. ASSUME NEW i \in ClientId, Disconnect(i) PROVE fullFor[id] > LIMIT
  <2>1. id = i /\ i \in wedged
        BY <1>4 DEF Disconnect, Evict, Remove
  <2> QED BY <2>1 DEF WedgedInv
<1>5. ASSUME \/ \E c \in Conns : PeerReads(c) \/ PeerResets(c)
             \/ \E i \in ClientId : WriterStep(i) \/ TrySend(i)
             \/ BeginFanout \/ EndFanout \/ Tick
             \/ \E t \in Tasks : TaskStep(t)
      PROVE  FALSE
      BY <1>5 DEF PeerReads, PeerResets, WriterStep, WriterRecv, WriterWrite, WriterFails,
                  WriterIdleExit, WriterEnds, TrySend, BeginFanout, EndFanout, Tick, TaskStep,
                  BeginSettings, SettingsSent, SettingsRefused, regVars
<1> QED BY <1>1, <1>2, <1>3, <1>4, <1>5 DEF Next, PipeStep

\* The fan-out forces nobody out but who was found full past the limit.
THEOREM EvictionCorrect == Spec => EvictionJustified
<1>1. Init => ServerInv /\ WedgedInv
      BY InitServer DEF Init, WedgedInv
<1>2. ServerInv /\ WedgedInv /\ [Next]_vars => (ServerInv /\ WedgedInv)'
      BY ServerStep, WedgedStep
<1>3. ServerInv /\ WedgedInv /\ [Next]_vars =>
         [\A id \in clients \ clients' :
            sock[connOf[id]] = "open" /\ reader[connOf[id]] # "leave"
              => fullFor[id] > LIMIT]_vars
      BY RemovalJustified
<1> QED BY <1>1, <1>2, <1>3, PTL DEF Spec, EvictionJustified

-----------------------------------------------------------------------------
\* The refinement.

LEMMA InitDelivery == Init => \A id \in ClientId : Delivery(id)!Init
<1> SUFFICES ASSUME Init, NEW id \in ClientId PROVE Delivery(id)!Init
    OBVIOUS
<1> QED BY DEF Init, Delivery!Init, Standing, Served

\* Another client's business.
LEMMA NotConcerned ==
    ASSUME NEW id \in ClientId, UNCHANGED <<Served(id), writer[id], told[id], given[id], volume>>
    PROVE  [Delivery(id)!Next]_(Delivery(id)!vars)
  BY DEF Delivery!vars, Standing

\* Settings are sent to i.
LEMMA TellDelivers ==
    ASSUME PromiseInv, NEW i \in ClientId, NEW v \in Volume, v <= volume, Tell(i, v),
           UNCHANGED <<clients, writer, volume>>, NEW id \in ClientId
    PROVE  [Delivery(id)!Next]_(Delivery(id)!vars)
<1> USE DEF PromiseInv, ServerInv
<1>1. Served(id)' = Served(id)
      BY DEF Served, Alive
<1>2. CASE id # i
  <2>1. told'[id] = told[id] /\ given'[id] = given[id]
        BY <1>2, EnqueueGives DEF Tell, TypeOK, HistTypes, Outbound
  <2> QED BY <1>1, <2>1, NotConcerned
<1>3. CASE id = i /\ ~Served(i)
  <2>1. Standing(i)' = Standing(i)
        BY <1>1, <1>3 DEF Standing
  <2> QED BY <1>1, <1>3, <2>1 DEF Delivery!vars
<1>4. CASE id = i /\ Served(i)
  <2>1. given'[i] = given[i] \cup {"settings"}
        BY EnqueueGives DEF Tell, Outbound
  <2>2. Standing(i) = "served" /\ Standing(i)' = "served"
        BY <1>1, <1>4 DEF Standing
  <2>3. told'[i] = IF v > told[i] THEN v ELSE told[i]
        BY DEF Tell, TypeOK, HistTypes
  <2>4. told[i] <= volume
        BY DEF VolumeInv, VolumeBound
  <2>5. CASE v = volume
    <3>1. told'[i] = volume'
          BY <2>3, <2>4, <2>5 DEF TypeOK, HistTypes, RegistryTypes, Volume, Untold
    <3>2. Delivery(i)!Inform
          BY <1>1, <1>4, <2>1, <2>2, <3>1 DEF Delivery!Inform, Delivery!Sends
    <3> QED BY <1>4, <3>2 DEF Delivery!Next
  <2>6. CASE v # volume
    <3>1. told'[i] = volume' <=> told[i] = volume
          BY <2>3, <2>4, <2>6 DEF TypeOK, HistTypes, RegistryTypes, Volume, Untold
    <3>2. Delivery(i)!Repeat
          BY <1>1, <1>4, <2>1, <2>2, <3>1 DEF Delivery!Repeat, Delivery!Sends
    <3> QED BY <1>4, <3>2 DEF Delivery!Next
  <2> QED BY <2>5, <2>6
<1> QED BY <1>2, <1>3, <1>4

\* i is removed or loses its writer.
LEMMA LeavesDelivers ==
    ASSUME NEW i \in ClientId, ~Served(i)', writer'[i] # "none",
           writer[i] = "none" => ~Alive(i) /\ writer'[i] = "none",
           Served(i) \/ writer[i] # "none"
    PROVE  [Delivery(i)!Next]_(Delivery(i)!vars)
<1>1. Standing(i)' = "gone"
      BY DEF Standing
<1>2. CASE Served(i)
  <2>1. Standing(i) = "served"
        BY <1>2 DEF Standing
  <2>2. Delivery(i)!Leave
        BY <1>1, <1>2, <2>1 DEF Delivery!Leave
  <2> QED BY <2>2 DEF Delivery!Next
<1>3. CASE ~Served(i)
  <2>1. Standing(i) = "gone"
        BY <1>3 DEF Standing
  <2> QED BY <1>1, <1>3, <2>1 DEF Delivery!vars
<1> QED BY <1>2, <1>3

\* The steps that change nothing the mapping reads.
LEMMA Unmapped ==
    ASSUME TypeOK,
           \/ \E c \in Conns : \/ Accept(c) \/ HelloFails(c) \/ RecvTime(c) \/ ReadFails(c)
                               \/ ReadSettings(c) \/ SendRefused(c) \/ CloseSocket(c)
                               \/ PeerReads(c) \/ PeerResets(c)
           \/ \E id \in ClientId : WriterRecv(id) \/ WriterWrite(id) \/ TrySend(id)
           \/ BeginFanout \/ EndFanout \/ Tick
           \/ \E t \in Tasks : SettingsRefused(t)
    PROVE  UNCHANGED mapped
<1> USE DEF mapped, regVars, chanVars, histVars
<1>1. ASSUME NEW c \in Conns,
             \/ Accept(c) \/ HelloFails(c) \/ RecvTime(c) \/ ReadFails(c) \/ ReadSettings(c)
             \/ SendRefused(c) \/ CloseSocket(c) \/ PeerReads(c) \/ PeerResets(c)
      PROVE  UNCHANGED mapped
      BY <1>1 DEF Accept, HelloFails, RecvTime, ReadFails, ReadSettings, SendRefused,
                  CloseSocket, PeerReads, PeerResets
<1>2. ASSUME NEW id \in ClientId, WriterRecv(id) \/ WriterWrite(id) PROVE UNCHANGED mapped
      BY <1>2 DEF WriterRecv, WriterWrite
<1>3. ASSUME NEW id \in ClientId, TrySend(id) PROVE UNCHANGED mapped
  <2>1. given' = given
    <3>1. CASE Enqueue(id, "chunk")
          BY <3>1 DEF Enqueue, Ordered, TypeOK, HistTypes
    <3> QED BY <1>3, <3>1 DEF TrySend
  <2> QED BY <1>3, <2>1 DEF TrySend
<1>4. CASE BeginFanout \/ EndFanout \/ Tick
      BY <1>4 DEF BeginFanout, EndFanout, Tick
<1>5. ASSUME NEW t \in Tasks, SettingsRefused(t) PROVE UNCHANGED mapped
      BY <1>5 DEF SettingsRefused
<1> QED BY <1>1, <1>2, <1>3, <1>4, <1>5

LEMMA HelloDelivers ==
    ASSUME PromiseInv, NEW c \in Conns, Hello(c), NEW id \in ClientId
    PROVE  [Delivery(id)!Next]_(Delivery(id)!vars)
<1> USE DEF PromiseInv, ServerInv, TypeOK, RegistryTypes, ChannelTypes
<1>1. UNCHANGED <<told, given, volume>>
      BY DEF Hello, histVars
<1>2. CASE id # nextId
  <2>1. Served(id)' = Served(id) /\ writer'[id] = writer[id]
        BY <1>2 DEF Hello, Served, Alive
  <2> QED BY <1>1, <2>1, NotConcerned
<1>3. CASE id = nextId
  <2>1. writer[id] = "none" /\ id \notin clients
        BY <1>3 DEF ChannelInv
  <2>2. ~Served(id) /\ Standing(id) = "new"
        BY <2>1 DEF Served, Standing
  <2>3. Served(id)' /\ Standing(id)' = "served"
        BY <1>3 DEF Hello, Served, Alive, Standing
  <2>4. given[id] = {} /\ told[id] # volume
        BY <2>1 DEF OrderInv, Volume, Untold
  <2>5. Delivery(id)!Join
        BY <1>1, <2>2, <2>3, <2>4 DEF Delivery!Join
  <2> QED BY <2>5 DEF Delivery!Next
<1> QED BY <1>2, <1>3

\* The codec header or a reply is sent to i.
LEMMA EnqueueDelivers ==
    ASSUME PromiseInv, NEW i \in ClientId, Alive(i), NEW k \in {"codec", "reply"}, Enqueue(i, k),
           "settings" \in given[i], k = "reply" => "codec" \in given[i],
           UNCHANGED <<clients, writer, volume, told>>, NEW id \in ClientId
    PROVE  [Delivery(id)!Next]_(Delivery(id)!vars)
<1> USE DEF PromiseInv, ServerInv
<1>1. Served(id)' = Served(id) /\ Standing(id)' = Standing(id)
      BY DEF Served, Alive, Standing
<1>2. CASE id # i
      BY <1>1, <1>2, EnqueueGives, NotConcerned DEF Outbound
<1>3. CASE id = i /\ ~Served(i)
      BY <1>1, <1>3 DEF Delivery!vars
<1>4. CASE id = i /\ Served(i)
  <2>1. given'[i] = given[i] \cup {k}
        BY EnqueueGives DEF Outbound
  <2>2. Standing(i) = "served"
        BY <1>4 DEF Standing
  <2>3. CASE k = "codec"
    <3>1. Delivery(i)!Header
          BY <1>1, <1>4, <2>1, <2>2, <2>3 DEF Delivery!Header, Delivery!Sends
    <3> QED BY <1>4, <3>1 DEF Delivery!Next
  <2>4. CASE k = "reply"
    <3>1. Delivery(i)!Answer
          BY <1>1, <1>4, <2>1, <2>2, <2>4 DEF Delivery!Answer, Delivery!Sends
    <3> QED BY <1>4, <3>1 DEF Delivery!Next
  <2> QED BY <2>3, <2>4
<1> QED BY <1>2, <1>3, <1>4

\* The registration i is removed from the registry.
LEMMA RemoveDelivers ==
    ASSUME PromiseInv, NEW i \in clients, Remove(i), UNCHANGED <<chanVars, volume, histVars>>,
           NEW id \in ClientId
    PROVE  [Delivery(id)!Next]_(Delivery(id)!vars)
<1> USE DEF PromiseInv, ServerInv, TypeOK, RegistryTypes
<1>1. CASE id # i
  <2>1. Served(id)' = Served(id)
        BY <1>1 DEF Remove, Served, Alive, chanVars
  <2> QED BY <2>1, NotConcerned DEF chanVars, histVars
<1>2. CASE id = i
  <2>1. ~Served(i)'
        BY DEF Remove, Served
  <2>2. writer[i] # "none" /\ writer'[i] = writer[i]
        BY DEF ChannelInv, chanVars
  <2> QED BY <1>2, <2>1, <2>2, LeavesDelivers
<1> QED BY <1>1, <1>2

LEMMA WriterEndsDelivers ==
    ASSUME PromiseInv, NEW i \in ClientId, Alive(i), WriterEnds(i), NEW id \in ClientId
    PROVE  [Delivery(id)!Next]_(Delivery(id)!vars)
<1> USE DEF PromiseInv, ServerInv, TypeOK, ChannelTypes, HistTypes
<1>1. CASE id # i
  <2>1. UNCHANGED <<writer[id], told[id], given[id], volume, clients>>
        BY <1>1 DEF WriterEnds, regVars
  <2> QED BY <2>1, NotConcerned DEF Served, Alive
<1>2. CASE id = i
  <2>1. writer[i] = "run" /\ writer'[i] = "done"
        BY DEF WriterEnds, Alive
  <2>2. ~Served(i)'
        BY <2>1 DEF Served, Alive
  <2> QED BY <1>2, <2>1, <2>2, LeavesDelivers
<1> QED BY <1>1, <1>2

\* A new volume is one that nobody was told.
LEMMA BeginSettingsDelivers ==
    ASSUME PromiseInv, NEW t \in Tasks, BeginSettings(t), NEW id \in ClientId
    PROVE  [Delivery(id)!Next]_(Delivery(id)!vars)
<1> USE DEF PromiseInv, ServerInv, TypeOK
<1>1. UNCHANGED <<clients, writer, told, given>> /\ volume' = volume + 1
      BY DEF BeginSettings, chanVars, histVars
<1>2. Served(id)' = Served(id) /\ Standing(id)' = Standing(id)
      BY <1>1 DEF Served, Alive, Standing
<1>3. told'[id] # volume'
      BY <1>1 DEF VolumeInv, VolumeBound, HistTypes, RegistryTypes, Volume, Untold
<1>4. CASE Served(id) /\ told[id] = volume
  <2>1. Delivery(id)!Change
        BY <1>1, <1>2, <1>3, <1>4 DEF Delivery!Change
  <2> QED BY <2>1 DEF Delivery!Next
<1>5. CASE ~(Served(id) /\ told[id] = volume)
      BY <1>1, <1>2, <1>3, <1>5 DEF Delivery!vars
<1> QED BY <1>4, <1>5

LEMMA StepDelivers ==
    ASSUME PromiseInv, [Next]_vars
    PROVE  UNCHANGED mapped \/ \A id \in ClientId : [Delivery(id)!Next]_(Delivery(id)!vars)
<1> USE DEF PromiseInv, ServerInv
<1> DEFINE Simulated == \A id \in ClientId : [Delivery(id)!Next]_(Delivery(id)!vars)
<1>1. ASSUME NEW c \in Conns, ReaderStep(c) PROVE UNCHANGED mapped \/ Simulated
  <2>1. CASE Hello(c)
        BY <2>1, HelloDelivers
  <2>2. CASE SendSettings(c)
    <3>1. helloId[c] \in ClientId /\ snap[c] \in Volume /\ snap[c] <= volume
          BY <2>2 DEF SendSettings, HandleInv, TypeOK, ReaderTypes, VolumeInv, VolumeBound
    <3>2. Tell(helloId[c], snap[c]) /\ UNCHANGED <<clients, writer, volume>>
          BY <2>2 DEF SendSettings, regVars
    <3> QED BY <3>1, <3>2, TellDelivers
  <2>3. CASE SendCodec(c)
    <3>1. helloId[c] \in ClientId /\ "settings" \in given[helloId[c]]
          BY <2>3 DEF SendCodec, HandleInv, TypeOK, ReaderTypes, OrderInv
    <3> QED BY <2>3, <3>1, EnqueueDelivers DEF SendCodec, regVars
  <2>4. CASE SendReply(c)
    <3>1. myId[c] \in ClientId /\ {"settings", "codec"} \subseteq given[myId[c]]
          BY <2>4 DEF SendReply, SessionInv, TypeOK, ReaderTypes, OrderInv
    <3> QED BY <2>4, <3>1, EnqueueDelivers DEF SendReply, regVars
  <2>5. CASE Unregister(c)
    <3>1. CASE myId[c] \in clients
      <4>1. Remove(myId[c]) /\ UNCHANGED <<chanVars, volume, histVars>>
            BY <2>5, <3>1 DEF Unregister, TypeOK, RegistryTypes, ClientId, NoId
      <4> QED BY <3>1, <4>1, RemoveDelivers
    <3>2. CASE myId[c] \notin clients
          BY <2>5, <3>2 DEF Unregister, Remove, mapped, chanVars, histVars
    <3> QED BY <3>1, <3>2
  <2>6. CASE \/ HelloFails(c) \/ RecvTime(c) \/ ReadFails(c) \/ ReadSettings(c)
             \/ SendRefused(c) \/ CloseSocket(c)
        BY <2>6, Unmapped
  <2> QED BY <1>1, <2>1, <2>2, <2>3, <2>4, <2>5, <2>6 DEF ReaderStep
<1>2. ASSUME NEW id \in ClientId, WriterStep(id) PROVE UNCHANGED mapped \/ Simulated
  <2>1. CASE WriterRecv(id) \/ WriterWrite(id)
        BY <2>1, Unmapped
  <2>2. CASE WriterFails(id) \/ WriterIdleExit(id)
        BY <2>2, WriterEndsDelivers DEF WriterFails, WriterIdleExit
  <2> QED BY <1>2, <2>1, <2>2 DEF WriterStep
<1>3. ASSUME NEW i \in ClientId, Disconnect(i) PROVE UNCHANGED mapped \/ Simulated
  <2>1. CASE i \in clients
    <3>1. Remove(i) /\ UNCHANGED <<chanVars, volume, histVars>>
          BY <1>3, <2>1 DEF Disconnect, Evict
    <3> QED BY <2>1, <3>1, RemoveDelivers
  <2>2. CASE i \notin clients
        BY <1>3, <2>2 DEF Disconnect, mapped, chanVars, histVars
  <2> QED BY <2>1, <2>2
<1>4. ASSUME NEW t \in Tasks, TaskStep(t) PROVE UNCHANGED mapped \/ Simulated
  <2>1. CASE BeginSettings(t)
        BY <2>1, BeginSettingsDelivers
  <2>2. CASE SettingsSent(t)
    <3>1. sending[t] \in ClientId /\ vol[t] \in Volume /\ vol[t] <= volume
          BY <2>2 DEF SettingsSent, TypeOK, TaskTypes, VolumeInv, VolumeBound
    <3>2. Tell(sending[t], vol[t]) /\ UNCHANGED <<clients, writer, volume>>
          BY <2>2 DEF SettingsSent, regVars
    <3> QED BY <3>1, <3>2, TellDelivers
  <2>3. CASE SettingsRefused(t)
        BY <2>3, Unmapped
  <2> QED BY <1>4, <2>1, <2>2, <2>3 DEF TaskStep
<1>5. CASE UNCHANGED vars
      BY <1>5 DEF vars, mapped, regVars, chanVars, histVars
<1>6. ASSUME NEW c \in Conns, Accept(c) \/ PeerReads(c) \/ PeerResets(c)
      PROVE  UNCHANGED mapped
      BY <1>6, Unmapped
<1>7. ASSUME \/ \E id \in ClientId : TrySend(id)
             \/ BeginFanout \/ EndFanout \/ Tick
      PROVE  UNCHANGED mapped
      BY <1>7, Unmapped
<1>8. CASE \E c \in Conns : ReaderStep(c)
      BY <1>1, <1>8
<1>9. CASE \E id \in ClientId : WriterStep(id)
      BY <1>2, <1>9
<1>10. CASE \E i \in ClientId : Disconnect(i)
      BY <1>3, <1>10
<1>11. CASE \E t \in Tasks : TaskStep(t)
      BY <1>4, <1>11
<1>12. CASE \E c \in Conns : Accept(c) \/ PeerReads(c) \/ PeerResets(c)
      BY <1>6, <1>12
<1> HIDE DEF Simulated, PromiseInv, ServerInv
<1>13. CASE PipeStep
      BY <1>7, <1>10, <1>13 DEF PipeStep
<1>14. CASE Next
      BY <1>7, <1>8, <1>9, <1>11, <1>12, <1>13, <1>14 DEF Next
<1> QED BY <1>5, <1>14 DEF Simulated

\* Whatever its threads do, the server gives each client it registers the steps of
\* ClientDelivery and no others.
THEOREM ServerImplements == Spec => Implements
<1>1. Init => \A id \in ClientId : Delivery(id)!Init
      BY InitDelivery
<1>2. PromiseInv /\ [Next]_vars =>
         [\/ UNCHANGED mapped
          \/ \A id \in ClientId : [Delivery(id)!Next]_(Delivery(id)!vars)]_vars
      BY StepDelivers
<1> QED BY <1>1, <1>2, PromiseInvariant, PTL DEF Spec, Implements
=============================================================================
