---------------------------- MODULE StreamServer ----------------------------
(***************************************************************************)
(* The streaming half of snapcast-server: server/src/net.rs driving the    *)
(* per-client protocol core of src/server.rs.                              *)
(*                                                                         *)
(* Threads.  One reader per accepted connection (run_reader), one writer   *)
(* per registration (run_writer), the pipeline thread that fans chunks out *)
(* (Registry::broadcast_chunk) and the event tasks that push the volume    *)
(* (Registry::broadcast_settings).  They share the registry, behind one    *)
(* mutex, and one bounded channel per registration.                        *)
(*                                                                         *)
(* Grain.  A critical section that only touches the registry is one step.  *)
(* The fan-out also touches the channels, which readers, writers and event *)
(* tasks use without the mutex, so it is one step per client and holds the *)
(* mutex from BeginFanout to EndFanout.  What a thread does privately is   *)
(* merged with the shared access next to it.                               *)
(*                                                                         *)
(* Data.  No step depends on what a message in a channel holds, and a      *)
(* channel is first-in first-out: the model counts its messages and keeps, *)
(* as history, the kinds (given) and the volumes (told, last) it was sent. *)
(* A volume is the number of the volume change that set it.  Time is a     *)
(* count of Tick steps.  The drop counter, which only feeds a log line, is *)
(* left out.                                                               *)
(***************************************************************************)
EXTENDS Integers

CONSTANTS
    Conns,          \* connections a listener may accept
    Tasks,          \* event tasks that may call broadcast_settings
    CHANNEL_SLOTS,  \* capacity of the channel of a registration
    SOCK_BUF,       \* messages the kernel buffers for a peer that does not read
    LIMIT,          \* twice the server buffer, in ticks
    MAX_CLIENT_ID,  \* bound: registrations in a behaviour
    MAX_VOLUME      \* bound: volume changes in a behaviour

ASSUME ConstantsAssumption ==
    /\ Conns # {}
    /\ CHANNEL_SLOTS \in Nat \ {0}
    /\ SOCK_BUF \in Nat \ {0}
    /\ LIMIT \in Nat
    /\ MAX_CLIENT_ID \in Nat \ {0}
    /\ MAX_VOLUME \in Nat

ClientId == 0 .. MAX_CLIENT_ID - 1
NoId     == -1     \* the None of an Option<ClientId>
NotFull  == -1     \* the None of full_since
Untold   == -1     \* a channel that was given no settings yet
Volume   == 0 .. MAX_VOLUME

Outbound == {"chunk", "settings", "codec", "reply"}
Ordered  == Outbound \ {"chunk"}     \* a chunk may come at any time

VARIABLES
    \* the sockets, as both ends see them
    sock,       \* Conns -> "new" | "open" | "shut" (either side, both directions)
    unread,     \* Conns -> messages written that the peer has not read
    \* one reader thread per connection
    reader,     \* Conns -> where the reader is
    greeted,    \* Conns -> ServerSession::greeted
    myId,       \* Conns -> my_id, and my_tx: they are always set together
    helloId,    \* Conns -> the registration whose handshake is in progress
    snap,       \* Conns -> the volume current_settings returned
    \* the registry: Inner, behind the mutex
    clients,    \* ids in the map
    connOf,     \* id -> the connection whose socket the handle holds
    fullFor,    \* id -> NotFull, or the age of full_since
    volume,     \* the stored volume
    nextId,     \* next_id
    \* one channel and one writer thread per registration
    queue,      \* id -> how many messages the channel holds
    writer,     \* id -> "none" | "run" | "done"; at "done" the receiver is dropped
    inHand,     \* id -> whether the writer took a message it has still to write
    \* the pipeline thread, inside broadcast_chunk
    pipe,       \* where it is
    todo,       \* clients the fan-out has not reached yet
    wedged,     \* clients to disconnect once the mutex is released
    \* the event tasks, inside broadcast_settings
    sending,    \* Tasks -> the client whose channel the task is sending to
    rest,       \* Tasks -> the clients it has still to send to
    vol,        \* Tasks -> the volume it is sending
    overtaken,  \* history: the clients that settings with an older volume were still
                \* under way to when the volume changed last
    \* history of a channel, while its writer runs
    told,       \* id -> the newest volume sent into it so far
    last,       \* id -> the volume sent into it last
    given       \* id -> the kinds of message, but chunks, sent into it so far

sockVars   == <<sock, unread>>
readerVars == <<reader, greeted, myId, helloId, snap>>
regVars    == <<clients, connOf, fullFor, volume, nextId>>
chanVars   == <<queue, writer, inHand>>
pipeVars   == <<pipe, todo, wedged>>
taskVars   == <<sending, rest, vol, overtaken>>
histVars   == <<told, last, given>>
vars == <<sockVars, readerVars, regVars, chanVars, pipeVars, taskVars, histVars>>

Init ==
    /\ sock = [c \in Conns |-> "new"]
    /\ unread = [c \in Conns |-> 0]
    /\ reader = [c \in Conns |-> "none"]
    /\ greeted = [c \in Conns |-> FALSE]
    /\ myId = [c \in Conns |-> NoId]
    /\ helloId = [c \in Conns |-> NoId]
    /\ snap = [c \in Conns |-> 0]
    /\ clients = {}
    /\ connOf = [i \in ClientId |-> CHOOSE c \in Conns : TRUE]  \* read once registered
    /\ fullFor = [i \in ClientId |-> NotFull]
    /\ volume = 0
    /\ nextId = 0
    /\ queue = [i \in ClientId |-> 0]
    /\ writer = [i \in ClientId |-> "none"]
    /\ inHand = [i \in ClientId |-> FALSE]
    /\ pipe = "idle"
    /\ todo = {}
    /\ wedged = {}
    /\ sending = [t \in Tasks |-> NoId]
    /\ rest = [t \in Tasks |-> {}]
    /\ vol = [t \in Tasks |-> 0]
    /\ overtaken = {}
    /\ told = [i \in ClientId |-> Untold]
    /\ last = [i \in ClientId |-> Untold]
    /\ given = [i \in ClientId |-> {}]

-----------------------------------------------------------------------------
\* Shared pieces.

\* The registry mutex is free: only the fan-out holds it across steps.
LockFree == pipe # "fanout"

Room(id)  == queue[id] < CHANNEL_SLOTS
Alive(id) == writer[id] = "run"       \* its receiver exists: a send can succeed
Dead(id)  == writer[id] = "done"      \* a send returns Disconnected

HoldsTxAlways(id) == TRUE   \* mutant of HoldsTx: the writer keeps a sender itself

\* The sender of a channel exists: in the map, in my_tx, in the handshake's
\* local tx, or among the clones a broadcast has still to use.
HoldsTx(id) ==
    \/ id \in clients
    \/ \E c \in Conns : id \in {myId[c], helloId[c]}
    \/ \E t \in Tasks : id = sending[t] \/ id \in rest[t]

\* A message of kind m enters the channel of id.
Enqueue(id, m) ==
    /\ queue' = [queue EXCEPT ![id] = @ + 1]
    /\ given' = [given EXCEPT ![id] = @ \cup ({m} \cap Ordered)]

\* Settings with volume v enter the channel of id.
Tell(id, v) ==
    /\ Enqueue(id, "settings")
    /\ told' = [told EXCEPT ![id] = IF v > @ THEN v ELSE @]
    /\ last' = [last EXCEPT ![id] = v]

\* TcpStream::shutdown(Both), or the peer's end: reads and writes fail from here on.
Shut(c) ==
    /\ sock' = [sock EXCEPT ![c] = "shut"]
    /\ unread' = [unread EXCEPT ![c] = 0]

\* clients.remove(&id), which drops the handle with its full_since.
Remove(id) ==
    /\ clients' = clients \ {id}
    /\ fullFor' = [i \in ClientId |-> IF i = id THEN NotFull ELSE fullFor[i]]

-----------------------------------------------------------------------------
\* The listener and the reader threads (accept_loop, run_reader, reader_loop).

Accept(c) ==
    /\ sock[c] = "new"
    /\ sock' = [sock EXCEPT ![c] = "open"]
    /\ reader' = [reader EXCEPT ![c] = "read"]
    /\ UNCHANGED <<unread, greeted, myId, helloId, snap, regVars, chanVars, pipeVars,
                   taskVars, histVars>>

\* Mutant of Hello: next_id is read and not incremented.
HelloSameId(c) ==
    /\ reader[c] = "read"
    /\ LockFree
    /\ greeted' = [greeted EXCEPT ![c] = TRUE]
    /\ helloId' = [helloId EXCEPT ![c] = nextId]
    /\ reader' = [reader EXCEPT ![c] = "snapshot"]
    /\ clients' = clients \cup {nextId}
    /\ connOf' = [connOf EXCEPT ![nextId] = c]
    /\ writer' = [writer EXCEPT ![nextId] = "run"]
    /\ UNCHANGED <<sockVars, myId, snap, fullFor, volume, nextId, queue, inHand, pipeVars,
                   taskVars, histVars>>

\* A Hello is read, any number of times: channel, writer thread, registration.  What the
\* kernel had buffered can still be read after the socket was shut, here and in RecvTime.
Hello(c) ==
    /\ reader[c] = "read"
    /\ LockFree
    /\ nextId < MAX_CLIENT_ID
    /\ greeted' = [greeted EXCEPT ![c] = TRUE]
    /\ helloId' = [helloId EXCEPT ![c] = nextId]
    /\ reader' = [reader EXCEPT ![c] = "snapshot"]
    /\ clients' = clients \cup {nextId}
    /\ connOf' = [connOf EXCEPT ![nextId] = c]
    /\ writer' = [writer EXCEPT ![nextId] = "run"]
    /\ nextId' = nextId + 1
    /\ UNCHANGED <<sockVars, myId, snap, fullFor, volume, queue, inHand, pipeVars,
                   taskVars, histVars>>

\* Mutant of HelloFails: the failure is logged and the reader goes on.
HelloFailsGoesOn(c) ==
    /\ reader[c] = "read"
    /\ greeted' = [greeted EXCEPT ![c] = TRUE]
    /\ UNCHANGED <<sockVars, reader, myId, helloId, snap, regVars, chanVars, pipeVars,
                   taskVars, histVars>>

\* try_clone fails: the Hello was consumed, nothing is registered.
HelloFails(c) ==
    /\ reader[c] = "read"
    /\ greeted' = [greeted EXCEPT ![c] = TRUE]
    /\ reader' = [reader EXCEPT ![c] = "leave"]
    /\ UNCHANGED <<sockVars, myId, helloId, snap, regVars, chanVars, pipeVars,
                   taskVars, histVars>>

\* Mutant of ReadSettings: the volume the registry was built with.
ReadSettingsInitial(c) ==
    /\ reader[c] = "snapshot"
    /\ LockFree
    /\ snap' = [snap EXCEPT ![c] = 0]
    /\ reader' = [reader EXCEPT ![c] = "settings"]
    /\ UNCHANGED <<sockVars, greeted, myId, helloId, regVars, chanVars, pipeVars,
                   taskVars, histVars>>

\* current_settings, under the mutex; the send that follows is a later step.
ReadSettings(c) ==
    /\ reader[c] = "snapshot"
    /\ LockFree
    /\ snap' = [snap EXCEPT ![c] = volume]
    /\ reader' = [reader EXCEPT ![c] = "settings"]
    /\ UNCHANGED <<sockVars, greeted, myId, helloId, regVars, chanVars, pipeVars,
                   taskVars, histVars>>

\* Mutant of SendSettings: the codec header goes first.
SendSettingsSwapped(c) ==
    /\ reader[c] = "settings"
    /\ Alive(helloId[c]) /\ Room(helloId[c])
    /\ Enqueue(helloId[c], "codec")
    /\ snap' = [snap EXCEPT ![c] = 0]
    /\ reader' = [reader EXCEPT ![c] = "codec"]
    /\ UNCHANGED <<sockVars, greeted, myId, helloId, regVars, writer, inHand,
                   pipeVars, taskVars, told, last>>

SendSettings(c) ==
    /\ reader[c] = "settings"
    /\ Alive(helloId[c]) /\ Room(helloId[c])
    /\ Tell(helloId[c], snap[c])
    /\ snap' = [snap EXCEPT ![c] = 0]
    /\ reader' = [reader EXCEPT ![c] = "codec"]
    /\ UNCHANGED <<sockVars, greeted, myId, helloId, regVars, writer, inHand,
                   pipeVars, taskVars>>

\* Only now do my_id and my_tx name the registration (the previous my_tx drops).
SendCodec(c) ==
    /\ reader[c] = "codec"
    /\ Alive(helloId[c]) /\ Room(helloId[c])
    /\ Enqueue(helloId[c], "codec")
    /\ myId' = [myId EXCEPT ![c] = helloId[c]]
    /\ helloId' = [helloId EXCEPT ![c] = NoId]
    /\ reader' = [reader EXCEPT ![c] = "read"]
    /\ UNCHANGED <<sockVars, greeted, snap, regVars, writer, inHand, pipeVars,
                   taskVars, told, last>>

\* A Time request is read: an error before Hello, a reply once my_tx is set.
RecvTime(c) ==
    /\ reader[c] = "read"
    /\ reader' = [reader EXCEPT ![c] = CASE ~greeted[c] -> "leave"
                                         [] greeted[c] /\ myId[c] = NoId -> "read"
                                         [] OTHER -> "reply"]
    /\ UNCHANGED <<sockVars, greeted, myId, helloId, snap, regVars, chanVars,
                   pipeVars, taskVars, histVars>>

SendReply(c) ==
    /\ reader[c] = "reply"
    /\ Alive(myId[c]) /\ Room(myId[c])
    /\ Enqueue(myId[c], "reply")
    /\ reader' = [reader EXCEPT ![c] = "read"]
    /\ UNCHANGED <<sockVars, greeted, myId, helloId, snap, regVars, writer, inHand,
                   pipeVars, taskVars, told, last>>

\* The channel the reader is sending to.
Target(c) == IF reader[c] = "reply" THEN myId[c] ELSE helloId[c]

\* Any send of the reader fails: its receiver is gone.  The handshake's local
\* tx and id are lost with it.
SendRefused(c) ==
    /\ reader[c] \in {"settings", "codec", "reply"}
    /\ Dead(Target(c))
    /\ helloId' = [helloId EXCEPT ![c] = NoId]
    /\ snap' = [snap EXCEPT ![c] = 0]
    /\ reader' = [reader EXCEPT ![c] = "leave"]
    /\ UNCHANGED <<sockVars, greeted, myId, regVars, chanVars, pipeVars,
                   taskVars, histVars>>

\* End of stream, a reset, or bytes that do not parse (read_exact, on_header, decode_c).
ReadFails(c) ==
    /\ reader[c] = "read"
    /\ reader' = [reader EXCEPT ![c] = "leave"]
    /\ UNCHANGED <<sockVars, greeted, myId, helloId, snap, regVars, chanVars,
                   pipeVars, taskVars, histVars>>

\* run_reader: unregister my_id, if it was set ...
Unregister(c) ==
    /\ reader[c] = "leave"
    /\ IF myId[c] = NoId THEN UNCHANGED <<clients, fullFor>>
                         ELSE LockFree /\ Remove(myId[c])
    /\ reader' = [reader EXCEPT ![c] = "close"]
    /\ UNCHANGED <<sockVars, greeted, myId, helloId, snap, connOf, volume, nextId,
                   chanVars, pipeVars, taskVars, histVars>>

\* Mutant of CloseSocket: the reader returns without shutting the socket.
CloseSocketLeftOpen(c) ==
    /\ reader[c] = "close"
    /\ myId' = [myId EXCEPT ![c] = NoId]
    /\ reader' = [reader EXCEPT ![c] = "done"]
    /\ UNCHANGED <<sockVars, greeted, helloId, snap, regVars, chanVars, pipeVars,
                   taskVars, histVars>>

\* ... then shut the socket and return, which drops my_tx.
CloseSocket(c) ==
    /\ reader[c] = "close"
    /\ Shut(c)
    /\ myId' = [myId EXCEPT ![c] = NoId]
    /\ reader' = [reader EXCEPT ![c] = "done"]
    /\ UNCHANGED <<greeted, helloId, snap, regVars, chanVars, pipeVars, taskVars,
                   histVars>>

-----------------------------------------------------------------------------
\* The peer.

PeerReads(c) ==
    /\ unread[c] > 0
    /\ unread' = [unread EXCEPT ![c] = @ - 1]
    /\ UNCHANGED <<sock, readerVars, regVars, chanVars, pipeVars, taskVars, histVars>>

PeerResets(c) ==
    /\ sock[c] = "open"
    /\ Shut(c)
    /\ UNCHANGED <<readerVars, regVars, chanVars, pipeVars, taskVars, histVars>>

-----------------------------------------------------------------------------
\* The writer threads (run_writer).

WriterRecv(id) ==
    /\ Alive(id) /\ ~inHand[id] /\ queue[id] > 0
    /\ inHand' = [inHand EXCEPT ![id] = TRUE]
    /\ queue' = [queue EXCEPT ![id] = @ - 1]
    /\ UNCHANGED <<sockVars, readerVars, regVars, writer, pipeVars, taskVars, histVars>>

\* write_all returns once the kernel has taken the bytes.
WriterWrite(id) ==
    /\ Alive(id) /\ inHand[id]
    /\ sock[connOf[id]] = "open" /\ unread[connOf[id]] < SOCK_BUF
    /\ unread' = [unread EXCEPT ![connOf[id]] = @ + 1]
    /\ inHand' = [inHand EXCEPT ![id] = FALSE]
    /\ UNCHANGED <<sock, readerVars, regVars, queue, writer, pipeVars, taskVars, histVars>>

\* The writer shuts the socket and returns, which drops the receiver (and with
\* it what is in the channel; its history ends here too).
WriterEnds(id) ==
    /\ Shut(connOf[id])
    /\ writer' = [writer EXCEPT ![id] = "done"]
    /\ queue' = [queue EXCEPT ![id] = 0]
    /\ inHand' = [inHand EXCEPT ![id] = FALSE]
    /\ told' = [told EXCEPT ![id] = Untold]
    /\ last' = [last EXCEPT ![id] = Untold]
    /\ given' = [given EXCEPT ![id] = {}]
    /\ UNCHANGED <<readerVars, regVars, pipeVars, taskVars>>

\* write_all fails.
WriterFails(id) ==
    /\ Alive(id) /\ inHand[id] /\ sock[connOf[id]] = "shut"
    /\ WriterEnds(id)

\* recv fails: the channel is empty and no sender is left.
WriterIdleExit(id) ==
    /\ Alive(id) /\ ~inHand[id] /\ queue[id] = 0 /\ ~HoldsTx(id)
    /\ WriterEnds(id)

-----------------------------------------------------------------------------
\* The pipeline thread (broadcast_chunk) and the passage of time.

\* full_since of a client found full: the first time starts it.
FullSinceRestarted(age) == 0                        \* mutant of FullSince

FullSince(age) == IF age = NotFull THEN 0 ELSE age

\* Full for longer than twice the server buffer.
TooLongAtLimit(age) == age >= LIMIT                 \* mutants of TooLong
TooLongNever(age) == FALSE

TooLong(age) == age > LIMIT

BeginFanout ==
    /\ pipe = "idle"
    /\ pipe' = "fanout"
    /\ todo' = clients
    /\ wedged' = {}
    /\ UNCHANGED <<sockVars, readerVars, regVars, chanVars, taskVars, histVars>>

\* try_send to one client, in any order.
TrySend(id) ==
    /\ pipe = "fanout" /\ id \in todo
    /\ todo' = todo \ {id}
    /\ \/ /\ Alive(id) /\ Room(id)
          /\ Enqueue(id, "chunk")
          /\ fullFor' = [fullFor EXCEPT ![id] = NotFull]
          /\ UNCHANGED wedged
       \/ /\ Alive(id) /\ ~Room(id)
          /\ fullFor' = [fullFor EXCEPT ![id] = FullSince(@)]
          /\ wedged' = IF TooLong(FullSince(fullFor[id])) THEN wedged \cup {id} ELSE wedged
          /\ UNCHANGED <<queue, given>>
       \/ /\ Dead(id)
          /\ wedged' = wedged \cup {id}
          /\ UNCHANGED <<queue, given, fullFor>>
    /\ UNCHANGED <<sockVars, readerVars, clients, connOf, volume, nextId, writer, inHand,
                   pipe, taskVars, told, last>>

\* The mutex is released before the wedged clients are disconnected.
EndFanout ==
    /\ pipe = "fanout" /\ todo = {}
    /\ pipe' = IF wedged = {} THEN "idle" ELSE "evict"
    /\ UNCHANGED <<sockVars, readerVars, regVars, chanVars, todo, wedged, taskVars,
                   histVars>>

EvictQuietly(id) == Remove(id) /\ UNCHANGED sockVars       \* mutant of Evict

Evict(id) == Remove(id) /\ Shut(connOf[id])

\* Registry::disconnect: removes and shuts under the mutex, if still registered.
Disconnect(id) ==
    /\ pipe = "evict" /\ id \in wedged
    /\ wedged' = wedged \ {id}
    /\ pipe' = IF wedged' = {} THEN "idle" ELSE "evict"
    /\ IF id \in clients THEN Evict(id)
                         ELSE UNCHANGED <<clients, fullFor, sockVars>>
    /\ UNCHANGED <<readerVars, connOf, volume, nextId, chanVars, todo, taskVars,
                   histVars>>

\* The ages are all the code reads of time; past the limit they stop mattering.
Tick ==
    /\ \E i \in clients : fullFor[i] \in 0 .. LIMIT
    /\ fullFor' = [i \in ClientId |-> IF fullFor[i] \in 0 .. LIMIT THEN fullFor[i] + 1
                                                                   ELSE fullFor[i]]
    /\ UNCHANGED <<sockVars, readerVars, clients, connOf, volume, nextId, chanVars,
                   pipeVars, taskVars, histVars>>

-----------------------------------------------------------------------------
\* The event tasks (broadcast_settings).

\* The task turns to one of ids, in map order, that is in any order, to send it
\* volume v; with none left broadcast_settings returns.
Turn(t, ids, v) ==
    \/ /\ ids = {}
       /\ sending' = [sending EXCEPT ![t] = NoId]
       /\ rest' = [rest EXCEPT ![t] = {}]
       /\ vol' = [vol EXCEPT ![t] = 0]
    \/ \E id \in ids :
       /\ sending' = [sending EXCEPT ![t] = id]
       /\ rest' = [rest EXCEPT ![t] = ids \ {id}]
       /\ vol' = [vol EXCEPT ![t] = v]

\* Settings are on their way to a client: read, and not in its channel yet.
UnderWay(id) ==
    \/ \E t \in Tasks : sending[t] = id \/ id \in rest[t]
    \/ \E c \in Conns : helloId[c] = id /\ reader[c] = "settings"

\* Under the mutex: store the volume, clone the senders.
BeginSettings(t) ==
    /\ sending[t] = NoId
    /\ LockFree
    /\ volume < MAX_VOLUME
    /\ volume' = volume + 1
    /\ Turn(t, clients, volume + 1)
    /\ overtaken' = {id \in ClientId : UnderWay(id)}
    /\ UNCHANGED <<sockVars, readerVars, clients, connOf, fullFor, nextId, chanVars,
                   pipeVars, histVars>>

\* A blocking send, outside the mutex.
SettingsSent(t) ==
    /\ sending[t] # NoId
    /\ Alive(sending[t]) /\ Room(sending[t])
    /\ Tell(sending[t], vol[t])
    /\ Turn(t, rest[t], vol[t])
    /\ UNCHANGED <<sockVars, readerVars, regVars, writer, inHand, pipeVars, overtaken>>

\* Mutant of SettingsRefused: the error ends the broadcast.
SettingsRefusedReturns(t) ==
    /\ sending[t] # NoId
    /\ Dead(sending[t])
    /\ Turn(t, {}, 0)
    /\ UNCHANGED <<sockVars, readerVars, regVars, chanVars, pipeVars, overtaken, histVars>>

\* The send's error is ignored.
SettingsRefused(t) ==
    /\ sending[t] # NoId
    /\ Dead(sending[t])
    /\ Turn(t, rest[t], vol[t])
    /\ UNCHANGED <<sockVars, readerVars, regVars, chanVars, pipeVars, overtaken, histVars>>

-----------------------------------------------------------------------------
ReaderStep(c) ==
    \/ Hello(c) \/ HelloFails(c) \/ RecvTime(c) \/ ReadFails(c)
    \/ ReadSettings(c) \/ SendSettings(c) \/ SendCodec(c)
    \/ SendReply(c) \/ SendRefused(c)
    \/ Unregister(c) \/ CloseSocket(c)

WriterStep(id) ==
    \/ WriterRecv(id) \/ WriterWrite(id) \/ WriterFails(id) \/ WriterIdleExit(id)

PipeStep ==
    \/ BeginFanout \/ EndFanout
    \/ \E id \in ClientId : TrySend(id) \/ Disconnect(id)

TaskStep(t) == BeginSettings(t) \/ SettingsSent(t) \/ SettingsRefused(t)

Next ==
    \/ \E c \in Conns : Accept(c) \/ ReaderStep(c) \/ PeerReads(c) \/ PeerResets(c)
    \/ \E id \in ClientId : WriterStep(id)
    \/ PipeStep
    \/ Tick
    \/ \E t \in Tasks : TaskStep(t)

Spec == Init /\ [][Next]_vars

-----------------------------------------------------------------------------
\* Fairness.  Threads are scheduled: weak fairness.  The two things a thread
\* competes for, the mutex and a slot of a full channel, are only intermittently
\* free: strong fairness, which std's mutex and channel do not promise but a
\* fan-out every chunk_ms and a writer that drains the channel provide.  Of a shut
\* socket only what was buffered is left to be read, so that a read fails at last.
\* Nothing is assumed of the peer: it may stop reading for ever.
ReaderFair(c) ==
    /\ SF_vars(sock[c] = "shut" /\ ReadFails(c))
    /\ SF_vars(ReadSettings(c))
    /\ SF_vars(SendSettings(c))
    /\ SF_vars(SendCodec(c))
    /\ SF_vars(SendReply(c))
    /\ WF_vars(SendRefused(c))
    /\ SF_vars(Unregister(c))
    /\ WF_vars(CloseSocket(c))

TaskFair(t) == SF_vars(SettingsSent(t)) /\ WF_vars(SettingsRefused(t))

\* Every thread but the source: a paused source calls broadcast_chunk no more.
ThreadsFair ==
    /\ \A c \in Conns : ReaderFair(c)
    /\ \A id \in ClientId : WF_vars(WriterStep(id))
    /\ \A t \in Tasks : TaskFair(t)
    /\ WF_vars(EndFanout)
    /\ \A id \in ClientId : WF_vars(TrySend(id)) /\ WF_vars(Disconnect(id))
    /\ WF_vars(Tick)

PausedSpec  == Spec /\ ThreadsFair
PlayingSpec == PausedSpec /\ WF_vars(BeginFanout)

-----------------------------------------------------------------------------
\* Properties.

SocketTypes ==
    /\ sock \in [Conns -> {"new", "open", "shut"}]
    /\ unread \in [Conns -> 0 .. SOCK_BUF]

ReaderTypes ==
    /\ reader \in [Conns -> {"none", "read", "snapshot", "settings", "codec", "reply",
                             "leave", "close", "done"}]
    /\ greeted \in [Conns -> BOOLEAN]
    /\ myId \in [Conns -> ClientId \cup {NoId}]
    /\ helloId \in [Conns -> ClientId \cup {NoId}]
    /\ snap \in [Conns -> Volume]

RegistryTypes ==
    /\ clients \in SUBSET ClientId
    /\ connOf \in [ClientId -> Conns]
    /\ fullFor \in [ClientId -> -1 .. LIMIT + 1]
    /\ volume \in Volume
    /\ nextId \in 0 .. MAX_CLIENT_ID

ChannelTypes ==
    /\ queue \in [ClientId -> 0 .. CHANNEL_SLOTS]
    /\ writer \in [ClientId -> {"none", "run", "done"}]
    /\ inHand \in [ClientId -> BOOLEAN]

PipeTypes ==
    /\ pipe \in {"idle", "fanout", "evict"}
    /\ todo \in SUBSET ClientId
    /\ wedged \in SUBSET ClientId

TaskTypes ==
    /\ sending \in [Tasks -> ClientId \cup {NoId}]
    /\ rest \in [Tasks -> SUBSET ClientId]
    /\ vol \in [Tasks -> Volume]
    /\ overtaken \in SUBSET ClientId

HistTypes ==
    /\ told \in [ClientId -> Volume \cup {Untold}]
    /\ last \in [ClientId -> Volume \cup {Untold}]
    /\ given \in [ClientId -> SUBSET Outbound]

TypeOK ==
    /\ SocketTypes /\ ReaderTypes /\ RegistryTypes /\ ChannelTypes
    /\ PipeTypes /\ TaskTypes /\ HistTypes

\* A registered client whose socket is open has a live writer and a reader that
\* has not returned: chunks are never fanned out into a channel nobody drains
\* unless the socket is already shut.
ServedWhileOpen ==
    \A id \in clients :
        sock[connOf[id]] = "open" => Alive(id) /\ reader[connOf[id]] # "done"

\* A reader that has greeted its client and still serves it is either in the
\* registry or has a shut socket: no client keeps a connection that no broadcast
\* will ever reach (a zombie that stays in sync but hears nothing).
NoZombie ==
    \A c \in Conns :
        reader[c] \in {"read", "reply"} /\ myId[c] # NoId
            => myId[c] \in clients \/ sock[c] = "shut"

\* No volume change is lost: a registered client with a live writer was queued the
\* stored volume, or a broadcast of that volume still has it to send to, or its
\* own handshake is about to queue it.
BroadcastPending(id) ==
    \E t \in Tasks : vol[t] = volume /\ (sending[t] = id \/ id \in rest[t])
HandshakePending(id) ==
    \E c \in Conns :
        /\ helloId[c] = id
        /\ reader[c] = "snapshot" \/ (reader[c] = "settings" /\ snap[c] = volume)
NoLostVolume ==
    \A id \in clients :
        Alive(id) => told[id] = volume \/ BroadcastPending(id) \/ HandshakePending(id)

\* The settings a registered client is sent last have the stored volume, or ones with it
\* are still to come, unless the volume changed while older settings were on their way to
\* this client: only then can they come last (net.rs 161-177, 280-282).
LastInForce ==
    \A id \in clients \ overtaken :
        Alive(id) => last[id] = volume \/ BroadcastPending(id) \/ HandshakePending(id)

\* No channel is sent a codec header before settings, nor a time reply before the
\* codec header (the order of reader_loop's sends, and my_tx set after them).
HandshakeOrder ==
    \A id \in ClientId :
        /\ "codec" \in given[id] => "settings" \in given[id]
        /\ "reply" \in given[id] => "codec" \in given[id]

\* Between two messages the session counts as greeted exactly if the reader holds
\* a channel: no Time request of a greeted client is ever ignored.
SessionMatchesChannel ==
    \A c \in Conns : reader[c] = "read" => (greeted[c] <=> myId[c] # NoId)

\* The fan-out forces out a client with an open socket, other than one that is
\* leaving by itself, only after its queue was found full past the limit.
EvictionJustified ==
    [][\A id \in clients \ clients' :
          sock[connOf[id]] = "open" /\ reader[connOf[id]] # "leave"
              => fullFor[id] > LIMIT]_vars

\* "push fresh settings to every client" and "a fresh client needs settings (with
\* current volume)": with no broadcast under way, what a served client was queued
\* last is the stored volume.
SettingsCurrent ==
    (\A t \in Tasks : sending[t] = NoId) =>
        \A c \in Conns :
            reader[c] = "read" /\ myId[c] \in clients /\ Alive(myId[c])
                => last[myId[c]] = volume

\* "Unregisters on any error so the writer tears down": a reader that returned
\* leaves no registration of its connection behind.
ReaderGoneUnregistered ==
    \A id \in clients : reader[connOf[id]] # "done"

\* Every broadcast_settings finishes: no client holds up the others for ever.
SettingsComplete == \A t \in Tasks : sending[t] # NoId ~> sending[t] = NoId

\* "broadcast settings hit the DAC immediately": a volume change reaches every
\* client whose peer keeps up.
SettingsReachResponsive ==
    \A id \in ClientId :
        []<>(Room(id) /\ unread[connOf[id]] = 0) =>
            (id \in clients /\ told[id] # volume
                ~> told[id] = volume \/ id \notin clients \/ Dead(id))

\* A channel does not stay full for ever while the client stays registered.
WedgedDropped == \A id \in ClientId : []<>~(id \in clients /\ ~Room(id))

\* Every reader's send and lock acquisition finishes.
ReadersProceed == \A c \in Conns : []<>(reader[c] \in {"none", "read", "done"})

\* Once its socket is shut, a connection's reader, writers and registrations go.
Reclaimed ==
    \A c \in Conns :
        sock[c] = "shut" ~>
            /\ reader[c] = "done"
            /\ \A id \in 0 .. nextId - 1 : connOf[id] = c => id \notin clients /\ Dead(id)
=============================================================================
