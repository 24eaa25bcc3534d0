--------------------------- MODULE SpotifySession ---------------------------
(***************************************************************************)
(* The Spotify source of server/src/spotify.rs: the loop that runs one     *)
(* librespot session after the other, the player of a session, whose sink  *)
(* drives a Pipeline of its own, and the event task of a session, which    *)
(* calls broadcast_settings for each change of the volume.                 *)
(*                                                                         *)
(* A session ends in two ways.  When its spirc task is over the event task *)
(* is aborted, which tokio notices between two polls of that task: not     *)
(* inside broadcast_settings, and not while a poll that is going on finds  *)
(* more in the channel.  An error returns through `?` and                  *)
(* aborts nothing: the event task goes on until its channel, which the     *)
(* player closes, is empty.  Dropping the player waits for its thread,     *)
(* that is, for the sink's call that is going on.                          *)
(*                                                                         *)
(* librespot and the phones are external: a login may fail at any time,    *)
(* one that succeeds leaves its credentials in the cache.                  *)
(***************************************************************************)
EXTENDS Pipeline

CONSTANTS
    TASKS,      \* bound: event tasks that exist at the same time
    MAX_EVENTS  \* bound: volume changes in a behaviour

ASSUME SpotifyAssumption ==
    /\ TASKS # {}
    /\ MAX_EVENTS \in Nat

VARIABLES
    cached,  \* whether the cache holds credentials
    loop,    \* "top"; "connect" and "up": inside run_session; "closing": its player is
             \* being dropped; "ended"
    task,    \* TASKS -> "free"; "await" an event, not being polled; in a "poll", about
             \* to receive; in the "call" of broadcast_settings
    owner,   \* TASKS -> "none"; its "session" runs; it was "aborted", its player is still
             \* there; "cut", aborted and its channel closed; "drain", only closed
    queued,  \* TASKS -> the volume changes in its channel, taken in their order
    events,  \* how many volume changes there were, which numbers them
    \* history
    sent,    \* the changes broadcast_settings was called with
    aborted  \* the changes that were in the channel of a task that was aborted

loopVars == <<cached, loop>>
taskVars == <<task, owner, queued, events, sent, aborted>>
spotifyVars == <<vars, loopVars, taskVars>>

SpotifyInit ==
    /\ Init
    /\ cached \in BOOLEAN
    /\ loop = "top"
    /\ task = [t \in TASKS |-> "free"]
    /\ owner = [t \in TASKS |-> "none"]
    /\ queued = [t \in TASKS |-> {}]
    /\ events = 0
    /\ sent = {}
    /\ aborted = {}

-----------------------------------------------------------------------------
\* The loop of run, and run_session.

Free == {t \in TASKS : task[t] = "free"}

\* A player with a new Pipeline, and its event task.
Begin ==
    /\ loop' = "connect"
    /\ Free # {}
    /\ LET t == CHOOSE t \in Free : TRUE
       IN  /\ task' = [task EXCEPT ![t] = "await"]
           /\ owner' = [owner EXCEPT ![t] = "session"]
    /\ running' = FALSE
    /\ inLen' = 0 /\ outLen' = 0
    /\ Anchorless
    /\ phase' = "idle" /\ target' = 0
    /\ UNCHANGED <<now, failures, historyVars, queued, events, sent, aborted>>

TakeCached ==
    /\ loop = "top" /\ cached
    /\ Begin
    /\ UNCHANGED cached

\* A phone picks the speaker while the loop waits for one.
TakePick ==
    /\ loop = "top" /\ ~cached
    /\ Begin
    /\ UNCHANGED cached

DiscoveryEnds ==
    /\ loop = "top" /\ ~cached
    /\ loop' = "ended"
    /\ UNCHANGED <<vars, cached, taskVars>>

\* Spirc::new and activate succeed.
Connected ==
    /\ loop = "connect" /\ loop' = "up"
    /\ cached' = TRUE
    /\ UNCHANGED <<vars, taskVars>>

\* One of them fails, the second after a login: run_session returns through `?`.
ConnectFails ==
    /\ loop = "connect" /\ loop' = "closing"
    /\ cached' \in {cached, TRUE}
    /\ UNCHANGED <<vars, taskVars>>

Owned(kinds) == {t \in TASKS : owner[t] \in kinds}

\* spirc_task is over: abort.
SessionEnds ==
    /\ loop = "up" /\ loop' = "closing"
    /\ owner' = [t \in TASKS |-> IF owner[t] = "session" THEN "aborted" ELSE owner[t]]
    /\ aborted' = aborted \union UNION {queued[t] : t \in Owned({"session"})}
    /\ UNCHANGED <<vars, cached, task, queued, events, sent>>

\* The player is gone and with it the sender of the events.
Closes(t) ==
    CASE owner[t] = "session" -> "drain"
      [] owner[t] = "aborted" -> "cut"
      [] OTHER -> owner[t]

\* Mutant of NextRound: run returns the error of the session.
NextRoundNever == "ended"

\* An error of the session is only logged.
NextRound == "top"

\* The player's thread has returned from the sink.
Closed ==
    /\ loop = "closing" /\ loop' = NextRound
    /\ phase = "idle"
    /\ owner' = [t \in TASKS |-> Closes(t)]
    /\ UNCHANGED <<vars, cached, task, queued, events, sent, aborted>>

-----------------------------------------------------------------------------
\* The player's thread: librespot calls the sink while the session is up; the call
\* it is in goes on while the player is being dropped.
PlayerStep ==
    /\ \/ loop = "up" /\ (Start \/ Push \/ PushFails \/ Stop)
       \/ loop \in {"up", "closing"} /\ (Pace \/ EncodeFails \/ HandOut)
    /\ UNCHANGED <<loopVars, taskVars>>

TimePasses == Tick /\ UNCHANGED <<loopVars, taskVars>>

-----------------------------------------------------------------------------
\* The event tasks.

\* The player of a session that is over may still have a change to tell.
VolumeChanged ==
    /\ loop \in {"connect", "up", "closing"}
    /\ events < MAX_EVENTS /\ events' = events + 1
    /\ \E t \in Owned({"session", "aborted"}) :
          /\ queued' = [queued EXCEPT ![t] = @ \union {events'}]
          /\ aborted' = aborted \union (IF owner[t] = "aborted" THEN {events'} ELSE {})
    /\ UNCHANGED <<vars, loopVars, task, owner, sent>>

Aborted(t) == owner[t] \in {"aborted", "cut"}

\* A poll that is going on receives what there is; a new one begins with the abort.
TaskRecv(t) ==
    /\ task[t] = "poll" \/ (task[t] = "await" /\ ~Aborted(t))
    /\ \E n \in queued[t] :
          /\ \A k \in queued[t] : n <= k
          /\ queued' = [queued EXCEPT ![t] = @ \ {n}]
          /\ sent' = sent \union {n}
    /\ task' = [task EXCEPT ![t] = "call"]
    /\ UNCHANGED <<vars, loopVars, owner, events, aborted>>

\* broadcast_settings returns (StreamServer: SettingsComplete).
TaskReturns(t) ==
    /\ task[t] = "call"
    /\ task' = [task EXCEPT ![t] = "poll"]
    /\ UNCHANGED <<vars, loopVars, owner, queued, events, sent, aborted>>

\* recv is Pending: the channel is empty, or tokio's budget for one poll is used up.
TaskAwaits(t) ==
    /\ task[t] = "poll"
    /\ task' = [task EXCEPT ![t] = "await"]
    /\ UNCHANGED <<vars, loopVars, owner, queued, events, sent, aborted>>

\* Mutants of Over: the task ignores the end of its channel; it leaves what is in it.
OverIfAborted(t) == task[t] = "await" /\ Aborted(t)
OverOnceClosed(t) == OverIfAborted(t) \/ (task[t] # "call" /\ owner[t] = "drain")

\* The abort is noticed, or the channel is closed and empty.
Over(t) ==
    \/ task[t] = "await" /\ Aborted(t)
    \/ task[t] \in {"await", "poll"} /\ owner[t] \in {"cut", "drain"} /\ queued[t] = {}

TaskEnds(t) ==
    /\ Over(t)
    /\ task' = [task EXCEPT ![t] = "free"]
    /\ owner' = [owner EXCEPT ![t] = "none"]
    /\ queued' = [queued EXCEPT ![t] = {}]
    /\ UNCHANGED <<vars, loopVars, events, sent, aborted>>

-----------------------------------------------------------------------------
LoopStep ==
    \/ TakeCached \/ TakePick \/ DiscoveryEnds
    \/ Connected \/ ConnectFails \/ SessionEnds \/ Closed

SpotifyNext ==
    \/ LoopStep \/ PlayerStep \/ TimePasses \/ VolumeChanged
    \/ \E t \in TASKS : TaskRecv(t) \/ TaskReturns(t) \/ TaskAwaits(t) \/ TaskEnds(t)

\* The threads and the runtime are scheduled, a login succeeds or fails and time goes
\* on.  A session need not end, a phone need not pick, a broadcast need not return.
SpotifyFairness ==
    /\ WF_spotifyVars(TakeCached)
    /\ WF_spotifyVars(Connected \/ ConnectFails)
    /\ WF_spotifyVars(Closed)
    /\ WF_spotifyVars((Pace \/ EncodeFails) /\ PlayerStep)
    /\ WF_spotifyVars(HandOut /\ PlayerStep)
    /\ WF_spotifyVars(TimePasses)
    /\ \A t \in TASKS :
          WF_spotifyVars(TaskRecv(t)) /\ WF_spotifyVars(TaskAwaits(t)) /\ WF_spotifyVars(TaskEnds(t))

SpotifySpec == SpotifyInit /\ [][SpotifyNext]_spotifyVars /\ SpotifyFairness

-----------------------------------------------------------------------------
\* A change that was not broadcast and waits in no channel was in that of a task that
\* its session's regular end aborted: sessions that fail lose none, neither at the `?`
\* nor while later sessions run beside the task they left (spotify.rs 121-157).
NoneMissed ==
    \A n \in 1 .. events : n \in sent \union aborted \/ \E t \in TASKS : n \in queued[t]

\* The bounds stop the loop: the sink sleeps until a time that does not come, or event
\* tasks whose broadcasts are blocked take up all that the model has.
AtBound == (phase = "pace" /\ target > MAX_TIME) \/ (loop = "top" /\ Free = {})

\* "reconnect silently with cached credentials" (spotify.rs 63): a session that ended
\* or failed is followed by another, once the sink is done with the frames it has,
\* whatever becomes of its event task.
SessionsFollow == loop = "closing" /\ cached ~> loop = "connect" \/ AtBound

\* An event task whose session is over ends, whichever way it is told and however many
\* changes it has left, unless a broadcast of its own never returns.
LeftoversEnd ==
    \A t \in TASKS :
        []<>(task[t] # "call") =>
            (owner[t] \in {"aborted", "cut", "drain"} ~> task[t] = "free")

=============================================================================
