----------------------- MODULE SpotifySessionProofs -------------------------
(***************************************************************************)
(* Sessions that fail lose no change of the volume, and the pipelines of   *)
(* one session after the other together hand out frames as one does, for   *)
(* any number of event tasks and of volume changes and any packets.        *)
(***************************************************************************)
EXTENDS SpotifySession, PipelineProofs

\* The types of what the event tasks are made of.
TasksInv ==
    /\ owner \in [TASKS -> {"none", "session", "aborted", "cut", "drain"}]
    /\ queued \in [TASKS -> SUBSET Nat]
    /\ events \in Nat

\* What an aborted task can still leave in its channel is known to have been there.
AbortedInv == \A t \in TASKS : Aborted(t) => queued[t] \subseteq aborted

SpotifyInv == TasksInv /\ AbortedInv /\ NoneMissed

LEMMA InitSpotify == SpotifyInit => SpotifyInv
<1> SUFFICES ASSUME SpotifyInit PROVE SpotifyInv
    OBVIOUS
<1>1. TasksInv
      BY DEF SpotifyInit, TasksInv
<1>2. AbortedInv
      BY DEF SpotifyInit, AbortedInv, Aborted
<1>3. 1 .. events = {}
      BY DEF SpotifyInit
<1> QED BY <1>1, <1>2, <1>3 DEF SpotifyInv, NoneMissed

\* Nothing is lost where the channels stay as they are and no one else is aborted.
LEMMA SameChannels ==
    ASSUME SpotifyInv, UNCHANGED <<queued, events, sent>>, aborted \subseteq aborted',
           owner' \in [TASKS -> {"none", "session", "aborted", "cut", "drain"}],
           \A t \in TASKS : Aborted(t)' => Aborted(t) \/ queued[t] \subseteq aborted'
    PROVE  SpotifyInv'
<1>1. TasksInv'
      BY DEF SpotifyInv, TasksInv
<1>2. AbortedInv'
      BY DEF SpotifyInv, AbortedInv
<1>3. NoneMissed'
      BY DEF SpotifyInv, NoneMissed
<1> QED BY <1>1, <1>2, <1>3 DEF SpotifyInv

\* The task a session begins with is not aborted.
LEMMA BeginKeeps == SpotifyInv /\ Begin => SpotifyInv'
<1> SUFFICES ASSUME SpotifyInv, Begin PROVE SpotifyInv'
    OBVIOUS
<1> DEFINE u == CHOOSE t \in Free : TRUE
<1>1. u \in TASKS
      BY DEF Begin, Free
<1>2. owner' = [owner EXCEPT ![u] = "session"] /\ UNCHANGED <<queued, events, sent, aborted>>
      BY DEF Begin
<1> HIDE DEF u
<1>3. owner' \in [TASKS -> {"none", "session", "aborted", "cut", "drain"}]
      BY <1>1, <1>2 DEF SpotifyInv, TasksInv
<1>4. \A t \in TASKS : Aborted(t)' => Aborted(t)
      BY <1>1, <1>2 DEF SpotifyInv, TasksInv, Aborted
<1> QED BY <1>2, <1>3, <1>4, SameChannels

\* The abort takes down what is in the channel at that moment.
LEMMA EndsKeeps == SpotifyInv /\ SessionEnds => SpotifyInv'
<1> SUFFICES ASSUME SpotifyInv, SessionEnds PROVE SpotifyInv'
    OBVIOUS
<1>1. /\ UNCHANGED <<queued, events, sent>>
      /\ owner' = [t \in TASKS |-> IF owner[t] = "session" THEN "aborted" ELSE owner[t]]
      /\ aborted' = aborted \union UNION {queued[t] : t \in Owned({"session"})}
      BY DEF SessionEnds
<1>2. owner' \in [TASKS -> {"none", "session", "aborted", "cut", "drain"}]
      BY <1>1 DEF SpotifyInv, TasksInv
<1>3. ASSUME NEW t \in TASKS, Aborted(t)'
      PROVE  Aborted(t) \/ queued[t] \subseteq aborted'
  <2>1. CASE owner[t] = "session"
        BY <1>1, <2>1 DEF Owned
  <2>2. CASE owner[t] # "session"
        BY <1>1, <1>3, <2>2 DEF Aborted
  <2> QED BY <2>1, <2>2
<1>4. aborted \subseteq aborted'
      BY <1>1
<1> QED BY <1>1, <1>2, <1>3, <1>4, SameChannels

\* A closed channel keeps what is in it, aborted or not.
LEMMA ClosedKeeps == SpotifyInv /\ Closed => SpotifyInv'
<1> SUFFICES ASSUME SpotifyInv, Closed PROVE SpotifyInv'
    OBVIOUS
<1>1. /\ UNCHANGED <<queued, events, sent, aborted>>
      /\ owner' = [t \in TASKS |-> Closes(t)]
      BY DEF Closed
<1>2. \A t \in TASKS : Closes(t) \in {"none", "session", "aborted", "cut", "drain"}
      BY DEF SpotifyInv, TasksInv, Closes
<1>3. \A t \in TASKS : Closes(t) \in {"aborted", "cut"} => Aborted(t)
      BY DEF SpotifyInv, TasksInv, Closes, Aborted
<1>4. owner' \in [TASKS -> {"none", "session", "aborted", "cut", "drain"}]
      BY <1>1, <1>2
<1>5. \A t \in TASKS : Aborted(t)' => Aborted(t)
      BY <1>1, <1>3 DEF Aborted
<1> QED BY <1>1, <1>4, <1>5, SameChannels

\* A change of the volume is in a channel at once, one of an aborted task's noted.
LEMMA ChangedKeeps == SpotifyInv /\ VolumeChanged => SpotifyInv'
<1> SUFFICES ASSUME SpotifyInv, VolumeChanged PROVE SpotifyInv'
    OBVIOUS
<1>1. PICK t \in TASKS :
          /\ queued' = [queued EXCEPT ![t] = @ \union {events'}]
          /\ aborted' = aborted \union (IF owner[t] = "aborted" THEN {events'} ELSE {})
          /\ owner[t] \in {"session", "aborted"}
      BY DEF VolumeChanged, Owned
<1>2. events' = events + 1 /\ events \in Nat /\ UNCHANGED <<owner, sent>>
      BY DEF VolumeChanged, SpotifyInv, TasksInv
<1>3. \A k \in TASKS : queued'[k] = queued[k] \union (IF k = t THEN {events'} ELSE {})
      BY <1>1 DEF SpotifyInv, TasksInv
<1>4. TasksInv'
      BY <1>1, <1>2 DEF SpotifyInv, TasksInv
<1>5. AbortedInv'
  <2> SUFFICES ASSUME NEW k \in TASKS, Aborted(k) PROVE queued'[k] \subseteq aborted'
      BY <1>2 DEF AbortedInv, Aborted
  <2>1. queued[k] \subseteq aborted
        BY DEF SpotifyInv, AbortedInv
  <2>2. k = t => owner[t] = "aborted"
        BY <1>1 DEF Aborted
  <2> QED BY <1>1, <1>3, <2>1, <2>2
<1>6. NoneMissed'
  <2> SUFFICES ASSUME NEW n \in 1 .. events + 1
               PROVE  n \in sent \union aborted' \/ \E k \in TASKS : n \in queued'[k]
      BY <1>2 DEF NoneMissed
  <2>1. CASE n = events + 1
        BY <1>2, <1>3, <2>1
  <2>2. CASE n # events + 1
    <3>1. n \in 1 .. events
          BY <1>2, <2>2
    <3>2. n \in sent \union aborted \/ \E k \in TASKS : n \in queued[k]
          BY <3>1 DEF SpotifyInv, NoneMissed
    <3> QED BY <1>1, <1>3, <3>2
  <2> QED BY <2>1, <2>2
<1> QED BY <1>4, <1>5, <1>6 DEF SpotifyInv

\* What is received is broadcast; what is left behind at a task's end is none, or it was
\* aborted.
LEMMA TaskKeeps ==
    ASSUME SpotifyInv, NEW t \in TASKS,
           TaskRecv(t) \/ TaskReturns(t) \/ TaskAwaits(t) \/ TaskEnds(t)
    PROVE  SpotifyInv'
<1>1. CASE TaskRecv(t)
  <2>1. PICK n \in queued[t] :
            /\ queued' = [queued EXCEPT ![t] = @ \ {n}]
            /\ sent' = sent \union {n}
        BY <1>1 DEF TaskRecv
  <2>2. UNCHANGED <<owner, events, aborted>>
        BY <1>1 DEF TaskRecv
  <2>3. \A k \in TASKS : queued'[k] = IF k = t THEN queued[k] \ {n} ELSE queued[k]
        BY <2>1 DEF SpotifyInv, TasksInv
  <2>4. TasksInv'
        BY <2>1, <2>2 DEF SpotifyInv, TasksInv
  <2>5. AbortedInv'
        BY <2>2, <2>3 DEF SpotifyInv, AbortedInv, Aborted
  <2>6. NoneMissed'
        BY <2>1, <2>2, <2>3 DEF SpotifyInv, NoneMissed
  <2> QED BY <2>4, <2>5, <2>6 DEF SpotifyInv
<1>2. CASE TaskReturns(t) \/ TaskAwaits(t)
  <2>1. UNCHANGED <<owner, queued, events, sent, aborted>>
        BY <1>2 DEF TaskReturns, TaskAwaits
  <2> QED BY <2>1 DEF SpotifyInv, TasksInv, AbortedInv, Aborted, NoneMissed
<1>3. CASE TaskEnds(t)
  <2>1. /\ owner' = [owner EXCEPT ![t] = "none"]
        /\ queued' = [queued EXCEPT ![t] = {}]
        /\ UNCHANGED <<events, sent, aborted>>
        BY <1>3 DEF TaskEnds
  <2>2. Aborted(t) \/ queued[t] = {}
        BY <1>3 DEF TaskEnds, Over
  <2>3. \A k \in TASKS : /\ queued'[k] = IF k = t THEN {} ELSE queued[k]
                         /\ owner'[k] = IF k = t THEN "none" ELSE owner[k]
        BY <2>1 DEF SpotifyInv, TasksInv
  <2>4. TasksInv'
        BY <2>1 DEF SpotifyInv, TasksInv
  <2>5. AbortedInv'
        BY <2>1, <2>3 DEF SpotifyInv, AbortedInv, Aborted
  <2>6. queued[t] \subseteq aborted
        BY <2>2 DEF SpotifyInv, AbortedInv
  <2>7. NoneMissed'
        BY <2>1, <2>3, <2>6 DEF SpotifyInv, NoneMissed
  <2> QED BY <2>4, <2>5, <2>7 DEF SpotifyInv
<1> QED BY <1>1, <1>2, <1>3

\* SpotifyInv is inductive.
LEMMA SpotifyStep == SpotifyInv /\ [SpotifyNext]_spotifyVars => SpotifyInv'
<1> SUFFICES ASSUME SpotifyInv, [SpotifyNext]_spotifyVars PROVE SpotifyInv'
    OBVIOUS
<1>1. CASE UNCHANGED <<owner, queued, events, sent, aborted>>
      BY <1>1 DEF SpotifyInv, TasksInv, AbortedInv, Aborted, NoneMissed
<1>2. CASE TakeCached \/ TakePick
      BY <1>2, BeginKeeps DEF TakeCached, TakePick
<1>3. CASE DiscoveryEnds \/ Connected \/ ConnectFails
      BY <1>1, <1>3 DEF DiscoveryEnds, Connected, ConnectFails, taskVars
<1>4. CASE PlayerStep \/ TimePasses
      BY <1>1, <1>4 DEF PlayerStep, TimePasses, taskVars
<1>5. CASE UNCHANGED spotifyVars
      BY <1>1, <1>5 DEF spotifyVars, taskVars
<1> QED BY <1>2, <1>3, <1>4, <1>5, EndsKeeps, ClosedKeeps, ChangedKeeps, TaskKeeps
        DEF SpotifyNext, LoopStep

\* Through any mixture of failed and ended sessions, with any number of tasks left from
\* them, only a regular end's abort loses a change of the volume (spotify.rs 121-157).
THEOREM NoneMissedCorrect == SpotifySpec => []NoneMissed
  <1>1. SpotifyInv => NoneMissed
    BY DEF SpotifyInv
  <1> QED
    BY <1>1, InitSpotify, SpotifyStep, PTL DEF SpotifySpec

-----------------------------------------------------------------------------
\* The pipelines of the sessions, one after the other.

\* A session's new pipeline holds nothing and has no anchor.
LEMMA BeginPipeline == ASSUME PipelineInv, Begin PROVE PipelineInv'
  <1>1. TypeOK'
    <2>1. /\ running' = FALSE /\ inLen' = 0 /\ outLen' = 0 /\ t0' = Unset /\ count' = 0
          /\ phase' = "idle" /\ target' = 0
          /\ UNCHANGED <<now, failures, lastTs, resumed, pastDated, ahead>>
      BY DEF Begin, Anchorless, historyVars
    <2>2. /\ now' \in 0 .. MAX_TIME /\ failures' \in 0 .. MAX_FAILURES
          /\ lastTs' \in {Unset} \cup Nat /\ resumed' \in BOOLEAN /\ pastDated' \in Nat
          /\ ahead' \in Int
      BY <2>1, Zenon DEF PipelineInv, TypeOK
    <2>3. inLen' \in Nat /\ outLen' \in Nat /\ count' \in Nat /\ target' \in Nat
      BY <2>1, PipelineAssumption
    <2>4. running' \in BOOLEAN
      BY <2>1, Zenon
    <2>5. t0' \in {Unset} \cup 0 .. now' /\ phase' \in {"idle", "emit", "pace"}
      BY <2>1
    <2> QED
      BY <2>2, <2>3, <2>4, <2>5, Zenon DEF TypeOK
  <1>2. NeverEarly' /\ NoBurst'
    BY DEF PipelineInv, NeverEarly, NoBurst, Begin, historyVars
  <1>3. PhaseInv' /\ OrderInv' /\ BurstInv' /\ AheadInv'
    BY DEF PipelineInv, PhaseInv, OrderInv, Unstarted, BurstInv, AheadInv, Begin, Anchorless,
           historyVars
  <1> QED
    BY <1>1, <1>2, <1>3 DEF PipelineInv

\* Every step of the source takes its pipeline a step on, leaves it, or begins a new one.
LEMMA SessionPipelineStep == [SpotifyNext]_spotifyVars => [Next]_vars \/ Begin
  <1> SUFFICES ASSUME [SpotifyNext]_spotifyVars
               PROVE  [Next]_vars \/ Begin
    OBVIOUS
  <1>1. CASE LoopStep
    BY <1>1 DEF LoopStep, TakeCached, TakePick, DiscoveryEnds, Connected, ConnectFails,
                SessionEnds, Closed
  <1>2. CASE PlayerStep \/ TimePasses
    BY <1>2 DEF PlayerStep, TimePasses, Next
  <1>3. CASE VolumeChanged \/ UNCHANGED spotifyVars
    BY <1>3 DEF VolumeChanged, spotifyVars
  <1>4. CASE \E t \in TASKS : TaskRecv(t) \/ TaskReturns(t) \/ TaskAwaits(t) \/ TaskEnds(t)
    BY <1>4 DEF TaskRecv, TaskReturns, TaskAwaits, TaskEnds
  <1> QED
    BY <1>1, <1>2, <1>3, <1>4 DEF SpotifyNext

\* No frame of any session is handed out before its time, nor a burst of late ones.
THEOREM SessionsPaced == SpotifySpec => []PipelineInv
  <1>1. SpotifyInit => PipelineInv
    BY InitPipeline DEF SpotifyInit
  <1>2. PipelineInv /\ [SpotifyNext]_spotifyVars => PipelineInv'
    BY SessionPipelineStep, PipelineStep, BeginPipeline
  <1> QED
    BY <1>1, <1>2, PTL DEF SpotifySpec

\* The timestamps go on rising from one session to the next, whatever was left in the
\* pipeline that was dropped: registry and clients see one stream.
THEOREM SessionsInOrder == SpotifySpec => InOrder
  <1>1. PipelineInv /\ [Next]_vars =>
            [HandOut /\ lastTs # Unset =>
                lastTs' >= lastTs + (IF resumed THEN 0 ELSE FRAME)]_vars
    BY HandOutOrder
  <1>2. PipelineInv /\ Begin =>
            [HandOut /\ lastTs # Unset =>
                lastTs' >= lastTs + (IF resumed THEN 0 ELSE FRAME)]_vars
    <2> SUFFICES ASSUME PipelineInv, Begin, HandOut
                 PROVE  FALSE
      OBVIOUS
    <2>1. count' = 0 /\ count' = count + 1 /\ count \in Nat
      BY DEF Begin, Anchorless, HandOut, PipelineInv, TypeOK
    <2> QED
      BY <2>1
  <1> QED
    BY <1>1, <1>2, SessionPipelineStep, SessionsPaced, PTL DEF SpotifySpec, InOrder

=============================================================================
