--------------------------- MODULE ClientProcess ----------------------------
(***************************************************************************)
(* The client process of src/main.rs from its start: it takes the server   *)
(* from the command line or discovers one (Discovery), connects, and then  *)
(* runs its two threads (PlayerClient).                                    *)
(***************************************************************************)
EXTENDS PlayerClient

CONSTANTS TIMEOUT, ANSWERS
VARIABLES asking, clock, since, server, read

D == INSTANCE Discovery

ASSUME ProcessAssumption == D!DiscoveryAssumption

startVars   == <<asking, clock, since, server, read>>
processVars == <<vars, startVars>>

\* Past the connection nothing of discover is left.
Over ==
    /\ asking' = "over"
    /\ clock' = 0 /\ since' = 0
    /\ server' = D!NoServer /\ read' = D!NoAnswer

ProcessInit ==
    /\ Init
    /\ \/ D!Init
       \/ /\ asking = "over"
          /\ clock = 0 /\ since = 0
          /\ server = D!NoServer /\ read = D!NoAnswer

Discover == D!Next /\ UNCHANGED vars

\* Client::connect: the connection and the Hello.
Connect ==
    /\ asking = "found"
    /\ Over
    /\ UNCHANGED vars

\* No server, or none that answers: main returns the error.
GivesUp ==
    /\ asking \in {"found", "none", "error"}
    /\ Over
    /\ main' = "ended"
    /\ UNCHANGED <<frameVars, now, fresh, unheard, sharedVars, threadVars>>

Run == asking = "over" /\ Next /\ UNCHANGED startVars

ProcessNext == Discover \/ Connect \/ GivesUp \/ Run

\* Besides, reads time out and connections are made or refused.
ProcessFairness ==
    /\ ThreadsFair
    /\ WF_vars(asking = "over" /\ TimePasses)
    /\ D!Fairness
    /\ WF_startVars(Connect \/ GivesUp)

ProcessSpec == ProcessInit /\ [][ProcessNext]_processVars /\ ProcessFairness

-----------------------------------------------------------------------------
\* discover returns before twice its timeout.
ReturnsInTime == D!ReturnsInTime

\* The server's address and port are both in the datagram that named it.
FromOneAnswer == D!FromOneAnswer

\* A network that never falls silent does not keep the client from starting, or from
\* saying that there is no server: the deadline is one for all the reads
\* (mdns.rs 90-104, main.rs 45-54).
StartsOrGivesUp == <>(asking = "over")

=============================================================================
