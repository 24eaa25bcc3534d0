----------------------------- MODULE Discovery ------------------------------
(***************************************************************************)
(* How the client finds a server when it is given none: src/mdns.rs.  One  *)
(* query is sent, and datagrams are read until one names a server or the   *)
(* deadline has passed.  The deadline is looked at between two reads only, *)
(* and every read may wait for the whole timeout.                          *)
(*                                                                         *)
(* A datagram is what its header announces and the entries that follow:    *)
(* questions, then records.  An entry that the datagram breaks off in is   *)
(* not there.  Which host a record belongs to stands for what it says, an  *)
(* address or a port.                                                      *)
(***************************************************************************)
EXTENDS Naturals, Sequences

CONSTANTS
    TIMEOUT,  \* the timeout, and so the time to the deadline
    ANSWERS   \* the datagrams that may arrive

Entries == [type : {"A", "SRV", "PTR", "question"}, fits : BOOLEAN, host : Nat \ {0}]

\* What is assumed of them (by ClientProcess).
DiscoveryAssumption ==
    /\ TIMEOUT \in Nat \ {0}
    /\ ANSWERS \subseteq [questions : Nat, records : Nat, body : Seq(Entries)]

VARIABLES
    asking,  \* "recv"; "found", "none" or "error" once discover has returned
    clock,   \* time since the query
    since,   \* when the current read began
    server,  \* what was found
    read     \* history: the datagram read last

discoveryVars == <<asking, clock, since, server, read>>

Absent   == 0                            \* the None of ip and of port
NoServer == [ip |-> Absent, port |-> Absent]
NoAnswer == [questions |-> 0, records |-> 0, body |-> <<>>]

Init ==
    /\ asking = "recv"
    /\ clock = 0 /\ since = 0
    /\ server = NoServer /\ read = NoAnswer

\* The entries that parse_response walks through are all there.
Whole(r) == Len(r.body) >= r.questions + r.records

\* What the last record of a type says; one whose length does not suit its type is skipped.
LastOf(r, type) ==
    LET at == {i \in r.questions + 1 .. r.questions + r.records :
                  r.body[i].type = type /\ r.body[i].fits}
    IN  IF at = {} THEN Absent ELSE r.body[CHOOSE i \in at : \A j \in at : j <= i].host

Parse(r) ==
    IF ~Whole(r) \/ Absent \in {LastOf(r, "A"), LastOf(r, "SRV")} THEN NoServer
    ELSE [ip |-> LastOf(r, "A"), port |-> LastOf(r, "SRV")]

\* Mutants of Again: the deadline is ignored; it starts anew.
AgainForever == since' = clock /\ UNCHANGED <<asking, clock>>
AgainAnew    == since' = 0 /\ clock' = 0 /\ UNCHANGED asking

\* The top of the loop: read again, unless the deadline has passed.
Again ==
    /\ IF clock < TIMEOUT THEN since' = clock /\ UNCHANGED asking
                          ELSE asking' = "none" /\ UNCHANGED since
    /\ UNCHANGED clock

\* Mutant of Datagram: what a datagram lacks is taken from the ones before.
DatagramAddsUp(r) ==
    LET kept(old, new) == IF Whole(r) /\ new # Absent THEN new ELSE old
    IN  /\ asking = "recv"
        /\ read' = r
        /\ server' = [ip   |-> kept(server.ip, LastOf(r, "A")),
                      port |-> kept(server.port, LastOf(r, "SRV"))]
        /\ IF Absent \in {server'.ip, server'.port}
           THEN Again ELSE asking' = "found" /\ UNCHANGED <<clock, since>>

Datagram(r) ==
    /\ asking = "recv"
    /\ read' = r
    /\ server' = Parse(r)
    /\ IF server' = NoServer THEN Again
                             ELSE asking' = "found" /\ UNCHANGED <<clock, since>>

RecvTimesOut ==
    /\ asking = "recv"
    /\ clock = since + TIMEOUT
    /\ asking' = "none"
    /\ UNCHANGED <<clock, since, server, read>>

\* Any other error of the socket.
RecvFails ==
    /\ asking = "recv" /\ asking' = "error"
    /\ UNCHANGED <<clock, since, server, read>>

\* A read does not outlast its timeout.
Elapse ==
    /\ asking = "recv"
    /\ clock < since + TIMEOUT
    /\ clock' = clock + 1
    /\ UNCHANGED <<asking, since, server, read>>

Next ==
    \/ \E r \in ANSWERS : Datagram(r)
    \/ RecvTimesOut \/ RecvFails \/ Elapse

Fairness == WF_discoveryVars(RecvTimesOut) /\ WF_discoveryVars(Elapse)

-----------------------------------------------------------------------------
\* "or None on timeout" (mdns.rs 84): however many useless datagrams arrive, discover
\* returns before twice the timeout; not within it, as the last read may begin just
\* before the deadline.
ReturnsInTime == clock < 2 * TIMEOUT

\* "the IPv4 from the A record and the port from the SRV record. Returns None unless
\* both are present" (mdns.rs 46-47): both are records of the very datagram that named the
\* server, which is all there; none is left over from a datagram that had only the other.
FromOneAnswer ==
    asking = "found" =>
        /\ read \in ANSWERS /\ Whole(read)
        /\ \E i, j \in 1 .. read.questions + read.records :
              /\ read.body[i].type = "A" /\ read.body[i].fits
              /\ read.body[i].host = server.ip
              /\ read.body[j].type = "SRV" /\ read.body[j].fits
              /\ read.body[j].host = server.port

=============================================================================
