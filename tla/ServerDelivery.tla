--------------------------- MODULE ServerDelivery ---------------------------
(***************************************************************************)
(* StreamServer implements ClientDelivery for each of its registrations:   *)
(* the mapping from its threads, registry and channels to what a client is *)
(* promised.                                                               *)
(***************************************************************************)
EXTENDS StreamServer

\* A registration is served while it is in the map and its writer drains the channel.
Served(id) == id \in clients /\ Alive(id)

Standing(id) == IF Served(id) THEN "served" ELSE IF writer[id] = "none" THEN "new" ELSE "gone"

Delivery(id) == INSTANCE ClientDelivery WITH
    standing <- Standing(id),
    heard <- IF Served(id) THEN given[id] ELSE {},
    current <- Served(id) /\ told[id] = volume

\* What the mapping reads.
mapped == <<clients, writer, volume, told, given>>

\* Every step of a reader, a writer, the fan-out or an event task is one of the steps
\* each client is promised, or none of its business: settings, codec header and replies
\* come in that order, whoever sends in between, only a volume change takes the volume
\* in force from a client, and one that left never comes back (net.rs 106-180, 248-332).
Implements ==
    /\ \A id \in ClientId : Delivery(id)!Init
    /\ [][\/ UNCHANGED mapped
          \/ \A id \in ClientId : [Delivery(id)!Next]_(Delivery(id)!vars)]_vars

=============================================================================
