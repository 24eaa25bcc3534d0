--------------------------- MODULE ClientDelivery ---------------------------
(***************************************************************************)
(* What the server of server/src/net.rs promises one client it registers,  *)
(* without readers, writers, mutex, channels' capacity or event tasks.     *)
(*                                                                         *)
(* The client is served from its registration on until it leaves or is     *)
(* dropped, for good.  It hears settings before the codec header and the   *)
(* codec header before any time reply; chunks, which may come at any time, *)
(* are left out.  It is current once it was sent the volume in force,      *)
(* until that changes.  Settings with an older volume may still come,      *)
(* before or after.                                                        *)
(***************************************************************************)
VARIABLES
    standing,  \* "new", "served" or "gone"
    heard,     \* the kinds of message it was sent while served
    current    \* whether it was sent the volume in force

vars == <<standing, heard, current>>

Init ==
    /\ standing = "new"
    /\ heard = {}
    /\ current = FALSE

Join ==
    /\ standing = "new" /\ standing' = "served"
    /\ UNCHANGED <<heard, current>>

Leave ==
    /\ standing = "served" /\ standing' = "gone"
    /\ heard' = {}
    /\ current' = FALSE

\* A message of kind m is sent, once the client heard those of `before`.
Sends(m, before) ==
    /\ standing = "served" /\ UNCHANGED standing
    /\ before \subseteq heard
    /\ heard' = heard \cup {m}

\* Settings with the volume in force, or with an older one.
Inform == Sends("settings", {}) /\ current' = TRUE
Repeat == Sends("settings", {}) /\ UNCHANGED current

Header == Sends("codec", {"settings"}) /\ UNCHANGED current
Answer == Sends("reply", {"settings", "codec"}) /\ UNCHANGED current

\* The volume changes.
Change ==
    /\ current /\ current' = FALSE
    /\ UNCHANGED <<standing, heard>>

Next == Join \/ Leave \/ Inform \/ Repeat \/ Header \/ Answer \/ Change

Spec == Init /\ [][Next]_vars

=============================================================================
